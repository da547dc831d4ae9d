-------------------------- MODULE ConfigGenProofs --------------------------
(***************************************************************************)
(* What is forced goes through the tunnel, the proxy server is found       *)
(* without it, the route names what is defined, names follow the route and *)
(* both engines route alike, for any configuration, any geo data on disk,  *)
(* any sets of names and addresses and any outcome of the downloads.       *)
(***************************************************************************)
EXTENDS ConfigGen, WellFoundedInduction, SequenceTheorems, TLAPS

(* The rule that holds and has no rule that holds before it decides.       *)
LEMMA FirstIs ==
    ASSUME NEW rules, NEW things, NEW k \in Nat,
           Hits(rules, things) \subseteq Nat,
           k \in Hits(rules, things), \A j \in Hits(rules, things) : k <= j,
           NEW otherwise
    PROVE  Pick(rules, things, otherwise) = rules[k].to
<1> DEFINE hits == Hits(rules, things)
           i == CHOOSE i \in hits : \A j \in hits : i <= j
<1>1. i \in hits /\ \A j \in hits : i <= j
  OBVIOUS
<1>2. i = k
  <2>1. i <= k /\ k <= i
    BY <1>1
  <2>2. i \in Nat
    BY <1>1
  <2> QED
    BY <2>1, <2>2
<1>3. First(rules, things) = rules[k].to
  BY <1>2 DEF First
<1> QED
  BY <1>3 DEF Pick

(* Forced domains belong to settings without rules of the user.            *)
LEMMA ForcedIsLegacy ==
    ASSUME NEW c, Settings(c).force # {}
    PROVE  Settings(c).rules = <<>>
BY DEF Settings

(* sing-box: the rule for forced domains is the first of its route.        *)
LEMMA SingboxForces ==
    ASSUME NEW s, NEW l, NEW files, NEW d \in Destinations,
           s.rules = <<>>, NEW x \in s.force, <<Suffix(x), d.name>> \in Covers
    PROVE  RouteTo(Singbox(s, l, files), d) = "proxy"
<1> DEFINE cfg == Singbox(s, l, files)
<1>1. cfg.engine = "sing-box"
  BY DEF Singbox
<1>2. CASE ~Routed(s)
  BY <1>2 DEF RouteTo, Singbox
<1>3. CASE Routed(s)
  <2> DEFINE rules == LegacyRules(s, files)
             things == {d.name, d.addr} \ {None}
  <2>1. cfg.route = SingboxRoute(s, files)
    BY <1>3 DEF Singbox
  <2>2. cfg.route.rules = rules /\ cfg.route.final = "proxy"
    BY <2>1 DEF SingboxRoute
  <2>3. d.name \in Names
    BY CoversAssumption DEF Suffix, Matcher
  <2>4. d.name \in things
    BY <2>3, CoversAssumption
  <2>5. rules[1] = Rule({Suffix(y) : y \in s.force}, "proxy") /\ DOMAIN rules = 1..6
    BY DEF LegacyRules
  <2>6. Holds(rules[1], things)
    <3>1. Suffix(x) \in rules[1].on
      BY <2>5 DEF Rule
    <3> HIDE DEF rules, things
    <3> QED
      BY <2>4, <3>1 DEF Holds
  <2>7. Hits(rules, things) \subseteq 1..6 /\ 1 \in Hits(rules, things)
    BY <2>5, <2>6 DEF Hits
  <2>8. Pick(rules, things, "proxy") = rules[1].to
    <3> HIDE DEF rules, things
    <3> QED
      BY <2>7, FirstIs
  <2>9. Pick(rules, things, "proxy") = "proxy"
    BY <2>5, <2>8 DEF Rule
  <2>10. CASE cfg.route = None
    BY <2>10 DEF RouteTo
  <2>11. CASE cfg.route # None
    BY <1>1, <2>2, <2>9, <2>11 DEF RouteTo
  <2> QED
    BY <2>10, <2>11
<1> QED
  BY <1>2, <1>3

(* xray: only the rule for its private ranges precedes it, and that rule   *)
(* looks at an address that is given, and not at names.                    *)
LEMMA XrayForces ==
    ASSUME NEW s, NEW l, NEW files, NEW d \in Destinations,
           s.rules = <<>>, NEW x \in s.force, <<Suffix(x), d.name>> \in Covers,
           Xray(s, l, files).route # None
    PROVE  RouteTo(Xray(s, l, files), d)
             = IF d.given = "addr" /\ <<Ranges, d.addr>> \in Covers THEN "direct" ELSE "proxy"
<1> DEFINE cfg == Xray(s, l, files)
           rules == XrayLegacyRules(s)
           both == {d.name, d.addr} \ {None}
           later == Pick(rules, both, cfg.route.final)
<1>1. cfg.engine = "xray" /\ cfg.route.rules = rules /\ cfg.route.final = "proxy"
  BY DEF Xray
<1>2. d.name \in Names /\ d.name # None
  BY CoversAssumption DEF Suffix, Matcher
<1>3. <<Keyword(x), d.name>> \in Covers
  <2>1. Suffix(x).kind = "domain_suffix" /\ Suffix(x).val = x
    BY DEF Suffix, Matcher
  <2> QED
    BY <2>1, CoversAssumption
<1>4. /\ rules[1] = Rule({Ranges}, "direct")
      /\ rules[2] = Rule({Keyword(y) : y \in s.force}, "proxy")
      /\ DOMAIN rules = 1..5
  BY DEF XrayLegacyRules
<1>5. d.addr \in Addrs /\ d.addr # None /\ both = {d.name, d.addr}
  BY <1>2, CoversAssumption DEF Destinations
<1>6. <<Ranges, d.name>> \notin Covers /\ Ranges # Everything
  <2>1. Ranges.kind = "ranges" /\ Everything.kind = "any"
    BY DEF Ranges, Everything, Matcher
  <2> QED
    BY <1>2, <2>1, CoversAssumption
<1>7. /\ rules[1].on = {Ranges} /\ rules[1].to = "direct" /\ rules[2].to = "proxy"
      /\ Keyword(x) \in rules[2].on
  BY <1>4 DEF Rule
<1> HIDE DEF rules, both, later, cfg
<1>8. ASSUME NEW things, d.name \in things, NEW otherwise
      PROVE  /\ Holds(rules[1], things) => Pick(rules, things, otherwise) = "direct"
             /\ ~Holds(rules[1], things) => Pick(rules, things, otherwise) = "proxy"
  <2>1. Holds(rules[2], things)
    BY <1>3, <1>7, <1>8 DEF Holds
  <2>2. /\ Hits(rules, things) \subseteq 1..5 /\ 2 \in Hits(rules, things)
        /\ 1 \in Hits(rules, things) <=> Holds(rules[1], things)
    BY <1>4, <2>1 DEF Hits
  <2>3. CASE Holds(rules[1], things)
    <3>1. \A j \in Hits(rules, things) : 1 <= j
      BY <2>2
    <3>2. Pick(rules, things, otherwise) = rules[1].to
      BY <2>2, <2>3, <3>1, FirstIs
    <3> QED
      BY <1>7, <2>3, <3>2
  <2>4. CASE ~Holds(rules[1], things)
    <3>1. \A j \in Hits(rules, things) : 2 <= j
      BY <2>2, <2>4
    <3>2. Pick(rules, things, otherwise) = rules[2].to
      BY <2>2, <3>1, FirstIs
    <3> QED
      BY <1>7, <2>4, <3>2
  <2> QED
    BY <2>3, <2>4
<1>9. CASE d.given = "name"
  <2>1. ~Holds(rules[1], {d.name})
    BY <1>6, <1>7 DEF Holds
  <2>2. Pick(rules, {d.name}, later) = "proxy"
    BY <1>8, <2>1
  <2>3. RouteTo(cfg, d) = Pick(rules, {d.name}, later) \/ RouteTo(cfg, d) = "proxy"
    BY <1>1, <1>9 DEF RouteTo, later, both
  <2> QED
    BY <1>9, <2>2, <2>3 DEF cfg
<1>10. CASE d.given # "name"
  <2>1. d.given = "addr"
    BY <1>10 DEF Destinations
  <2>2. Holds(rules[1], both) <=> <<Ranges, d.addr>> \in Covers
    BY <1>5, <1>6, <1>7 DEF Holds
  <2>3. later = IF <<Ranges, d.addr>> \in Covers THEN "direct" ELSE "proxy"
    BY <1>5, <1>8, <2>2 DEF later
  <2>4. cfg.route # None
    BY DEF cfg
  <2>5. RouteTo(cfg, d) = later
    BY <1>1, <1>10, <2>4 DEF RouteTo, later, both
  <2> QED
    BY <2>1, <2>3, <2>5 DEF cfg
<1> QED
  BY <1>9, <1>10

(* sing-box: of the rules for DNS, the one for local names and the one for *)
(* the proxy server come first, and neither leads into the tunnel.         *)
LEMMA SingboxFinds ==
    ASSUME NEW s, NEW l, NEW files, s.rules \in Seq(UserRule), NEW n \in ServerNames(l)
    PROVE  QueryServer(Singbox(s, l, files), n) # "dns-tunnel"
<1> DEFINE cfg == Singbox(s, l, files)
           rules == <<LocalRule(s, "dns-local"), ServerRule(l)>> \o DirectDNS(s, files)
<1>1. n \in Names /\ <<Exact(n), n>> \in Covers
  BY CoversAssumption DEF ServerNames
<1>2. CASE ~Routed(s)
  BY <1>2 DEF QueryServer, Singbox
<1>3. CASE Routed(s)
  <2>1. cfg.dns = SingboxDNS(s, l, files)
    BY <1>3 DEF Singbox
  <2>2. CASE /\ ~s.native /\ s.geosite = {} /\ s.countries = {}
             /\ s.rules = <<>> /\ s.local = {}
    <3>1. cfg.dns.rules = <<>> /\ cfg.dns.final = "dns-direct"
      BY <2>1, <2>2 DEF SingboxDNS
    <3>2. Hits(<<>>, {n}) = {}
      BY DEF Hits
    <3> QED
      BY <3>1, <3>2 DEF QueryServer, Pick
  <2>3. CASE ~(/\ ~s.native /\ s.geosite = {} /\ s.countries = {}
               /\ s.rules = <<>> /\ s.local = {})
    <3>1. cfg.dns.rules = rules
      BY <2>1, <2>3 DEF SingboxDNS
    <3> DEFINE tail == DirectDNS(s, files)
               ds == Range(tail) \cup {LocalRule(s, "dns-local"), ServerRule(l)}
    <3>2. tail \in Seq(ds)
      <4>1. DOMAIN s.rules = 1..Len(s.rules) /\ Len(s.rules) \in Nat
        OBVIOUS
      <4>2. \E m \in Nat : DOMAIN tail = 1..m /\ tail = [i \in 1..m |-> tail[i]]
        <5>1. CASE s.rules = <<>>
          <6>1. tail = <<Rule({Site(c) : c \in s.geosite} \cap files, "dns-direct")>>
            BY <5>1 DEF DirectDNS
          <6> HIDE DEF tail
          <6>2. DOMAIN tail = 1..1 /\ tail = [i \in 1..1 |-> tail[i]]
            BY <6>1
          <6> QED
            BY <6>2
        <5>2. CASE s.rules # <<>>
          <6>1. /\ DOMAIN tail = DOMAIN s.rules
                /\ tail = [i \in DOMAIN s.rules |-> tail[i]]
            BY <5>2 DEF DirectDNS
          <6> HIDE DEF tail
          <6> QED
            BY <4>1, <6>1
        <5> QED
          BY <5>1, <5>2
      <4>3. \A i \in DOMAIN tail : tail[i] \in ds
        BY DEF Range
      <4> HIDE DEF tail, ds
      <4> QED
        BY <4>2, <4>3
    <3>3. /\ rules[1] = LocalRule(s, "dns-local") /\ rules[2] = ServerRule(l)
          /\ DOMAIN rules \subseteq Nat \ {0} /\ {1, 2} \subseteq DOMAIN rules
      <4>1. <<LocalRule(s, "dns-local"), ServerRule(l)>> \in Seq(ds)
        OBVIOUS
      <4> HIDE DEF tail, ds
      <4> QED
        BY <3>2, <4>1
    <3>4. rules[1].to = "dns-local" /\ rules[2].to = "dns-direct"
      BY <3>3 DEF LocalRule, ServerRule, Rule
    <3>5. Holds(rules[2], {n})
      <4>1. Exact(n) \in ServerRule(l).on
        BY DEF ServerRule, Rule
      <4> QED
        BY <1>1, <3>3, <4>1 DEF Holds
    <3>6. /\ Hits(rules, {n}) \subseteq Nat \ {0} /\ 2 \in Hits(rules, {n})
      BY <3>3, <3>5 DEF Hits
    <3>7. Pick(rules, {n}, cfg.dns.final) \in {"dns-local", "dns-direct"}
      <4> HIDE DEF rules, cfg
      <4>1. CASE 1 \in Hits(rules, {n})
        <5>1. \A j \in Hits(rules, {n}) : 1 <= j
          BY <3>6
        <5>2. Pick(rules, {n}, cfg.dns.final) = rules[1].to
          BY <3>6, <4>1, <5>1, FirstIs
        <5> QED
          BY <3>4, <5>2
      <4>2. CASE 1 \notin Hits(rules, {n})
        <5>1. \A j \in Hits(rules, {n}) : 2 <= j
          BY <3>6, <4>2
        <5>2. Pick(rules, {n}, cfg.dns.final) = rules[2].to
          BY <3>6, <5>1, FirstIs
        <5> QED
          BY <3>4, <5>2
      <4> QED
        BY <4>1, <4>2
    <3> QED
      BY <3>1, <3>7 DEF QueryServer
  <2> QED
    BY <2>2, <2>3
<1> QED
  BY <1>2, <1>3

(* xray: likewise.                                                         *)
LEMMA XrayFinds ==
    ASSUME NEW s, NEW l, NEW files, NEW n \in ServerNames(l)
    PROVE  QueryServer(Xray(s, l, files), n) # "dns-tunnel"
<1> DEFINE cfg == Xray(s, l, files)
           rules == XrayDNS(s, l)
<1>1. n \in Names /\ <<Exact(n), n>> \in Covers
  BY CoversAssumption DEF ServerNames
<1>2. cfg.dns.rules = rules /\ cfg.dns.final = "dns-tunnel"
  BY DEF Xray
<1>3. /\ DOMAIN rules = 1..2
      /\ rules[1].to = "dns-local" /\ rules[2].to = "dns-direct"
      /\ Exact(n) \in rules[2].on
  BY DEF XrayDNS, LocalRule, Rule
<1>4. 2 \in Hits(rules, {n}) /\ Hits(rules, {n}) \subseteq 1..2
  BY <1>1, <1>3 DEF Hits, Holds
<1>5. Pick(rules, {n}, "dns-tunnel") \in {"dns-local", "dns-direct"}
  <2> HIDE DEF rules
  <2>1. CASE 1 \in Hits(rules, {n})
    <3>1. \A j \in Hits(rules, {n}) : 1 <= j
      BY <1>4
    <3> QED
      BY <1>3, <1>4, <2>1, <3>1, FirstIs
  <2>2. CASE 1 \notin Hits(rules, {n})
    <3>1. \A j \in Hits(rules, {n}) : 2 <= j
      BY <1>4, <2>2
    <3> QED
      BY <1>3, <1>4, <3>1, FirstIs
  <2> QED
    BY <2>1, <2>2
<1> QED
  BY <1>2, <1>5 DEF QueryServer

-----------------------------------------------------------------------------
(* The config of the engine that runs is the one that was made from the    *)
(* settings, the link and the geo data that are still there.               *)
Made(e) == IF e = "sing-box" THEN Singbox(Current, link, srs) ELSE Xray(Current, link, dat)

IInv ==
    /\ conf \in Confs /\ tried \in Nat
    /\ written = [e \in Engines |-> written[e]]
    /\ running # None => /\ step = "up" /\ running \in Engines
                         /\ written[running] = Made(running)

LEMMA InitMade == Init => IInv
BY DEF Init, IInv

LEMMA StepMade ==
    ASSUME IInv, [Next]_vars
    PROVE  IInv'
<1>1. CASE Run \/ GetGeosite \/ GetGeoip \/ GetDat
  <2>1. step # "up"
    BY <1>1 DEF Run, GetGeosite, GetGeoip, GetDat
  <2>2. running = None /\ running' = None
    BY <1>1, <2>1 DEF IInv, Run, GetGeosite, GetGeoip, GetDat
  <2>3. UNCHANGED <<conf, written>> /\ tried' \in Nat
    BY <1>1 DEF IInv, Run, GetGeosite, GetGeoip, GetDat
  <2> QED
    BY <2>2, <2>3 DEF IInv
<1>2. CASE EngineUp
  <2>1. Engine \in Engines
    <3>1. conf.engines \in Seq(Engines) /\ tried + 1 \in 1..Len(conf.engines)
      BY <1>2, ConfsAssumption DEF IInv, EngineUp
    <3> QED
      BY <3>1 DEF Engine
  <2>2. /\ written' = [written EXCEPT ![Engine] = Generated]
        /\ step' = "up" /\ running' = Engine
        /\ UNCHANGED <<conf, link, srs, dat, geosite, tried>>
    BY <1>2 DEF EngineUp
  <2>3. Generated = Made(Engine)
    BY DEF Generated, Made
  <2>4. Made(Engine)' = Made(Engine)
    BY <2>2 DEF Made, Current, Engine
  <2>5. written'[Engine] = Made(Engine) /\ written' = [e \in Engines |-> written'[e]]
    BY <2>1, <2>2, <2>3 DEF IInv
  <2>6. Made(running)' = Made(Engine)
    BY <2>2, <2>4 DEF Made, Current
  <2> QED
    BY <2>1, <2>2, <2>5, <2>6 DEF IInv
<1>3. CASE EngineFails
  <2>1. step # "up" /\ step' = step /\ running' = running /\ conf' = conf /\ tried' \in Nat
    BY <1>3 DEF EngineFails, IInv
  <2>2. written' = [e \in Engines |-> written'[e]]
    BY <1>3 DEF EngineFails, IInv
  <2> QED
    BY <2>1, <2>2 DEF IInv
<1>4. CASE StartChain \/ UNCHANGED vars
  <2>1. UNCHANGED <<conf, link, srs, dat, geosite, step, tried, written, running>>
    BY <1>4 DEF StartChain, vars
  <2>2. Made(running)' = Made(running)
    BY <2>1 DEF Made, Current
  <2> QED
    BY <2>1, <2>2 DEF IInv
<1>5. CASE Stop
  BY <1>5 DEF Stop, IInv
<1> QED
  BY <1>1, <1>2, <1>3, <1>4, <1>5 DEF Next

LEMMA AlwaysMade == Spec => []IInv
<1>1. Init => IInv
  BY InitMade
<1>2. IInv /\ [Next]_vars => IInv'
  BY StepMade
<1> QED
  BY <1>1, <1>2, PTL DEF Spec

(* The outbound that dials the proxy server, and a query for one of its    *)
(* names, do not need the tunnel that has to reach it: for every           *)
(* configuration, link and user's rules.                                   *)
THEOREM ServerFound == Spec => []ServerFoundWithoutTunnel
<1>1. ASSUME IInv, running # None PROVE DialServer(Config) # "dns-tunnel"
  <2>1. Config = Made(running)
    BY <1>1 DEF IInv, Config
  <2>2. DialServer(Singbox(Current, link, srs)) # "dns-tunnel"
    <3> HIDE DEF Current
    <3> QED
      BY DEF DialServer, Singbox, SingboxRoute
  <2>3. DialServer(Xray(Current, link, dat)) # "dns-tunnel"
    <3> HIDE DEF Current
    <3> QED
      BY DEF DialServer, Xray
  <2> QED
    BY <2>1, <2>2, <2>3 DEF Made
<1>2. IInv => ServerFoundWithoutTunnel
  <2> SUFFICES ASSUME IInv, running # None, NEW n \in ServerNames(link)
               PROVE  QueryServer(Config, n) # "dns-tunnel"
    BY <1>1 DEF ServerFoundWithoutTunnel
  <2>1. Current.rules = conf.rules
    BY DEF Current, SettingsOf, Settings
  <2>2. Current.rules \in Seq(UserRule)
    BY <2>1, ConfsAssumption DEF IInv
  <2>3. Config = Made(running)
    BY DEF IInv, Config
  <2> HIDE DEF Current
  <2> QED
    BY <2>2, <2>3, SingboxFinds, XrayFinds DEF Made
<1> QED
  BY <1>2, AlwaysMade, PTL

(* A chain of any length, of any of the protocols that are run in one      *)
(* process, passes every hop and has no plain direct connection in it.     *)
THEOREM ChainsPass == Spec => []ChainPassesEveryHop
<1> DEFINE J == chain = None \/ chain \in {Chain(c) : c \in Chains}
<1>1. Init => J
  BY DEF Init
<1>2. J /\ [Next]_vars => J'
  BY DEF Next, vars, Run, GetGeosite, GetGeoip, GetDat, EngineUp, EngineFails, StartChain, Stop
<1>3. J => ChainPassesEveryHop
  <2> SUFFICES ASSUME NEW c \in Chains, chain = Chain(c)
               PROVE  ChainPassesEveryHop
    BY DEF ChainPassesEveryHop
  <2> DEFINE n == Len(c)
             path == [i \in 1..n |-> i]
  <2>1. n \in Nat \ {0} /\ DOMAIN c = 1..n
    BY ChainsAssumption
  <2>2. chain = [i \in 1..n |-> [SingboxOutbound(c[i])
           EXCEPT !.detour = IF i = 1 THEN None ELSE i - 1, !.flow = @ /\ i = 1]]
    BY <2>1 DEF Chain
  <2>3. Len(chain) = n
    <3>1. chain \in Seq(Range(chain)) /\ DOMAIN chain = 1..n
      <4>1. chain = [i \in 1..n |-> chain[i]] /\ DOMAIN chain = 1..n
        BY <2>2
      <4>2. \A i \in 1..n : chain[i] \in Range(chain)
        BY <4>1 DEF Range
      <4> QED
        BY <2>1, <4>1, <4>2
    <3> QED
      BY <2>1, <3>1
  <2>4. ASSUME NEW i \in 1..n
        PROVE  /\ chain[i].detour = IF i = 1 THEN None ELSE i - 1
               /\ chain[i].type # "direct" /\ (chain[i].flow => i = 1)
    <3> DEFINE o == SingboxOutbound(c[i])
    <3>1. c[i].protocol \in SingboxCompatible
      BY <2>1, ChainsAssumption
    <3>2. /\ o.type # "direct"
          /\ o = [type |-> o.type, flow |-> o.flow, detour |-> o.detour]
      BY <3>1 DEF SingboxOutbound, SingboxCompatible
    <3>3. chain[i] = [o EXCEPT !.detour = IF i = 1 THEN None ELSE i - 1, !.flow = @ /\ i = 1]
      BY <2>2
    <3> HIDE DEF o
    <3> QED
      BY <3>2, <3>3
  <2>5. /\ path \in [1..n -> 1..n] /\ path[n] = n /\ path[1] = 1
        /\ \A i \in 1..n : path[i] = i
    BY <2>1
  <2>6. /\ chain[path[1]].detour = None
        /\ \A i, j \in 1..n : path[i] = path[j] => i = j
        /\ \A i \in 2..n : chain[path[i]].detour = path[i - 1]
    <3> HIDE DEF path
    <3>1. 1 \in 1..n /\ \A i \in 2..n : i \in 1..n /\ i - 1 \in 1..n /\ i # 1
      BY <2>1
    <3> QED
      BY <2>4, <2>5, <3>1
  <2>7. \A i \in 1..n : /\ chain[i].type # "direct"
                        /\ chain[i].flow => chain[i].detour = None
    BY <2>4
  <2> HIDE DEF path
  <2> QED
    BY <2>3, <2>5, <2>6, <2>7 DEF ChainPassesEveryHop
<1> QED
  BY <1>1, <1>2, <1>3, PTL DEF Spec

-----------------------------------------------------------------------------
(* Which rule decides                                                      *)

(* A set of naturals has a least element.                                  *)
LEMMA Least ==
    ASSUME NEW S \in SUBSET Nat, S # {}
    PROVE  \E n \in S : \A m \in S : n <= m
<1> DEFINE R == {p \in Nat \X Nat : p[1] < p[2]}
<1>1. IsWellFoundedOn(R, Nat)
  BY NatLessThanWellFounded DEF OpToRel
<1> HIDE DEF R
<1>2. PICK n \in S : \A m \in S : <<m, n>> \notin R
  BY <1>1, WFMin
<1>3. ASSUME NEW m \in S PROVE n <= m
  <2>1. <<m, n>> \notin R /\ m \in Nat /\ n \in Nat
    BY <1>2
  <2>2. ~(m < n)
    BY <2>1 DEF R
  <2> QED
    BY <2>1, <2>2
<1> QED
  BY <1>3

(* One that is bounded has a greatest, too.                                *)
LEMMA Greatest ==
    ASSUME NEW b \in Nat, NEW S \in SUBSET (0..b), S # {}
    PROVE  \E n \in S : \A m \in S : m <= n
<1> DEFINE U == {n \in Nat : \A m \in S : m <= n}
<1>1. U # {}
  <2>1. b \in U
    OBVIOUS
  <2> QED
    BY <2>1
<1>2. PICK n \in U : \A k \in U : n <= k
  BY <1>1, Least
<1>3. n \in S
  <2> SUFFICES ASSUME n \notin S PROVE FALSE
    OBVIOUS
  <2>1. \A m \in S : m <= n - 1
    BY <1>2
  <2>2. n - 1 \in U
    <3>1. PICK m \in S : TRUE
      OBVIOUS
    <3>2. n - 1 \in Nat
      BY <2>1, <3>1
    <3> QED
      BY <2>1, <3>2
  <2> QED
    BY <1>2, <2>2
<1> QED
  BY <1>2, <1>3

(* No rule holds, or the first of those that hold decides.                 *)
LEMMA PickIs ==
    ASSUME NEW rules, NEW n \in Nat, DOMAIN rules = 1..n, NEW things, NEW otherwise
    PROVE  \/ Hits(rules, things) = {} /\ Pick(rules, things, otherwise) = otherwise
           \/ \E k \in Hits(rules, things) :
                /\ \A j \in Hits(rules, things) : k <= j
                /\ Pick(rules, things, otherwise) = rules[k].to
<1>1. Hits(rules, things) \subseteq 1..n
  BY DEF Hits
<1>2. CASE Hits(rules, things) = {}
  BY <1>2 DEF Pick
<1>3. CASE Hits(rules, things) # {}
  <2>1. PICK k \in Hits(rules, things) : \A j \in Hits(rules, things) : k <= j
    BY <1>1, <1>3, Least
  <2>2. k \in Nat
    BY <1>1
  <2> QED
    BY <1>1, <2>1, <2>2, FirstIs
<1> QED
  BY <1>2, <1>3

-----------------------------------------------------------------------------
(* The rules of the user, between those that are always there              *)

(* Two elements before a list.                                             *)
LEMMA TwoThen ==
    ASSUME NEW a, NEW b, NEW h, h = <<a, b>>, NEW n \in Nat, NEW f, f = [i \in 1..n |-> f[i]]
    PROVE  /\ DOMAIN (h \o f) = 1..(n + 2)
           /\ (h \o f)[1] = a /\ (h \o f)[2] = b
           /\ \A i \in 1..n : (h \o f)[i + 2] = f[i]
           /\ h \o f = [i \in 1..(n + 2) |-> (h \o f)[i]]
<1> DEFINE S == {f[i] : i \in 1..n} \cup {a, b}
           g == h \o f
<1>1. f \in Seq(S) /\ Len(f) = n
  <2>1. f \in [1..n -> S]
    OBVIOUS
  <2> HIDE DEF S
  <2> QED
    BY <2>1, SeqDef
<1>2. h \in Seq(S) /\ Len(h) = 2 /\ h[1] = a /\ h[2] = b
  OBVIOUS
<1> HIDE DEF S
<1>3. /\ g \in Seq(S) /\ Len(g) = Len(h) + Len(f)
      /\ \A i \in 1..(Len(h) + Len(f)) : g[i] = IF i <= Len(h) THEN h[i] ELSE f[i - Len(h)]
  BY <1>1, <1>2, ConcatProperties
<1> HIDE DEF g
<1>4. /\ Len(g) = n + 2
      /\ \A i \in 1..(n + 2) : g[i] = IF i <= 2 THEN h[i] ELSE f[i - 2]
  <2>1. Len(h) + Len(f) = n + 2
    BY <1>1, <1>2
  <2> QED
    BY <1>2, <1>3, <2>1
<1>5. DOMAIN g = 1..(n + 2) /\ g \in [1..(n + 2) -> S]
  BY <1>3, <1>4, LenProperties
<1>6. ASSUME NEW i \in 1..n PROVE g[i + 2] = f[i]
  <2>1. i + 2 \in 1..(n + 2) /\ ~(i + 2 <= 2) /\ (i + 2) - 2 = i
    OBVIOUS
  <2>2. g[i + 2] = f[(i + 2) - 2]
    BY <1>4, <2>1
  <2> QED
    BY <2>1, <2>2
<1>7. g[1] = a /\ g[2] = b
  <2>1. 1 \in 1..(n + 2) /\ 2 \in 1..(n + 2) /\ 1 <= 2 /\ 2 <= 2
    OBVIOUS
  <2>2. g[1] = h[1] /\ g[2] = h[2]
    BY <1>4, <2>1
  <2> QED
    BY <1>2, <2>2
<1>8. g = [i \in 1..(n + 2) |-> g[i]]
  BY <1>5
<1> QED
  BY <1>5, <1>6, <1>7, <1>8 DEF g

(* One element after a list.                                               *)
LEMMA ThenOne ==
    ASSUME NEW a, NEW t, t = <<a>>, NEW n \in Nat, NEW f, f = [i \in 1..n |-> f[i]]
    PROVE  /\ DOMAIN (f \o t) = 1..(n + 1)
           /\ (f \o t)[n + 1] = a
           /\ \A i \in 1..n : (f \o t)[i] = f[i]
<1> DEFINE S == {f[i] : i \in 1..n} \cup {a}
           g == f \o t
<1>1. f \in Seq(S) /\ Len(f) = n
  <2>1. f \in [1..n -> S]
    OBVIOUS
  <2> HIDE DEF S
  <2> QED
    BY <2>1, SeqDef
<1>2. t \in Seq(S) /\ Len(t) = 1 /\ t[1] = a
  OBVIOUS
<1> HIDE DEF S
<1>3. /\ g \in Seq(S) /\ Len(g) = Len(f) + Len(t)
      /\ \A i \in 1..(Len(f) + Len(t)) : g[i] = IF i <= Len(f) THEN f[i] ELSE t[i - Len(f)]
  BY <1>1, <1>2, ConcatProperties
<1> HIDE DEF g
<1>4. /\ Len(g) = n + 1
      /\ \A i \in 1..(n + 1) : g[i] = IF i <= n THEN f[i] ELSE t[i - n]
  <2>1. Len(f) + Len(t) = n + 1
    BY <1>1, <1>2
  <2> QED
    BY <1>1, <1>3, <2>1
<1>5. DOMAIN g = 1..(n + 1)
  BY <1>3, <1>4, LenProperties
<1>6. g[n + 1] = a
  BY <1>2, <1>4
<1>7. \A i \in 1..n : g[i] = f[i]
  BY <1>4
<1> QED
  BY <1>5, <1>6, <1>7 DEF g

Shape(home, s, kept) == <<Rule({home}, "direct"), LocalRule(s, "direct")>> \o UserRules(s, kept)

LEMMA PrivateShape ==
    ASSUME NEW s, s.rules \in Seq(UserRule), NEW kept
    PROVE  LET n == Len(s.rules)
               rules == Shape(Private, s, kept)
           IN  /\ n \in Nat /\ DOMAIN s.rules = 1..n
               /\ DOMAIN rules = 1..(n + 2)
               /\ rules = [i \in 1..(n + 2) |-> rules[i]]
               /\ rules[1] = Rule({Private}, "direct") /\ rules[2] = LocalRule(s, "direct")
               /\ \A i \in 1..n :
                    rules[i + 2] = Rule({s.rules[i].match} \cap kept, s.rules[i].to)
<1> DEFINE n == Len(s.rules)
           f == UserRules(s, kept)
<1>1. n \in Nat /\ DOMAIN s.rules = 1..n
  BY LenProperties
<1>2. /\ f = [i \in 1..n |-> f[i]]
      /\ \A i \in 1..n : f[i] = Rule({s.rules[i].match} \cap kept, s.rules[i].to)
  BY <1>1 DEF UserRules
<1> DEFINE h == <<Rule({Private}, "direct"), LocalRule(s, "direct")>>
<1> HIDE DEF n, f, h
<1>3. /\ DOMAIN (h \o f) = 1..(n + 2)
      /\ (h \o f)[1] = Rule({Private}, "direct") /\ (h \o f)[2] = LocalRule(s, "direct")
      /\ \A i \in 1..n : (h \o f)[i + 2] = f[i]
      /\ h \o f = [i \in 1..(n + 2) |-> (h \o f)[i]]
  <2>1. h = <<Rule({Private}, "direct"), LocalRule(s, "direct")>>
    BY DEF h
  <2> QED
    BY <1>1, <1>2, <2>1, TwoThen
<1>4. Shape(Private, s, kept) = h \o f
  BY DEF Shape, h, f
<1> QED
  BY <1>1, <1>2, <1>3, <1>4 DEF n

LEMMA RangesShape ==
    ASSUME NEW s, s.rules \in Seq(UserRule), NEW kept
    PROVE  LET n == Len(s.rules)
               rules == Shape(Ranges, s, kept)
           IN  /\ n \in Nat /\ DOMAIN s.rules = 1..n
               /\ DOMAIN rules = 1..(n + 2)
               /\ rules = [i \in 1..(n + 2) |-> rules[i]]
               /\ rules[1] = Rule({Ranges}, "direct") /\ rules[2] = LocalRule(s, "direct")
               /\ \A i \in 1..n :
                    rules[i + 2] = Rule({s.rules[i].match} \cap kept, s.rules[i].to)
<1> DEFINE n == Len(s.rules)
           f == UserRules(s, kept)
<1>1. n \in Nat /\ DOMAIN s.rules = 1..n
  BY LenProperties
<1>2. /\ f = [i \in 1..n |-> f[i]]
      /\ \A i \in 1..n : f[i] = Rule({s.rules[i].match} \cap kept, s.rules[i].to)
  BY <1>1 DEF UserRules
<1> DEFINE h == <<Rule({Ranges}, "direct"), LocalRule(s, "direct")>>
<1> HIDE DEF n, f, h
<1>3. /\ DOMAIN (h \o f) = 1..(n + 2)
      /\ (h \o f)[1] = Rule({Ranges}, "direct") /\ (h \o f)[2] = LocalRule(s, "direct")
      /\ \A i \in 1..n : (h \o f)[i + 2] = f[i]
      /\ h \o f = [i \in 1..(n + 2) |-> (h \o f)[i]]
  <2>1. h = <<Rule({Ranges}, "direct"), LocalRule(s, "direct")>>
    BY DEF h
  <2> QED
    BY <1>1, <1>2, <2>1, TwoThen
<1>4. Shape(Ranges, s, kept) = h \o f
  BY DEF Shape, h, f
<1> QED
  BY <1>1, <1>2, <1>3, <1>4 DEF n

(* What the user's rules say, by their places.                             *)
LEMMA UserRuleAt ==
    ASSUME NEW s, s.rules \in Seq(UserRule), NEW i \in 1..Len(s.rules)
    PROVE  s.rules[i] \in UserRule /\ s.rules[i].match \in Matches(s)
<1>1. s.rules[i] \in UserRule /\ DOMAIN s.rules = 1..Len(s.rules)
  BY LenProperties, ElementOfSeq
<1>2. s.rules[i] \in Range(s.rules)
  BY <1>1 DEF Range
<1> QED
  BY <1>1, <1>2 DEF Matches

-----------------------------------------------------------------------------
(* The last of the defaults decides what no rule decides.                  *)
LEMMA FinalIs ==
    ASSUME NEW s, s.rules \in Seq(UserRule)
    PROVE  \/ FinalOf(s.rules) = "proxy"
           \/ \E i \in DOMAIN s.rules : FinalOf(s.rules) = s.rules[i].to
<1> DEFINE n == Len(s.rules)
           defaults == {i \in DOMAIN s.rules : s.rules[i].match.kind = "default"}
<1>1. n \in Nat /\ DOMAIN s.rules = 1..n
  BY LenProperties
<1>2. CASE defaults = {}
  BY <1>2 DEF FinalOf
<1>3. CASE defaults # {}
  <2>1. defaults \subseteq 0..n /\ defaults \subseteq DOMAIN s.rules
    BY <1>1
  <2> DEFINE i == CHOOSE i \in defaults : \A j \in defaults : j <= i
  <2>2. FinalOf(s.rules) = s.rules[i].to
    BY <1>3 DEF FinalOf
  <2> HIDE DEF defaults, n
  <2>3. \E k \in defaults : \A j \in defaults : j <= k
    BY <1>1, <1>3, <2>1, Greatest
  <2>4. i \in defaults
    BY <2>3
  <2> QED
    BY <2>1, <2>2, <2>4
<1> QED
  BY <1>2, <1>3

-----------------------------------------------------------------------------
(* What is written is well formed                                          *)

(* A rule with nothing to match is none.                                   *)
LEMMA InForceAt ==
    ASSUME NEW rules, NEW r
    PROVE  r \in InForce(rules) <=> \E i \in DOMAIN rules : r = rules[i] /\ rules[i].on # {}
BY DEF InForce, Range

(* The rules without rules of the user lead to what is always there, and   *)
(* their rule sets are defined.                                            *)
LEMMA LegacyDefined ==
    ASSUME NEW s, NEW files
    PROVE  /\ \A r \in InForce(LegacyRules(s, files)) : r.to \in {"proxy", "direct"}
           /\ SetsOf(LegacyRules(s, files))
                \subseteq ({Site(c) : c \in s.geosite} \cap files) \cup {Ip(c) : c \in s.countries}
<1> DEFINE rules == LegacyRules(s, files)
<1>1. /\ DOMAIN rules = 1..6
      /\ rules[1] = Rule({Suffix(x) : x \in s.force}, "proxy")
      /\ rules[2] = LocalRule(s, "direct")
      /\ rules[3] = Rule({Suffix(x) : x \in s.bypass}, "direct")
      /\ rules[4] = Rule({Private}, "direct")
      /\ rules[5] = Rule({Site(c) : c \in s.geosite} \cap files, "direct")
      /\ rules[6] = Rule({Ip(c) : c \in s.countries}, "direct")
  BY DEF LegacyRules
<1> HIDE DEF rules
<1>2. \A i \in DOMAIN rules : rules[i].to \in {"proxy", "direct"}
  <2>1. \A on, to : Rule(on, to).to = to
    BY DEF Rule
  <2>2. LocalRule(s, "direct").to = "direct"
    BY DEF LocalRule, Rule
  <2>3. \A i \in 1..6 : i = 1 \/ i = 2 \/ i = 3 \/ i = 4 \/ i = 5 \/ i = 6
    OBVIOUS
  <2> QED
    BY <1>1, <2>1, <2>2, <2>3
<1>3. ASSUME NEW i \in DOMAIN rules, NEW m \in rules[i].on, m.kind \in Geo
      PROVE  m \in ({Site(c) : c \in s.geosite} \cap files) \cup {Ip(c) : c \in s.countries}
  <2>1. \A on, to : Rule(on, to).on = on
    BY DEF Rule
  <2>2. \A x : Suffix(x).kind \notin Geo
    BY DEF Suffix, Matcher, Geo
  <2>3. Private.kind \notin Geo
    BY DEF Private, Matcher, Geo
  <2>4. \A t \in LocalRule(s, "direct").on : t.kind \notin Geo
    BY <2>2 DEF LocalRule, Rule
  <2>5. i = 5 \/ i = 6
    <3>1. i = 1 \/ i = 2 \/ i = 3 \/ i = 4 \/ i = 5 \/ i = 6
      BY <1>1
    <3>2. i # 1 /\ i # 3
      BY <1>1, <1>3, <2>1, <2>2
    <3>3. i # 2
      BY <1>1, <1>3, <2>4
    <3>4. i # 4
      BY <1>1, <1>3, <2>1, <2>3
    <3> QED
      BY <3>1, <3>2, <3>3, <3>4
  <2> QED
    BY <1>1, <1>3, <2>1, <2>5
<1>4. \A r \in InForce(rules) : r.to \in {"proxy", "direct"}
  BY <1>2, InForceAt
<1>5. SetsOf(rules) \subseteq ({Site(c) : c \in s.geosite} \cap files) \cup {Ip(c) : c \in s.countries}
  BY <1>3 DEF SetsOf, Range
<1> QED
  BY <1>4, <1>5 DEF rules

(* The rules of the user lead where they say, and the rule sets that they  *)
(* name are on disk.                                                       *)
LEMMA ModernDefined ==
    ASSUME NEW s, s.rules \in Seq(UserRule), NEW files
    PROVE  /\ \A r \in InForce(ModernRules(s, files)) :
                r.to = "direct" \/ \E i \in DOMAIN s.rules : r.to = s.rules[i].to
           /\ SetsOf(ModernRules(s, files)) \subseteq Matches(s) \cap files
<1> DEFINE n == Len(s.rules)
           kept == Translated(s, files)
           rules == Shape(Private, s, kept)
<1>1. /\ n \in Nat /\ DOMAIN s.rules = 1..n
      /\ DOMAIN rules = 1..(n + 2)
      /\ rules[1] = Rule({Private}, "direct") /\ rules[2] = LocalRule(s, "direct")
      /\ \A i \in 1..n : rules[i + 2] = Rule({s.rules[i].match} \cap kept, s.rules[i].to)
  BY PrivateShape
<1>2. ModernRules(s, files) = rules
  BY DEF ModernRules, Shape
<1>3. \A m \in kept : m \in Matches(s) /\ (m.kind \in Geo => m \in files)
  BY DEF Translated, Geo
<1> HIDE DEF n, kept, rules
<1>4. \A on, to : Rule(on, to).on = on /\ Rule(on, to).to = to
  BY DEF Rule
<1>5. ASSUME NEW k \in DOMAIN rules
      PROVE  k = 1 \/ k = 2 \/ \E i \in 1..n : k = i + 2
  <2>1. k \in 1..(n + 2)
    BY <1>1
  <2>2. CASE k > 2
    <3>1. k - 2 \in 1..n /\ k = (k - 2) + 2
      BY <1>1, <2>1, <2>2
    <3> QED
      BY <3>1
  <2> QED
    BY <1>1, <2>1, <2>2
<1>6. ASSUME NEW k \in DOMAIN rules
      PROVE  rules[k].to = "direct" \/ \E i \in DOMAIN s.rules : rules[k].to = s.rules[i].to
  <2>1. LocalRule(s, "direct").to = "direct"
    BY DEF LocalRule, Rule
  <2>2. CASE k = 1 \/ k = 2
    BY <1>1, <1>4, <2>1, <2>2
  <2>3. ASSUME NEW i \in 1..n, k = i + 2
        PROVE  rules[k].to = s.rules[i].to
    <3>1. rules[k] = Rule({s.rules[i].match} \cap kept, s.rules[i].to)
      BY <1>1, <2>3
    <3> QED
      BY <1>4, <3>1
  <2> QED
    BY <1>1, <1>5, <2>2, <2>3
<1>7. ASSUME NEW k \in DOMAIN rules, NEW m \in rules[k].on, m.kind \in Geo
      PROVE  m \in Matches(s) \cap files
  <2>1. Private.kind \notin Geo
    BY DEF Private, Matcher, Geo
  <2>2. \A t \in LocalRule(s, "direct").on : t.kind \notin Geo
    BY DEF LocalRule, Rule, Suffix, Matcher, Geo
  <2>3. k # 1 /\ k # 2
    BY <1>1, <1>4, <1>7, <2>1, <2>2
  <2>4. PICK i \in 1..n : k = i + 2
    BY <1>5, <2>3
  <2>5. m \in kept
    <3>1. rules[k] = Rule({s.rules[i].match} \cap kept, s.rules[i].to)
      BY <1>1, <2>4
    <3> QED
      BY <1>4, <1>7, <3>1
  <2> QED
    BY <1>3, <1>7, <2>5
<1>8. \A r \in InForce(rules) :
         r.to = "direct" \/ \E i \in DOMAIN s.rules : r.to = s.rules[i].to
  BY <1>6, InForceAt
<1>9. SetsOf(rules) \subseteq Matches(s) \cap files
  BY <1>7 DEF SetsOf, Range
<1> QED
  BY <1>2, <1>8, <1>9

(* The outbounds of sing-box: two that are always there, the rest of the   *)
(* chain if there is one, and the external ones it understands. A detour   *)
(* leads to one of them.                                                   *)
LEMMA Outbounds ==
    ASSUME NEW s, NEW l, NEW cfg, cfg.outbounds = SingboxOutbounds(s, l)
    PROVE  /\ {"proxy", "direct"} \subseteq Tags(cfg)
           /\ \A e \in s.external : e.scheme \in SingboxSchemes => e.name \in Tags(cfg)
           /\ \A o \in cfg.outbounds : o.detour \in Tags(cfg) \cup {None}
<1> DEFINE own == SingboxOutbound(l)
           proxy == With("proxy", IF l.chained THEN [own EXCEPT !.detour = "chain-out"] ELSE own)
           direct == With("direct", Direct)
           rest == With("chain-out", [Direct EXCEPT !.type = "socks"])
           ext(e) == With(e.name, [Direct EXCEPT !.type = "external"])
           known == {x \in s.external : x.scheme \in SingboxSchemes}
<1>1. cfg.outbounds = {proxy, direct} \cup (IF l.chained THEN {rest} ELSE {})
                        \cup {ext(e) : e \in known}
  BY DEF SingboxOutbounds, SingboxExternals
<1>2. \A tag, o : With(tag, o).tag = tag /\ With(tag, o).detour = o.detour
  BY DEF With
<1>3. proxy.detour = IF l.chained THEN "chain-out" ELSE None
  <2>1. own = [type |-> own.type, flow |-> own.flow, detour |-> None] /\ own.detour = None
    BY DEF SingboxOutbound
  <2> HIDE DEF own
  <2>2. [own EXCEPT !.detour = "chain-out"].detour = "chain-out"
    BY <2>1
  <2> QED
    BY <1>2, <2>1, <2>2
<1>4. direct.detour = None /\ rest.detour = None /\ \A e : ext(e).detour = None
  <2>1. Direct.detour = None
    BY DEF Direct
  <2>2. \A type : [Direct EXCEPT !.type = type].detour = None
    BY DEF Direct
  <2>3. direct.detour = None
    BY <1>2, <2>1
  <2>4. rest.detour = None
    BY <1>2, <2>2
  <2>5. ASSUME NEW e PROVE ext(e).detour = None
    BY <1>2, <2>2
  <2> QED
    BY <2>3, <2>4, <2>5, Zenon
<1>5. /\ proxy.tag = "proxy" /\ direct.tag = "direct" /\ rest.tag = "chain-out"
      /\ \A e : ext(e).tag = e.name
  BY <1>2
<1>6. /\ proxy \in cfg.outbounds /\ direct \in cfg.outbounds
      /\ l.chained => rest \in cfg.outbounds
      /\ \A e \in known : ext(e) \in cfg.outbounds
      /\ \A o \in cfg.outbounds : o = proxy \/ o = direct \/ o = rest \/ \E e \in known : o = ext(e)
  BY <1>1
<1> HIDE DEF proxy, direct, rest, ext
<1>7. /\ {"proxy", "direct"} \subseteq Tags(cfg)
      /\ l.chained => "chain-out" \in Tags(cfg)
      /\ \A e \in known : e.name \in Tags(cfg)
  BY <1>5, <1>6 DEF Tags
<1>8. \A o \in cfg.outbounds : o.detour \in Tags(cfg) \cup {None}
  BY <1>3, <1>4, <1>6, <1>7
<1> QED
  BY <1>7, <1>8

(* What the generator writes for sing-box is whole, whatever is on disk,   *)
(* if the rules name outbounds that exist.                                 *)
LEMMA WholeRoute ==
    ASSUME NEW s, s.rules \in Seq(UserRule), NEW l, NEW files,
           \A i \in DOMAIN s.rules :
              \/ s.rules[i].to \in {"proxy", "direct"}
              \/ \E e \in s.external : e.name = s.rules[i].to /\ e.scheme \in SingboxSchemes
    PROVE  RouteDefined(Singbox(s, l, files))
<1> DEFINE cfg == Singbox(s, l, files)
<1>1. cfg.outbounds = SingboxOutbounds(s, l)
  BY DEF Singbox
<1>2. cfg.route = IF Routed(s) THEN SingboxRoute(s, files) ELSE None
  BY DEF Singbox
<1>3. cfg.dns = IF Routed(s) THEN SingboxDNS(s, l, files) ELSE None
  BY DEF Singbox
<1> HIDE DEF cfg
<1>4. /\ {"proxy", "direct"} \subseteq Tags(cfg)
      /\ \A e \in s.external : e.scheme \in SingboxSchemes => e.name \in Tags(cfg)
      /\ \A o \in cfg.outbounds : o.detour \in Tags(cfg) \cup {None}
  BY <1>1, Outbounds
<1>5. \A i \in DOMAIN s.rules : s.rules[i].to \in Tags(cfg)
  BY <1>4
<1>6. ASSUME cfg.route # None
      PROVE  /\ \A r \in InForce(cfg.route.rules) : r.to \in Tags(cfg)
             /\ cfg.route.final \in Tags(cfg)
             /\ SetsOf(cfg.route.rules) \subseteq cfg.route.sets
             /\ {cfg.route.resolver, cfg.route.dials} \subseteq {v.tag : v \in cfg.dns.servers}
  <2>1. cfg.route = SingboxRoute(s, files) /\ cfg.dns = SingboxDNS(s, l, files)
    BY <1>2, <1>3, <1>6
  <2>2. CASE s.rules # <<>>
    <3>1. /\ cfg.route.rules = ModernRules(s, files)
          /\ cfg.route.sets = Matches(s) \cap files
          /\ cfg.route.final = FinalOf(s.rules)
          /\ cfg.route.resolver = "dns-tunnel" /\ cfg.route.dials = "dns-direct"
      BY <2>1, <2>2 DEF SingboxRoute, RuleSets
    <3>2. {"dns-tunnel", "dns-direct"} \subseteq {v.tag : v \in cfg.dns.servers}
      <4> DEFINE v == [tag |-> "dns-tunnel", detour |-> "proxy"]
                 w == [tag |-> "dns-direct", detour |-> None]
      <4>1. /\ v \in cfg.dns.servers /\ v.tag = "dns-tunnel"
            /\ w \in cfg.dns.servers /\ w.tag = "dns-direct"
        BY <2>1, <2>2 DEF SingboxDNS
      <4> HIDE DEF v, w
      <4> QED
        BY <4>1
    <3>3. \A r \in InForce(cfg.route.rules) : r.to \in Tags(cfg)
      BY <1>4, <1>5, <3>1, ModernDefined
    <3>4. cfg.route.final \in Tags(cfg)
      BY <1>4, <1>5, <3>1, FinalIs
    <3>5. SetsOf(cfg.route.rules) \subseteq cfg.route.sets
      BY <3>1, ModernDefined
    <3> QED
      BY <3>1, <3>2, <3>3, <3>4, <3>5
  <2>3. CASE s.rules = <<>>
    <3>1. /\ cfg.route.rules = LegacyRules(s, files)
          /\ cfg.route.sets = ({Site(c) : c \in s.geosite} \cap files)
                                \cup {Ip(c) : c \in s.countries}
          /\ cfg.route.final = "proxy"
          /\ cfg.route.resolver = "dns-direct" /\ cfg.route.dials = "dns-direct"
      BY <2>1, <2>3 DEF SingboxRoute, RuleSets
    <3>2. "dns-direct" \in {v.tag : v \in cfg.dns.servers}
      <4> DEFINE v == [tag |-> "dns-direct", detour |-> None]
      <4>1. v \in cfg.dns.servers /\ v.tag = "dns-direct"
        BY <2>1 DEF SingboxDNS
      <4> HIDE DEF v
      <4> QED
        BY <4>1
    <3> QED
      BY <1>4, <3>1, <3>2, LegacyDefined
  <2> QED
    BY <2>2, <2>3
<1> QED
  BY <1>4, <1>6 DEF RouteDefined, cfg

-----------------------------------------------------------------------------
(* The sing-box config on disk is one of this run or of an earlier one: it *)
(* was made for the same configuration and link from rule sets that are    *)
(* still there.                                                            *)
WInv ==
    /\ conf \in Confs /\ tried \in Nat
    /\ written = [e \in Engines |-> written[e]]
    /\ written["sing-box"] # None =>
         \E files \in SUBSET srs : \E g : written["sing-box"] = Singbox(SettingsOf(conf, g), link, files)

(* The engine that is tried is one of the two.                             *)
LEMMA EngineIsKnown ==
    ASSUME conf \in Confs, tried \in Nat, tried < Len(conf.engines)
    PROVE  Engine \in Engines
<1>1. conf.engines \in Seq(Engines) /\ tried + 1 \in 1..Len(conf.engines)
  BY ConfsAssumption
<1> QED
  BY <1>1 DEF Engine

LEMMA StepWritten ==
    ASSUME WInv, [Next]_vars
    PROVE  WInv'
<1> DEFINE Kept(w, c, l, S) ==
             w # None => \E files \in SUBSET S : \E g :
                            w = Singbox(Settings([c EXCEPT !.geosite = g]), l, files)
<1>1. Kept(written["sing-box"], conf, link, srs)
  BY DEF WInv, SettingsOf
<1>2. SUFFICES /\ conf' \in Confs /\ tried' \in Nat
               /\ written' = [e \in Engines |-> written'[e]]
               /\ Kept(written'["sing-box"], conf', link', srs')
  BY DEF WInv, SettingsOf
<1>3. ASSUME NEW S, srs \subseteq S
      PROVE  Kept(written["sing-box"], conf, link, S)
  <2>1. SUBSET srs \subseteq SUBSET S
    BY <1>3
  <2> QED
    BY <1>1, <2>1
<1> HIDE DEF Kept
<1>4. CASE Run \/ GetDat \/ StartChain \/ Stop \/ UNCHANGED vars
  <2>1. UNCHANGED <<conf, link, srs, written>> /\ tried' \in Nat
    BY <1>4 DEF Run, GetDat, StartChain, Stop, vars, WInv
  <2> QED
    BY <1>1, <2>1 DEF WInv
<1>5. CASE GetGeosite \/ GetGeoip
  <2>1. UNCHANGED <<conf, link, written, tried>> /\ srs \subseteq srs'
    BY <1>5 DEF GetGeosite, GetGeoip, Downloads
  <2> QED
    BY <1>3, <2>1 DEF WInv
<1>6. CASE EngineUp \/ EngineFails
  <2>1. /\ UNCHANGED <<conf, link, srs, geosite>> /\ tried < Len(conf.engines)
        /\ written' = [written EXCEPT ![Engine] = Generated]
    BY <1>6 DEF EngineUp, EngineFails
  <2>2. tried' \in Nat
    BY <1>6 DEF EngineUp, EngineFails, WInv
  <2>3. Engine \in Engines
    BY <2>1, EngineIsKnown DEF WInv
  <2>4. written' = [e \in Engines |-> written'[e]]
    BY <2>1, <2>3 DEF WInv
  <2>5. CASE Engine = "sing-box"
    <3>1. Generated = Singbox(Settings([conf EXCEPT !.geosite = geosite]), link, srs)
      BY <2>5 DEF Generated, Current, SettingsOf
    <3>2. written'["sing-box"] = Generated
      BY <2>1, <2>3, <2>5 DEF WInv
    <3>3. Kept(written'["sing-box"], conf, link, srs)
      BY <3>1, <3>2 DEF Kept
    <3> QED
      BY <2>1, <2>2, <2>4, <3>3 DEF WInv
  <2>6. CASE Engine # "sing-box"
    <3>1. written'["sing-box"] = written["sing-box"]
      BY <2>1, <2>3, <2>6 DEF WInv, Engines
    <3> QED
      BY <1>1, <2>1, <2>2, <2>4, <3>1 DEF WInv
  <2> QED
    BY <2>5, <2>6
<1> QED
  BY <1>4, <1>5, <1>6 DEF Next

LEMMA AlwaysWritten == Spec => []WInv
<1>1. Init => WInv
  BY DEF Init, WInv, Engines
<1>2. WInv /\ [Next]_vars => WInv'
  BY StepWritten
<1> QED
  BY <1>1, <1>2, PTL DEF Spec

(* The settings that a config is made from say what config.yaml says of    *)
(* the rules.                                                              *)
LEMMA RulesOf ==
    ASSUME NEW g
    PROVE  /\ SettingsOf(conf, g).rules = conf.rules
           /\ conf.rules # <<>> => SettingsOf(conf, g).external = conf.external
BY DEF SettingsOf, Settings

(* The route of every sing-box config names what the config defines, for   *)
(* any rules over outbounds that exist and any outcome of the downloads.   *)
THEOREM RouteIsWhole == Spec => []RouteIsDefined
<1>1. WInv => RouteIsDefined
  <2> SUFFICES ASSUME WInv, written["sing-box"] # None, OutboundsExist
               PROVE  RouteDefined(written["sing-box"])
    BY DEF RouteIsDefined
  <2>1. PICK files \in SUBSET srs : \E g : written["sing-box"] = Singbox(SettingsOf(conf, g), link, files)
    BY DEF WInv
  <2>2. PICK g : written["sing-box"] = Singbox(SettingsOf(conf, g), link, files)
    BY <2>1
  <2> DEFINE s == SettingsOf(conf, g)
  <2>3. s.rules = conf.rules /\ (conf.rules # <<>> => s.external = conf.external)
    BY RulesOf
  <2>4. conf.rules \in Seq(UserRule)
    BY ConfsAssumption DEF WInv
  <2>5. \A i \in DOMAIN conf.rules :
           \/ conf.rules[i].to \in {"proxy", "direct"}
           \/ \E e \in conf.external : e.name = conf.rules[i].to /\ e.scheme \in SingboxSchemes
    BY DEF OutboundsExist, Range
  <2>6. \A i \in DOMAIN conf.rules : conf.rules # <<>>
    BY <2>4
  <2> HIDE DEF s
  <2>7. \A i \in DOMAIN s.rules :
           \/ s.rules[i].to \in {"proxy", "direct"}
           \/ \E e \in s.external : e.name = s.rules[i].to /\ e.scheme \in SingboxSchemes
    BY <2>3, <2>5, <2>6
  <2>8. s.rules \in Seq(UserRule)
    BY <2>3, <2>4
  <2>9. RouteDefined(Singbox(s, link, files))
    BY <2>7, <2>8, WholeRoute
  <2> QED
    BY <2>2, <2>9 DEF s
<1> QED
  BY <1>1, AlwaysWritten, PTL

-----------------------------------------------------------------------------
(* What a DNS section names                                                *)

(* The geo data that the rules for DNS ask for: those of the user's direct *)
(* rules, of which a geosite has its file; or the geosites on disk.        *)
DirectGeo(s, files) ==
    IF s.rules # <<>>
    THEN {m \in Matches(s) : /\ m.kind = "geoip" \/ (m.kind = "geosite" /\ m \in files)
                             /\ \E i \in DOMAIN s.rules : s.rules[i] = [match |-> m, to |-> "direct"]}
    ELSE {Site(c) : c \in s.geosite} \cap files

(* The rules for DNS that follow those for local names and the server.     *)
LEMMA TailOfDNS ==
    ASSUME NEW s, s.rules \in Seq(UserRule), NEW files
    PROVE  LET f == DirectDNS(s, files)
           IN  \E n \in Nat :
                  /\ f = [i \in 1..n |-> f[i]]
                  /\ \A i \in 1..n : f[i].to = "dns-direct"
                  /\ \A m : m.kind \in Geo =>
                        ((\E i \in 1..n : m \in f[i].on) <=> m \in DirectGeo(s, files))
<1> DEFINE f == DirectDNS(s, files)
<1>1. \A on, to : Rule(on, to).on = on /\ Rule(on, to).to = to
  BY DEF Rule
<1>2. CASE s.rules # <<>>
  <2> DEFINE n == Len(s.rules)
             kept == {m \in Matches(s) : \/ m.kind \in {"geoip", "domain_suffix", "domain"}
                                         \/ m.kind = "geosite" /\ m \in files}
             on(i) == IF s.rules[i].to = "direct" THEN {s.rules[i].match} \cap kept ELSE {}
  <2>1. n \in Nat /\ DOMAIN s.rules = 1..n
    BY LenProperties
  <2>2. f = [i \in 1..n |-> f[i]] /\ \A i \in 1..n : f[i] = Rule(on(i), "dns-direct")
    BY <1>2, <2>1 DEF DirectDNS
  <2>3. ASSUME NEW m, m.kind \in Geo
        PROVE  (\E i \in 1..n : m \in on(i)) <=> m \in DirectGeo(s, files)
    <3>1. \A i \in 1..n : s.rules[i] = [match |-> s.rules[i].match, to |-> s.rules[i].to]
      BY UserRuleAt DEF UserRule
    <3>2. \A i \in 1..n : s.rules[i] = [match |-> m, to |-> "direct"]
                             <=> s.rules[i].match = m /\ s.rules[i].to = "direct"
      BY <3>1
    <3>3. m \in kept <=> /\ m \in Matches(s)
                         /\ m.kind = "geoip" \/ (m.kind = "geosite" /\ m \in files)
      BY <2>3 DEF Geo
    <3>4. m \in DirectGeo(s, files)
            <=> m \in kept /\ \E i \in 1..n : s.rules[i] = [match |-> m, to |-> "direct"]
      BY <1>2, <2>1, <3>3 DEF DirectGeo
    <3> QED
      BY <3>2, <3>4
  <2> HIDE DEF n, f, on
  <2>4. \A i \in 1..n : f[i].to = "dns-direct" /\ f[i].on = on(i)
    BY <1>1, <2>2
  <2> QED
    BY <2>1, <2>2, <2>3, <2>4 DEF f
<1>3. CASE s.rules = <<>>
  <2>1. f = <<Rule({Site(c) : c \in s.geosite} \cap files, "dns-direct")>>
    BY <1>3 DEF DirectDNS
  <2>2. /\ f = [i \in 1..1 |-> f[i]]
        /\ f[1].to = "dns-direct" /\ f[1].on = DirectGeo(s, files)
    BY <1>1, <1>3, <2>1 DEF DirectGeo
  <2> HIDE DEF f
  <2>3. \A i \in 1..1 : f[i].to = "dns-direct" /\ f[i].on = DirectGeo(s, files)
    BY <2>2
  <2>4. 1 \in Nat /\ 1 \in 1..1
    OBVIOUS
  <2> QED
    BY <2>2, <2>3, <2>4 DEF f
<1> QED
  BY <1>2, <1>3

(* The rules for local names lead to a server of their own; all the others *)
(* to the direct one.                                                      *)
LEMMA NamedByDNS ==
    ASSUME NEW s, s.rules \in Seq(UserRule), NEW l, NEW files, NEW rules,
           rules = <<LocalRule(s, "dns-local"), ServerRule(l)>> \o DirectDNS(s, files)
    PROVE  /\ {r.to : r \in InForce(rules)} \subseteq {"dns-tunnel", "dns-direct"}
                <=> LocalRule(s, "dns-local").on = {}
           /\ SetsOf(rules) = DirectGeo(s, files)
<1> DEFINE f == DirectDNS(s, files)
           h == <<LocalRule(s, "dns-local"), ServerRule(l)>>
<1>1. PICK n \in Nat : /\ f = [i \in 1..n |-> f[i]]
                       /\ \A i \in 1..n : f[i].to = "dns-direct"
                       /\ \A m : m.kind \in Geo =>
                             ((\E i \in 1..n : m \in f[i].on) <=> m \in DirectGeo(s, files))
  BY TailOfDNS
<1>2. h = <<LocalRule(s, "dns-local"), ServerRule(l)>> /\ rules = h \o f
  OBVIOUS
<1> HIDE DEF f, h
<1>3. /\ DOMAIN rules = 1..(n + 2)
      /\ rules[1] = LocalRule(s, "dns-local") /\ rules[2] = ServerRule(l)
      /\ \A i \in 1..n : rules[i + 2] = f[i]
  BY <1>1, <1>2, TwoThen
<1>4. /\ 1 \in DOMAIN rules /\ 2 \in DOMAIN rules
      /\ \A i \in 1..n : i + 2 \in DOMAIN rules
      /\ \A k \in DOMAIN rules : k = 1 \/ k = 2 \/ \E i \in 1..n : k = i + 2
  <2>1. ASSUME NEW k \in DOMAIN rules, k # 1, k # 2 PROVE \E i \in 1..n : k = i + 2
    <3>1. k - 2 \in 1..n /\ k = (k - 2) + 2
      BY <1>3, <2>1
    <3> QED
      BY <3>1
  <2> QED
    BY <1>3, <2>1
<1>5. LocalRule(s, "dns-local").to = "dns-local" /\ ServerRule(l).to = "dns-direct"
  BY DEF LocalRule, ServerRule, Rule
<1>6. {r.to : r \in InForce(rules)} \subseteq {"dns-tunnel", "dns-direct"}
         <=> LocalRule(s, "dns-local").on = {}
  <2>1. \A k \in DOMAIN rules : rules[k].to = IF k = 1 THEN "dns-local" ELSE "dns-direct"
    <3>1. \A i \in 1..n : rules[i + 2].to = "dns-direct"
      BY <1>1, <1>3, Zenon
    <3>2. \A i \in 1..n : i + 2 # 1
      OBVIOUS
    <3> QED
      BY <1>3, <1>4, <1>5, <3>1, <3>2
  <2>2. ASSUME LocalRule(s, "dns-local").on = {}, NEW r \in InForce(rules)
        PROVE  r.to \in {"dns-tunnel", "dns-direct"}
    <3>1. PICK k \in DOMAIN rules : r = rules[k] /\ rules[k].on # {}
      BY <2>2 DEF InForce, Range
    <3> QED
      BY <1>3, <2>1, <2>2, <3>1
  <2>3. ASSUME LocalRule(s, "dns-local").on # {}
        PROVE  rules[1] \in InForce(rules) /\ rules[1].to = "dns-local"
    BY <1>3, <1>4, <1>5, <2>3, InForceAt
  <2> QED
    BY <2>2, <2>3
<1>7. SetsOf(rules) = DirectGeo(s, files)
  <2>1. \A m \in LocalRule(s, "dns-local").on \cup ServerRule(l).on : m.kind \notin Geo
    BY DEF LocalRule, ServerRule, Rule, Suffix, Exact, Matcher, Geo
  <2>2. \A m \in DirectGeo(s, files) : m.kind \in Geo
    BY DEF DirectGeo, Site, Matcher, Geo
  <2>3. ASSUME NEW m, m.kind \in Geo
        PROVE  (\E k \in DOMAIN rules : m \in rules[k].on) <=> m \in DirectGeo(s, files)
    <3>1. (\E k \in DOMAIN rules : m \in rules[k].on) <=> \E i \in 1..n : m \in f[i].on
      BY <1>3, <1>4, <2>1, <2>3
    <3> QED
      BY <1>1, <2>3, <3>1
  <2>4. \A m : m \in SetsOf(rules)
                 <=> m.kind \in Geo /\ \E k \in DOMAIN rules : m \in rules[k].on
    BY DEF SetsOf, Range
  <2> QED
    BY <2>2, <2>3, <2>4
<1> QED
  BY <1>6, <1>7

(* A DNS section names only what there is, but for the server of the local *)
(* names, and the file of a direct geoip rule that is not on disk.         *)
LEMMA WholeDNS ==
    ASSUME NEW s, s.rules \in Seq(UserRule), NEW l, NEW files
    PROVE  LET cfg == Singbox(s, l, files)
           IN  DnsDefined(cfg)
                 <=> \/ cfg.dns = None
                     \/ /\ LocalRule(s, "dns-local").on = {}
                        /\ s.rules # <<>> => \A m \in DirectGeo(s, files) :
                                                m.kind = "geoip" => m \in cfg.route.sets
<1> DEFINE cfg == Singbox(s, l, files)
           tunnel == [tag |-> "dns-tunnel", detour |-> "proxy"]
           direct == [tag |-> "dns-direct", detour |-> None]
           plain == /\ ~s.native /\ s.geosite = {} /\ s.countries = {}
                    /\ s.rules = <<>> /\ s.local = {}
<1>1. /\ cfg.outbounds = SingboxOutbounds(s, l)
      /\ cfg.dns = IF Routed(s) THEN SingboxDNS(s, l, files) ELSE None
      /\ Routed(s) => cfg.route = SingboxRoute(s, files)
  BY DEF Singbox
<1>2. cfg.dns = SingboxDNS(s, l, files) /\ ~plain =>
        /\ cfg.dns.servers = {tunnel, direct} /\ cfg.dns.final = "dns-tunnel"
        /\ cfg.dns.rules = <<LocalRule(s, "dns-local"), ServerRule(l)>> \o DirectDNS(s, files)
  BY DEF SingboxDNS
<1>3. cfg.dns = SingboxDNS(s, l, files) /\ plain =>
        cfg.dns.servers = {direct} /\ cfg.dns.final = "dns-direct" /\ cfg.dns.rules = <<>>
  BY DEF SingboxDNS
<1>4. tunnel.tag = "dns-tunnel" /\ tunnel.detour = "proxy"
      /\ direct.tag = "dns-direct" /\ direct.detour = None
  OBVIOUS
<1> HIDE DEF cfg, tunnel, direct
<1>5. "proxy" \in Tags(cfg)
  BY <1>1, Outbounds
<1>6. CASE cfg.dns = None
  BY <1>6 DEF DnsDefined, cfg
<1>7. CASE cfg.dns # None /\ plain
  <2>1. InForce(cfg.dns.rules) = {} /\ SetsOf(cfg.dns.rules) = {}
    BY <1>1, <1>3, <1>7 DEF InForce, SetsOf, Range
  <2>2. {v.tag : v \in cfg.dns.servers} = {"dns-direct"}
    BY <1>1, <1>3, <1>4, <1>7
  <2>3. DnsDefined(cfg)
    BY <1>1, <1>3, <1>4, <1>7, <2>1, <2>2 DEF DnsDefined
  <2>4. LocalRule(s, "dns-local").on = {} /\ s.rules = <<>>
    BY <1>7 DEF LocalRule, Rule
  <2> QED
    BY <2>3, <2>4 DEF cfg
<1>8. CASE cfg.dns # None /\ ~plain
  <2> DEFINE rules == cfg.dns.rules
  <2>1. /\ cfg.dns # None
        /\ cfg.dns.servers = {tunnel, direct} /\ cfg.dns.final = "dns-tunnel"
        /\ rules = <<LocalRule(s, "dns-local"), ServerRule(l)>> \o DirectDNS(s, files)
    BY <1>1, <1>2, <1>8
  <2> HIDE DEF rules
  <2>2. /\ {r.to : r \in InForce(rules)} \subseteq {"dns-tunnel", "dns-direct"}
             <=> LocalRule(s, "dns-local").on = {}
        /\ SetsOf(rules) = DirectGeo(s, files)
    BY <2>1, NamedByDNS
  <2>3. {v.tag : v \in cfg.dns.servers} = {"dns-tunnel", "dns-direct"}
    BY <1>4, <2>1
  <2>4. \A v \in cfg.dns.servers : v.detour \in Tags(cfg) \cup {None}
    BY <1>4, <1>5, <2>1
  <2>5. DirectGeo(s, files) \subseteq cfg.route.sets
          <=> (s.rules # <<>> => \A m \in DirectGeo(s, files) :
                                    m.kind = "geoip" => m \in cfg.route.sets)
    <3>1. CASE s.rules # <<>>
      <4>1. cfg.route.sets = Matches(s) \cap files
        BY <1>1, <1>8, <3>1 DEF SingboxRoute, RuleSets
      <4>2. \A m \in DirectGeo(s, files) : /\ m \in Matches(s)
                                           /\ m.kind = "geoip" \/ m \in files
        BY <3>1 DEF DirectGeo
      <4> QED
        BY <3>1, <4>1, <4>2
    <3>2. CASE s.rules = <<>>
      <4>1. DirectGeo(s, files) \subseteq cfg.route.sets
        BY <1>1, <1>8, <3>2 DEF SingboxRoute, RuleSets, DirectGeo
      <4> QED
        BY <3>2, <4>1
    <3> QED
      BY <3>1, <3>2
  <2>6. DnsDefined(cfg) <=> /\ {r.to : r \in InForce(rules)} \subseteq {"dns-tunnel", "dns-direct"}
                            /\ SetsOf(rules) \subseteq cfg.route.sets
    BY <2>1, <2>3, <2>4 DEF DnsDefined, rules
  <2> QED
    BY <1>8, <2>2, <2>5, <2>6 DEF cfg
<1> QED
  BY <1>6, <1>7, <1>8

(* The two ways in which a DNS section names what is not there.             *)
LocalNames == \E e \in conf.local : e.server # None /\ e.domains # {}
GeoipMissing(cfg) ==
    \E r \in Range(conf.rules) :
        r.to = "direct" /\ r.match.kind = "geoip" /\ r.match \notin cfg.route.sets

DnsIsWhole ==
    LET cfg == written["sing-box"]
    IN  cfg # None => (DnsDefined(cfg) <=> cfg.dns = None \/ (~LocalNames /\ ~GeoipMissing(cfg)))

(* The DNS section of a sing-box config names something that is not        *)
(* defined, so that DnsIsDefined is broken, exactly when there are local   *)
(* names, or when the file of a geoip that the user sends direct is not on *)
(* disk; everything else that it names is there, whatever was downloaded.  *)
THEOREM DnsBreaksOnlyThere == Spec => []DnsIsWhole
<1>1. WInv => DnsIsWhole
  <2> SUFFICES ASSUME WInv, written["sing-box"] # None
               PROVE  LET cfg == written["sing-box"]
                      IN  DnsDefined(cfg) <=> cfg.dns = None \/ (~LocalNames /\ ~GeoipMissing(cfg))
    BY DEF DnsIsWhole
  <2>1. PICK files \in SUBSET srs : \E g : written["sing-box"] = Singbox(SettingsOf(conf, g), link, files)
    BY DEF WInv
  <2>2. PICK g : written["sing-box"] = Singbox(SettingsOf(conf, g), link, files)
    BY <2>1
  <2> DEFINE s == SettingsOf(conf, g)
             cfg == Singbox(s, link, files)
  <2>3. s.rules = conf.rules
        /\ s.local = {e \in conf.local : e.server # None /\ e.domains # {}}
    BY DEF SettingsOf, Settings
  <2>4. conf.rules \in Seq(UserRule)
    BY ConfsAssumption DEF WInv
  <2> HIDE DEF s
  <2>5. DnsDefined(cfg)
          <=> \/ cfg.dns = None
              \/ /\ LocalRule(s, "dns-local").on = {}
                 /\ s.rules # <<>> => \A m \in DirectGeo(s, files) :
                                         m.kind = "geoip" => m \in cfg.route.sets
    BY <2>3, <2>4, WholeDNS
  <2> HIDE DEF cfg
  <2>6. LocalRule(s, "dns-local").on = {} <=> ~LocalNames
    <3>1. LocalRule(s, "dns-local").on = {Suffix(x) : x \in UNION {e.domains : e \in s.local}}
      BY DEF LocalRule, Rule
    <3>2. UNION {e.domains : e \in s.local} = {} <=> ~LocalNames
      BY <2>3 DEF LocalNames
    <3> QED
      BY <3>1, <3>2
  <2>7. (s.rules # <<>> => \A m \in DirectGeo(s, files) : m.kind = "geoip" => m \in cfg.route.sets)
          <=> ~GeoipMissing(cfg)
    <3>1. \A i \in DOMAIN conf.rules :
             /\ conf.rules # <<>>
             /\ conf.rules[i] = [match |-> conf.rules[i].match, to |-> conf.rules[i].to]
             /\ conf.rules[i].match \in Matches(s)
      <4>1. DOMAIN s.rules = 1..Len(s.rules)
        BY <2>3, <2>4, LenProperties
      <4>2. ASSUME NEW i \in DOMAIN s.rules
            PROVE  s.rules[i] \in UserRule /\ s.rules[i].match \in Matches(s)
        BY <2>3, <2>4, <4>1, UserRuleAt
      <4>3. \A i \in DOMAIN s.rules : s.rules # <<>>
        OBVIOUS
      <4>4. \A r \in UserRule : r = [match |-> r.match, to |-> r.to]
        BY DEF UserRule
      <4> QED
        BY <2>3, <4>2, <4>3, <4>4
    <3>2. ASSUME GeoipMissing(cfg)
          PROVE  /\ s.rules # <<>>
                 /\ \E m \in DirectGeo(s, files) : m.kind = "geoip" /\ m \notin cfg.route.sets
      <4>1. PICK i \in DOMAIN conf.rules : /\ conf.rules[i].to = "direct"
                                           /\ conf.rules[i].match.kind = "geoip"
                                           /\ conf.rules[i].match \notin cfg.route.sets
        BY <3>2 DEF GeoipMissing, Range
      <4>2. s.rules # <<>>
        BY <2>3, <3>1, <4>1
      <4>3. conf.rules[i].match \in DirectGeo(s, files)
        BY <2>3, <3>1, <4>1, <4>2 DEF DirectGeo
      <4> QED
        BY <4>1, <4>2, <4>3
    <3>3. ASSUME s.rules # <<>>, NEW m \in DirectGeo(s, files), m.kind = "geoip",
                 m \notin cfg.route.sets
          PROVE  GeoipMissing(cfg)
      <4>1. PICK i \in DOMAIN conf.rules : conf.rules[i] = [match |-> m, to |-> "direct"]
        BY <2>3, <3>3 DEF DirectGeo
      <4>2. conf.rules[i] \in Range(conf.rules) /\ conf.rules[i].match = m /\ conf.rules[i].to = "direct"
        BY <4>1 DEF Range
      <4> QED
        BY <3>3, <4>2 DEF GeoipMissing
    <3> QED
      BY <3>2, <3>3
  <2> QED
    BY <2>2, <2>5, <2>6, <2>7 DEF s, cfg
<1> QED
  BY <1>1, AlwaysWritten, PTL

-----------------------------------------------------------------------------
(* The protocols that the two generators know: the others become a direct  *)
(* connection.                                                             *)
KnownTo(e) == IF e = "sing-box" THEN SingboxCompatible \cup {"ssh"}
                                ELSE {"vmess", "vless", "socks5", "http"}

TunnelIfKnown == ProxyIsATunnel <=> (running # None => link.protocol \in KnownTo(running))

(* The outbound "proxy" is a plain direct connection exactly when the      *)
(* engine that runs does not know the protocol of the link: for xray these *)
(* include trojan, shadowsocks and wireguard, so that a fallback to it     *)
(* sends their traffic outside any tunnel.                                 *)
THEOREM DirectOnlyIfUnknown == Spec => []TunnelIfKnown
<1>1. IInv => TunnelIfKnown
  <2> SUFFICES ASSUME IInv, running # None
               PROVE  (\A o \in Config.outbounds : o.tag = "proxy" => o.type # "direct")
                         <=> link.protocol \in KnownTo(running)
    BY DEF TunnelIfKnown, ProxyIsATunnel
  <2>1. Config = Made(running) /\ running \in Engines
    BY DEF IInv, Config
  <2>2. \A tag, o : With(tag, o).tag = tag /\ With(tag, o).type = o.type
    BY DEF With
  <2>3. \A t : [Direct EXCEPT !.type = t].type = t
    BY DEF Direct
  <2>4. Direct.type = "direct"
    BY DEF Direct
  <2>5. CASE running = "sing-box"
    <3> DEFINE own == SingboxOutbound(link)
               proxy == With("proxy", IF link.chained THEN [own EXCEPT !.detour = "chain-out"] ELSE own)
               direct == With("direct", Direct)
               rest == With("chain-out", [Direct EXCEPT !.type = "socks"])
               ext(e) == With(e.name, [Direct EXCEPT !.type = "external"])
               known == {x \in Current.external : x.scheme \in SingboxSchemes}
    <3>1. Config.outbounds = {proxy, direct} \cup (IF link.chained THEN {rest} ELSE {})
                               \cup {ext(e) : e \in known}
      BY <2>1, <2>5 DEF Made, Singbox, SingboxOutbounds, SingboxExternals
    <3>2. proxy.tag = "proxy" /\ direct.tag # "proxy" /\ rest.tag # "proxy"
          /\ \A e : ext(e).type # "direct"
      <4>1. ASSUME NEW e PROVE ext(e).type = "external"
        BY <2>2, <2>3
      <4>2. proxy.tag = "proxy" /\ direct.tag = "direct" /\ rest.tag = "chain-out"
        BY <2>2
      <4> HIDE DEF proxy, direct, ext, rest
      <4> QED
        BY <4>1, <4>2
    <3>3. proxy.type = own.type
      <4>1. [own EXCEPT !.detour = "chain-out"].type = own.type
        BY DEF SingboxOutbound
      <4> QED
        BY <2>2, <4>1
    <3>4. own.type # "direct" <=> link.protocol \in KnownTo("sing-box")
      BY DEF SingboxOutbound, KnownTo, SingboxCompatible
    <3> HIDE DEF own, proxy, direct, rest, ext
    <3> QED
      BY <2>5, <3>1, <3>2, <3>3, <3>4
  <2>6. CASE running = "xray"
    <3> DEFINE known == {"vmess", "vless", "socks5", "http"}
               type == IF link.protocol \in known THEN link.protocol ELSE "direct"
               proxy == With("proxy", [type |-> type, flow |-> link.flow, detour |-> None])
               direct == With("direct", Direct)
               ext(e) == With(e.name, [Direct EXCEPT !.type = "external"])
               others == {x \in Current.external : x.scheme \in SingboxSchemes \cup {"socks"}}
    <3>1. Config.outbounds = {proxy, direct} \cup {ext(e) : e \in others}
      BY <2>1, <2>6 DEF Made, Xray, XrayOutbounds
    <3>2. proxy.tag = "proxy" /\ direct.tag # "proxy"
          /\ \A e : ext(e).type # "direct"
      <4>1. ASSUME NEW e PROVE ext(e).type = "external"
        BY <2>2, <2>3
      <4>2. proxy.tag = "proxy" /\ direct.tag = "direct"
        BY <2>2
      <4> HIDE DEF proxy, direct, ext
      <4> QED
        BY <4>1, <4>2
    <3>3. proxy.type = type
      BY <2>2
    <3>4. type # "direct" <=> link.protocol \in KnownTo("xray")
      BY DEF KnownTo
    <3> HIDE DEF type, proxy, direct, ext
    <3> QED
      BY <2>6, <3>1, <3>2, <3>3, <3>4
  <2> QED
    BY <2>1, <2>5, <2>6 DEF Engines
<1> QED
  BY <1>1, AlwaysMade, PTL

(* More rule sets leave every rule that was in force as it was.            *)
LEMMA ModernGrows ==
    ASSUME NEW s, s.rules \in Seq(UserRule), NEW few, NEW more, few \subseteq more
    PROVE  InForce(ModernRules(s, few)) \subseteq InForce(ModernRules(s, more))
<1> DEFINE n == Len(s.rules)
           old == Translated(s, few)
           new == Translated(s, more)
           before == Shape(Private, s, old)
           after == Shape(Private, s, new)
<1>1. /\ n \in Nat /\ DOMAIN s.rules = 1..n
      /\ DOMAIN before = 1..(n + 2)
      /\ before[1] = Rule({Private}, "direct") /\ before[2] = LocalRule(s, "direct")
      /\ \A i \in 1..n : before[i + 2] = Rule({s.rules[i].match} \cap old, s.rules[i].to)
  BY PrivateShape
<1>2. /\ DOMAIN after = 1..(n + 2)
      /\ after[1] = Rule({Private}, "direct") /\ after[2] = LocalRule(s, "direct")
      /\ \A i \in 1..n : after[i + 2] = Rule({s.rules[i].match} \cap new, s.rules[i].to)
  BY PrivateShape
<1>3. old \subseteq new
  BY DEF Translated
<1>4. ModernRules(s, few) = before /\ ModernRules(s, more) = after
  BY DEF ModernRules, Shape
<1> HIDE DEF n, old, new, before, after
<1>5. ASSUME NEW k \in DOMAIN before, before[k].on # {}
      PROVE  after[k] = before[k]
  <2>1. CASE k = 1 \/ k = 2
    BY <1>1, <1>2, <2>1
  <2>2. CASE k > 2
    <3> DEFINE i == k - 2
               m == s.rules[i].match
    <3>1. i \in 1..n /\ k = i + 2
      BY <1>1, <2>2
    <3> HIDE DEF i
    <3>2. before[k] = Rule({m} \cap old, s.rules[i].to) /\ after[k] = Rule({m} \cap new, s.rules[i].to)
      BY <1>1, <1>2, <3>1
    <3>3. {m} \cap old # {}
      BY <1>5, <3>2 DEF Rule
    <3>4. {m} \cap old = {m} \cap new
      BY <1>3, <3>3
    <3> QED
      BY <3>2, <3>4
  <2> QED
    BY <1>1, <2>1, <2>2
<1>6. \A r \in InForce(before) : r \in InForce(after)
  BY <1>1, <1>2, <1>5, InForceAt
<1> QED
  BY <1>4, <1>6

(* The route of a config that has rules is made of them.                   *)
LEMMA RouteByRules ==
    ASSUME NEW s, s.rules # <<>>, NEW l, NEW files
    PROVE  Singbox(s, l, files).route.rules = ModernRules(s, files)
BY DEF Singbox, Routed, SingboxRoute

(* A rule that was once in force is in every later sing-box config: for    *)
(* any rules, and any outcome of the downloads between the two.            *)
THEOREM RulesAreKept == Spec => RulesStay
<1>1. WInv /\ [Next]_vars =>
        LET old == written["sing-box"]
            new == written'["sing-box"]
        IN  old # None /\ conf.rules # <<>> =>
              InForce(old.route.rules) \subseteq InForce(new.route.rules)
  <2> DEFINE old == written["sing-box"]
             new == written'["sing-box"]
  <2> SUFFICES ASSUME WInv, [Next]_vars, old # None, conf.rules # <<>>
               PROVE  InForce(old.route.rules) \subseteq InForce(new.route.rules)
    OBVIOUS
  <2>1. CASE new = old
    BY <2>1
  <2>2. CASE new # old
    <3>1. EngineUp \/ EngineFails
      BY <2>2 DEF Next, vars, Run, GetGeosite, GetGeoip, GetDat, StartChain, Stop
    <3>2. tried < Len(conf.engines) /\ written' = [written EXCEPT ![Engine] = Generated]
      BY <3>1 DEF EngineUp, EngineFails
    <3>3. Engine \in Engines
      BY <3>2, EngineIsKnown DEF WInv
    <3>4. Engine = "sing-box" /\ new = Generated
      BY <2>2, <3>2, <3>3 DEF WInv, Engines
    <3>5. new = Singbox(SettingsOf(conf, geosite), link, srs)
      BY <3>4 DEF Generated, Current
    <3>6. PICK files \in SUBSET srs : \E g : old = Singbox(SettingsOf(conf, g), link, files)
      BY DEF WInv
    <3>7. PICK g : old = Singbox(SettingsOf(conf, g), link, files)
      BY <3>6
    <3> DEFINE s == SettingsOf(conf, g)
    <3>8. s = SettingsOf(conf, geosite)
      BY DEF SettingsOf, Settings
    <3>9. s.rules = conf.rules
      BY RulesOf
    <3> HIDE DEF s
    <3>10. s.rules \in Seq(UserRule) /\ s.rules # <<>>
      BY <3>9, ConfsAssumption DEF WInv
    <3>11. old.route.rules = ModernRules(s, files) /\ new.route.rules = ModernRules(s, srs)
      <4>1. old = Singbox(s, link, files) /\ new = Singbox(s, link, srs)
        BY <3>5, <3>7, <3>8 DEF s
      <4> QED
        BY <3>10, <4>1, RouteByRules
    <3> QED
      BY <3>10, <3>11, ModernGrows
  <2> QED
    BY <2>1, <2>2
<1> QED
  BY <1>1, AlwaysWritten, PTL DEF Spec, RulesStay

-----------------------------------------------------------------------------
(* What an engine is given is for that engine.                             *)
LEMMA MadeFor ==
    ASSUME Engine \in Engines
    PROVE  Generated.engine = Engine
BY DEF Generated, Singbox, Xray, Engines

LEMMA StepTyped ==
    ASSUME TypeOK, [Next]_vars
    PROVE  TypeOK'
<1>0. conf.engines \in Seq(Engines) /\ Len(conf.engines) \in Nat
  BY ConfsAssumption DEF TypeOK
<1>1. CASE Run
  <2>1. runs + 1 \in 0..MaxRuns
    BY <1>1, ConfsAssumption DEF Run, TypeOK
  <2>2. 0 \in 0..Len(conf.engines)
    BY <1>0
  <2>3. step' = "geosite" /\ running = None
    BY <1>1 DEF Run, TypeOK
  <2> QED
    BY <1>1, <2>1, <2>2, <2>3 DEF Run, TypeOK
<1>2. CASE GetGeosite
  <2>1. srs' \subseteq GeoData
    BY <1>2 DEF GetGeosite, Downloads, TypeOK
  <2> QED
    BY <1>2, <2>1 DEF GetGeosite, TypeOK
<1>3. CASE GetGeoip
  <2>1. srs' \subseteq GeoData
    BY <1>3 DEF GetGeoip, Downloads, TypeOK
  <2> QED
    BY <1>3, <2>1 DEF GetGeoip, TypeOK
<1>4. CASE GetDat
  <2>1. dat' \subseteq Geo
    BY <1>4 DEF GetDat, Downloads, TypeOK
  <2> QED
    BY <1>4, <2>1 DEF GetDat, TypeOK
<1>5. CASE EngineUp \/ EngineFails
  <2>1. tried < Len(conf.engines) /\ written' = [written EXCEPT ![Engine] = Generated]
    BY <1>5 DEF EngineUp, EngineFails
  <2>2. Engine \in Engines
    BY <1>0, <2>1, EngineIsKnown DEF TypeOK
  <2>3. Generated.engine = Engine
    BY <2>2, MadeFor
  <2>4. \A e \in Engines : written'[e] = None \/ written'[e].engine = e
    BY <2>1, <2>2, <2>3 DEF TypeOK
  <2>5. Engine # None
    BY <2>2, ConfsAssumption
  <2>6. tried + 1 \in 0..Len(conf.engines)
    BY <1>0, <2>1 DEF TypeOK
  <2>7. CASE EngineUp
    BY <2>2, <2>4, <2>5, <2>7 DEF EngineUp, TypeOK
  <2>8. CASE EngineFails
    BY <2>4, <2>6, <2>8 DEF EngineFails, TypeOK
  <2> QED
    BY <1>5, <2>7, <2>8
<1>6. CASE StartChain
  BY <1>6 DEF StartChain, TypeOK
<1>7. CASE Stop
  BY <1>7 DEF Stop, TypeOK
<1>8. CASE UNCHANGED vars
  BY <1>8 DEF vars, TypeOK
<1> QED
  BY <1>1, <1>2, <1>3, <1>4, <1>5, <1>6, <1>7, <1>8 DEF Next

(* The run is up exactly when an engine runs, each engine has the config   *)
(* that was written for it, and no file is one that is not to be had.      *)
THEOREM RunIsWellTyped == Spec => []TypeOK
<1>1. Init => TypeOK
  BY ConfsAssumption DEF Init, TypeOK
<1> QED
  BY <1>1, StepTyped, PTL DEF Spec

(* Domains that are forced go through the tunnel, whichever engine runs,   *)
(* whatever else the whitelist says of them, but for an address that a     *)
(* client of xray gives and that is in its ranges: for every configuration.*)
THEOREM ForcedGoThrough == Spec => []ForcedIsTunnelled
<1>1. IInv /\ TypeOK => ForcedIsTunnelled
  <2> SUFFICES ASSUME IInv, TypeOK, running # None, NEW d \in Destinations,
                      NEW x \in Current.force, <<Suffix(x), d.name>> \in Covers
               PROVE  RouteTo(Config, d)
                        = IF running = "xray" /\ d.given = "addr" /\ <<Ranges, d.addr>> \in Covers
                          THEN "direct" ELSE "proxy"
    BY DEF ForcedIsTunnelled
  <2>1. Current.rules = <<>>
    BY ForcedIsLegacy DEF Current, SettingsOf
  <2>2. Config = Made(running) /\ running \in Engines
    BY DEF IInv, Config
  <2>3. Xray(Current, link, dat).route # None
    <3>1. conf \in Confs /\ geosite \in SUBSET conf.geosite /\ link \in Links
          /\ dat \in SUBSET Geo
      BY DEF TypeOK
    <3> QED
      BY <3>1, NoneAssumption DEF Current
  <2> HIDE DEF Current
  <2>4. CASE running = "sing-box"
    <3>1. Config = Singbox(Current, link, srs)
      BY <2>2, <2>4 DEF Made
    <3>2. RouteTo(Config, d) = "proxy"
      BY <2>1, <3>1, SingboxForces
    <3> QED
      BY <2>4, <3>2
  <2>5. CASE running = "xray"
    <3>1. Config = Xray(Current, link, dat)
      BY <2>2, <2>5 DEF Made
    <3> QED
      BY <2>1, <2>3, <2>5, <3>1, XrayForces
  <2> QED
    BY <2>2, <2>4, <2>5 DEF Engines
<1> QED
  BY <1>1, AlwaysMade, RunIsWellTyped, PTL

-----------------------------------------------------------------------------
(* What matchers stand for                                                 *)

(* Names are not matched by kinds for addresses, nor addresses by kinds    *)
(* for names.                                                              *)
LEMMA KindsApart ==
    ASSUME NEW m
    PROVE  /\ \A n \in Names : <<m, n>> \in Covers
                                 => m.kind \notin {"geoip", "ip_cidr", "private", "ranges"}
           /\ \A a \in Addrs : <<m, a>> \in Covers
                                 => m.kind \in {"geoip", "ip_cidr", "private", "ranges"}
<1>1. ASSUME NEW n \in Names, <<m, n>> \in Covers
      PROVE  m.kind \notin {"geoip", "ip_cidr", "private", "ranges"}
  <2> DEFINE p == <<m, n>>
  <2>1. p \in Covers /\ p[1] = m /\ p[2] = n
    BY <1>1
  <2> HIDE DEF p
  <2>2. n \notin Addrs
    BY CoversAssumption
  <2> QED
    BY <2>1, <2>2, CoversAssumption
<1>2. ASSUME NEW a \in Addrs, <<m, a>> \in Covers
      PROVE  m.kind \in {"geoip", "ip_cidr", "private", "ranges"}
  <2> DEFINE p == <<m, a>>
  <2>1. p \in Covers /\ p[1] = m /\ p[2] = a
    BY <1>2
  <2> HIDE DEF p
  <2>2. a \notin Names
    BY CoversAssumption
  <2> QED
    BY <2>1, <2>2, CoversAssumption
<1> QED
  BY <1>1, <1>2

(* The kinds of the matchers that the generator makes itself.              *)
LEMMA KindsMade ==
    /\ Private.kind = "private" /\ Ranges.kind = "ranges" /\ Everything.kind = "any"
    /\ \A x : /\ Suffix(x).kind = "domain_suffix" /\ Keyword(x).kind = "keyword"
              /\ Site(x).kind = "geosite" /\ Ip(x).kind = "geoip"
BY DEF Private, Ranges, Everything, Suffix, Keyword, Site, Ip, Matcher

(* A rule for names alone does not hold for an address.                    *)
LEMMA NamesOnly ==
    ASSUME NEW r, \A m \in r.on : m.kind \in {"domain", "domain_suffix", "keyword", "geosite"},
           NEW a \in Addrs
    PROVE  ~Holds(r, {a})
<1>1. \A m \in r.on : m # Everything /\ <<m, a>> \notin Covers
  BY KindsApart, KindsMade
<1> QED
  BY <1>1 DEF Holds

-----------------------------------------------------------------------------
(* DNS follows the route                                                   *)

(* The rules for DNS: none leads into the tunnel; the first is about the   *)
(* same names as the second of the route, and the direct rules of the user *)
(* that are about names are among them.                                    *)
LEMMA DirectRulesOfDNS ==
    ASSUME NEW s, s.rules \in Seq(UserRule), s.rules # <<>>, NEW l, NEW files
    PROVE  LET n == Len(s.rules)
               rules == Singbox(s, l, files).dns.rules
           IN  /\ DOMAIN rules = 1..(n + 2)
               /\ \A k \in 1..(n + 2) : rules[k].to \in {"dns-local", "dns-direct"}
               /\ rules[1].on = LocalRule(s, "direct").on
               /\ \A i \in 1..n :
                    /\ s.rules[i].to = "direct"
                    /\ \/ s.rules[i].match.kind \in {"domain", "domain_suffix"}
                       \/ s.rules[i].match.kind = "geosite" /\ s.rules[i].match \in files
                    => rules[i + 2].on = {s.rules[i].match}
<1> DEFINE n == Len(s.rules)
           f == DirectDNS(s, files)
           h == <<LocalRule(s, "dns-local"), ServerRule(l)>>
           kept == {m \in Matches(s) : \/ m.kind \in {"geoip", "domain_suffix", "domain"}
                                       \/ m.kind = "geosite" /\ m \in files}
           on(i) == IF s.rules[i].to = "direct" THEN {s.rules[i].match} \cap kept ELSE {}
<1>1. n \in Nat /\ DOMAIN s.rules = 1..n
  BY LenProperties
<1>2. f = [i \in 1..n |-> f[i]] /\ \A i \in 1..n : f[i] = Rule(on(i), "dns-direct")
  BY <1>1 DEF DirectDNS
<1>3. Singbox(s, l, files).dns.rules = h \o f
  BY DEF Singbox, Routed, SingboxDNS
<1>4. \A o, to : Rule(o, to).on = o /\ Rule(o, to).to = to
  BY DEF Rule
<1>5. h = <<LocalRule(s, "dns-local"), ServerRule(l)>>
  OBVIOUS
<1>6. ASSUME NEW i \in 1..n, s.rules[i].to = "direct",
             \/ s.rules[i].match.kind \in {"domain", "domain_suffix"}
             \/ s.rules[i].match.kind = "geosite" /\ s.rules[i].match \in files
      PROVE  on(i) = {s.rules[i].match}
  <2>1. s.rules[i].match \in kept
    BY <1>6, UserRuleAt
  <2> QED
    BY <1>6, <2>1
<1> HIDE DEF n, f, h, on
<1> DEFINE rules == h \o f
<1>7. /\ DOMAIN rules = 1..(n + 2)
      /\ rules[1] = LocalRule(s, "dns-local") /\ rules[2] = ServerRule(l)
      /\ \A i \in 1..n : rules[i + 2] = f[i]
  BY <1>1, <1>2, <1>5, TwoThen
<1> HIDE DEF rules
<1>8. ASSUME NEW k \in 1..(n + 2)
      PROVE  rules[k].to \in {"dns-local", "dns-direct"}
  <2>1. CASE k = 1
    BY <1>4, <1>7, <2>1 DEF LocalRule
  <2>2. CASE k = 2
    BY <1>4, <1>7, <2>2 DEF ServerRule
  <2>3. CASE k > 2
    <3> DEFINE i == k - 2
    <3>1. i \in 1..n /\ i + 2 = k
      BY <1>1, <2>3
    <3> HIDE DEF i
    <3>2. rules[k] = Rule(on(i), "dns-direct")
      BY <1>2, <1>7, <3>1
    <3> QED
      BY <1>4, <3>2
  <2> QED
    BY <1>1, <2>1, <2>2, <2>3
<1>9. rules[1].on = LocalRule(s, "direct").on
  BY <1>4, <1>7 DEF LocalRule
<1>10. ASSUME NEW i \in 1..n, s.rules[i].to = "direct",
              \/ s.rules[i].match.kind \in {"domain", "domain_suffix"}
              \/ s.rules[i].match.kind = "geosite" /\ s.rules[i].match \in files
       PROVE  rules[i + 2].on = {s.rules[i].match}
  <2>1. rules[i + 2] = Rule(on(i), "dns-direct")
    BY <1>2, <1>7
  <2> QED
    BY <1>4, <1>6, <1>10, <2>1
<1> QED
  BY <1>3, <1>7, <1>8, <1>9, <1>10 DEF n, rules

(* Where the rules of the user send a name direct, one of those for DNS    *)
(* holds for it.                                                           *)
LEMMA DirectHits ==
    ASSUME NEW s, s.rules \in Seq(UserRule), s.rules # <<>>, NEW l, NEW files,
           NEW name \in Names,
           LET rules == ModernRules(s, files)
           IN  Hits(rules, {name}) # {} /\ First(rules, {name}) = "direct"
    PROVE  QueryServer(Singbox(s, l, files), name) # "dns-tunnel"
<1> DEFINE n == Len(s.rules)
           kept == Translated(s, files)
           rules == Shape(Private, s, kept)
           cfg == Singbox(s, l, files)
           dns == cfg.dns.rules
<1>1. /\ n \in Nat /\ DOMAIN s.rules = 1..n
      /\ DOMAIN rules = 1..(n + 2)
      /\ rules[1] = Rule({Private}, "direct") /\ rules[2] = LocalRule(s, "direct")
      /\ \A i \in 1..n : rules[i + 2] = Rule({s.rules[i].match} \cap kept, s.rules[i].to)
  BY PrivateShape
<1>2. /\ DOMAIN dns = 1..(n + 2)
      /\ \A k \in 1..(n + 2) : dns[k].to \in {"dns-local", "dns-direct"}
      /\ dns[1].on = LocalRule(s, "direct").on
      /\ \A i \in 1..n :
           /\ s.rules[i].to = "direct"
           /\ \/ s.rules[i].match.kind \in {"domain", "domain_suffix"}
              \/ s.rules[i].match.kind = "geosite" /\ s.rules[i].match \in files
           => dns[i + 2].on = {s.rules[i].match}
  BY DirectRulesOfDNS
<1>3. Hits(rules, {name}) # {} /\ First(rules, {name}) = "direct"
  BY DEF ModernRules, Shape
<1>4. QueryServer(cfg, name) = IF cfg.dns = None THEN "system" ELSE Pick(dns, {name}, cfg.dns.final)
  BY DEF QueryServer
<1>5. \A m \in kept : \/ m.kind \in {"domain", "domain_suffix", "ip_cidr", "geoip"}
                      \/ m.kind = "geosite" /\ m \in files
  BY DEF Translated, Geo
<1>6. \A on, to : Rule(on, to).on = on /\ Rule(on, to).to = to
  BY DEF Rule
<1> HIDE DEF n, kept, rules, cfg, dns
<1>7. PICK k \in Hits(rules, {name}) : rules[k].to = "direct"
  <2>1. \/ Hits(rules, {name}) = {} /\ Pick(rules, {name}, "") = ""
        \/ \E k \in Hits(rules, {name}) :
             /\ \A j \in Hits(rules, {name}) : k <= j
             /\ Pick(rules, {name}, "") = rules[k].to
    <3>1. n + 2 \in Nat
      BY <1>1
    <3> QED
      BY <1>1, <3>1, PickIs
  <2>2. Pick(rules, {name}, "") = "direct"
    BY <1>3 DEF Pick
  <2> QED
    BY <1>3, <2>1, <2>2
<1>8. k \in 1..(n + 2) /\ Holds(rules[k], {name})
  BY <1>1, <1>7 DEF Hits
<1>9. PICK m \in rules[k].on : m = Everything \/ <<m, name>> \in Covers
  BY <1>8 DEF Holds
<1>10. m.kind \notin {"geoip", "ip_cidr", "private", "ranges"}
  BY <1>9, KindsApart, KindsMade
<1>11. Hits(dns, {name}) # {}
  <2>1. CASE k = 1
    <3>1. m = Private
      BY <1>1, <1>6, <1>9, <2>1
    <3> QED
      BY <1>10, <3>1, KindsMade
  <2>2. CASE k = 2
    <3>1. m \in dns[1].on
      BY <1>1, <1>2, <1>9, <2>2
    <3>2. 1 \in DOMAIN dns /\ Holds(dns[1], {name})
      BY <1>1, <1>2, <1>9, <3>1 DEF Holds
    <3> QED
      BY <3>2 DEF Hits
  <2>3. CASE k > 2
    <3> DEFINE i == k - 2
    <3>1. i \in 1..n /\ k = i + 2
      BY <1>1, <1>8, <2>3
    <3> HIDE DEF i
    <3>2. rules[k] = Rule({s.rules[i].match} \cap kept, s.rules[i].to)
      BY <1>1, <3>1
    <3>3. s.rules[i].to = "direct" /\ m = s.rules[i].match /\ m \in kept
      BY <1>6, <1>7, <1>9, <3>2
    <3>4. m.kind \in {"domain", "domain_suffix"} \/ (m.kind = "geosite" /\ m \in files)
      <4>1. \/ m.kind \in {"domain", "domain_suffix", "ip_cidr", "geoip"}
            \/ m.kind = "geosite" /\ m \in files
        BY <1>5, <3>3
      <4> QED
        BY <1>10, <4>1
    <3>5. dns[k].on = {m}
      BY <1>2, <3>1, <3>3, <3>4
    <3>6. k \in DOMAIN dns /\ Holds(dns[k], {name})
      BY <1>2, <1>8, <1>9, <3>5 DEF Holds
    <3> QED
      BY <3>6 DEF Hits
  <2>4. k = 1 \/ k = 2 \/ k > 2
    BY <1>1, <1>8
  <2> QED
    BY <2>1, <2>2, <2>3, <2>4
<1>12. Pick(dns, {name}, cfg.dns.final) \in {"dns-local", "dns-direct"}
  <2>1. n + 2 \in Nat
    BY <1>1
  <2> DEFINE last == cfg.dns.final
  <2>0. \/ Hits(dns, {name}) = {} /\ Pick(dns, {name}, last) = last
        \/ \E j \in Hits(dns, {name}) :
             /\ \A i \in Hits(dns, {name}) : j <= i
             /\ Pick(dns, {name}, last) = dns[j].to
    <3> HIDE DEF last
    <3> QED
      BY <1>2, <2>1, PickIs
  <2>2. PICK j \in Hits(dns, {name}) : Pick(dns, {name}, last) = dns[j].to
    BY <1>11, <2>0
  <2>3. j \in 1..(n + 2)
    BY <1>2 DEF Hits
  <2> QED
    BY <1>2, <2>2, <2>3
<1> QED
  BY <1>4, <1>12 DEF cfg

(* The DNS rules of sing-box do not send a query into the tunnel for a     *)
(* name that the first of the user's rules that matches it sends direct:   *)
(* for any rules and any geo data on disk. The resolve action of the route *)
(* does not ask the DNS rules, and is not meant.                           *)
THEOREM DnsRulesFollow == Spec => []DnsRulesFollowRoute
<1>1. IInv => DnsRulesFollowRoute
  <2> SUFFICES ASSUME IInv, running = "sing-box", Current.rules # <<>>, NEW n \in Names,
                      Hits(Config.route.rules, {n}) # {},
                      First(Config.route.rules, {n}) = "direct"
               PROVE  QueryServer(Config, n) # "dns-tunnel"
    BY DEF DnsRulesFollowRoute
  <2>1. Current.rules = conf.rules
    BY DEF Current, SettingsOf, Settings
  <2>2. Current.rules \in Seq(UserRule)
    BY <2>1, ConfsAssumption DEF IInv
  <2>3. running # None
    BY ConfsAssumption DEF Engines
  <2>4. Config = Singbox(Current, link, srs)
    BY <2>3 DEF IInv, Config, Made
  <2> HIDE DEF Current
  <2>5. Config.route.rules = ModernRules(Current, srs)
    BY <2>4, RouteByRules
  <2> QED
    BY <2>2, <2>4, <2>5, DirectHits
<1> QED
  BY <1>1, AlwaysMade, PTL

-----------------------------------------------------------------------------
(* The two engines send traffic the same way                               *)

(* What is picked depends only on the rules that hold.                     *)
LEMMA SameHits ==
    ASSUME NEW rules, NEW few, NEW more, Hits(rules, few) = Hits(rules, more), NEW otherwise
    PROVE  Pick(rules, few, otherwise) = Pick(rules, more, otherwise)
BY DEF Pick, First

(* A list of n rules, and one with a rule for everything at its end.       *)
IsList(f, n) == f = [i \in 1..n |-> f[i]]
Ends(g, f, to) == g = f \o <<Rule({Everything}, to)>>

(* A rule for everything at the end of a list is its default.              *)
LEMMA EndsWithEverything ==
    ASSUME NEW n \in Nat, NEW f, IsList(f, n), NEW to, NEW g, Ends(g, f, to),
           NEW things, NEW otherwise
    PROVE  Pick(g, things, otherwise) = Pick(f, things, to)
<1> DEFINE t == <<Rule({Everything}, to)>>
<1>1. t = <<Rule({Everything}, to)>> /\ g = f \o t /\ f = [i \in 1..n |-> f[i]]
  BY DEF Ends, IsList
<1> HIDE DEF t
<1>2. /\ DOMAIN g = 1..(n + 1) /\ g[n + 1] = Rule({Everything}, to)
      /\ \A i \in 1..n : g[i] = f[i]
  BY <1>1, ThenOne
<1>3. DOMAIN f = 1..n
  BY <1>1
<1>4. n + 1 \in Nat /\ n + 1 \in 1..(n + 1) /\ ~(n + 1 \in 1..n)
      /\ 1..(n + 1) = (1..n) \cup {n + 1}
  OBVIOUS
<1>5. Holds(g[n + 1], things)
  <2>1. Everything \in g[n + 1].on
    BY <1>2 DEF Rule
  <2> QED
    BY <2>1 DEF Holds
<1>6. Hits(g, things) = Hits(f, things) \cup {n + 1}
  BY <1>2, <1>3, <1>4, <1>5 DEF Hits
<1>7. Hits(f, things) \subseteq 1..n
  BY <1>3 DEF Hits
<1>8. CASE Hits(f, things) = {}
  <2>1. Pick(f, things, to) = to
    BY <1>8 DEF Pick
  <2>2. Pick(g, things, otherwise) = g[n + 1].to
    <3>1. Hits(g, things) = {n + 1}
      BY <1>6, <1>8
    <3>2. /\ Hits(g, things) \subseteq Nat /\ n + 1 \in Hits(g, things)
          /\ \A j \in Hits(g, things) : n + 1 <= j
      BY <1>4, <3>1
    <3> QED
      BY <1>4, <3>2, FirstIs, Zenon
  <2>3. g[n + 1].to = to
    BY <1>2 DEF Rule
  <2> QED
    BY <2>1, <2>2, <2>3
<1>9. CASE Hits(f, things) # {}
  <2>1. PICK k \in Hits(f, things) : /\ \A j \in Hits(f, things) : k <= j
                                     /\ Pick(f, things, to) = f[k].to
    BY <1>3, <1>9, PickIs
  <2>2. k \in 1..n /\ k \in Nat /\ k \in Hits(g, things)
    BY <1>6, <1>7
  <2>3. \A j \in Hits(g, things) : k <= j
    BY <1>6, <2>1, <2>2
  <2>4. Hits(g, things) \subseteq Nat
    BY <1>6, <1>7
  <2>5. Pick(g, things, otherwise) = g[k].to
    BY <2>2, <2>3, <2>4, FirstIs, Zenon
  <2> QED
    BY <1>2, <2>1, <2>2, <2>5
<1> QED
  BY <1>8, <1>9

(* Two lists whose rules hold for the same and say the same decide alike.  *)
LEMMA SameRules ==
    ASSUME NEW n \in Nat, NEW f, DOMAIN f = 1..n, NEW g, DOMAIN g = 1..n, NEW things,
           \A k \in 1..n : f[k].to = g[k].to /\ (Holds(f[k], things) <=> Holds(g[k], things)),
           NEW otherwise
    PROVE  Pick(f, things, otherwise) = Pick(g, things, otherwise)
<1>1. Hits(f, things) = Hits(g, things)
  BY DEF Hits
<1>2. CASE Hits(f, things) = {}
  BY <1>1, <1>2 DEF Pick
<1>3. CASE Hits(f, things) # {}
  <2>1. PICK k \in Hits(f, things) : /\ \A j \in Hits(f, things) : k <= j
                                     /\ Pick(f, things, otherwise) = f[k].to
    BY <1>3, PickIs
  <2>2. /\ k \in 1..n /\ k \in Nat /\ Hits(g, things) \subseteq Nat
        /\ k \in Hits(g, things) /\ \A j \in Hits(g, things) : k <= j
    BY <1>1, <2>1 DEF Hits
  <2>3. Pick(g, things, otherwise) = g[k].to
    BY <2>2, FirstIs, Zenon
  <2> QED
    BY <2>1, <2>2, <2>3
<1> QED
  BY <1>2, <1>3

(* The two lists of rules of the user differ in what is private.           *)
LEMMA SameShape ==
    ASSUME NEW s, s.rules \in Seq(UserRule), NEW kept, NEW things, NEW otherwise,
           (\E t \in things : <<Private, t>> \in Covers)
              <=> (\E t \in things : <<Ranges, t>> \in Covers)
    PROVE  Pick(Shape(Private, s, kept), things, otherwise)
             = Pick(Shape(Ranges, s, kept), things, otherwise)
<1> DEFINE n == Len(s.rules)
           f == Shape(Private, s, kept)
           g == Shape(Ranges, s, kept)
<1>1. /\ n \in Nat /\ DOMAIN f = 1..(n + 2)
      /\ f[1] = Rule({Private}, "direct") /\ f[2] = LocalRule(s, "direct")
      /\ \A i \in 1..n : f[i + 2] = Rule({s.rules[i].match} \cap kept, s.rules[i].to)
  BY PrivateShape
<1>2. /\ DOMAIN g = 1..(n + 2)
      /\ g[1] = Rule({Ranges}, "direct") /\ g[2] = LocalRule(s, "direct")
      /\ \A i \in 1..n : g[i + 2] = Rule({s.rules[i].match} \cap kept, s.rules[i].to)
  BY RangesShape
<1> HIDE DEF n, f, g
<1>3. ASSUME NEW k \in 1..(n + 2)
      PROVE  f[k].to = g[k].to /\ (Holds(f[k], things) <=> Holds(g[k], things))
  <2>1. CASE k = 1
    <3>1. /\ f[k].on = {Private} /\ g[k].on = {Ranges} /\ f[k].to = g[k].to
          /\ Private # Everything /\ Ranges # Everything
      BY <1>1, <1>2, <2>1, KindsMade DEF Rule
    <3> QED
      BY <3>1 DEF Holds
  <2>2. CASE k # 1
    <3>1. f[k] = g[k]
      <4>1. CASE k = 2
        BY <1>1, <1>2, <4>1
      <4>2. CASE k # 2
        <5>1. k - 2 \in 1..n /\ k = (k - 2) + 2
          BY <1>1, <2>2, <4>2
        <5> QED
          BY <1>1, <1>2, <5>1
      <4> QED
        BY <4>1, <4>2
    <3> QED
      BY <3>1
  <2> QED
    BY <2>1, <2>2
<1>4. n + 2 \in Nat
  BY <1>1
<1>5. Pick(f, things, otherwise) = Pick(g, things, otherwise)
  BY <1>1, <1>2, <1>3, <1>4, SameRules
<1> QED
  BY <1>5 DEF f, g

(* An address that is private for both engines or for none.                *)
SameAddr(a) == <<Private, a>> \notin Covers \/ <<Ranges, a>> \in Covers

LEMMA SameThings ==
    ASSUME NEW a \in Addrs, SameAddr(a), NEW x \in Names \cup {None}
    PROVE  LET things == {x, a} \ {None}
           IN  (\E t \in things : <<Private, t>> \in Covers)
                  <=> (\E t \in things : <<Ranges, t>> \in Covers)
<1>1. <<Private, a>> \in Covers <=> <<Ranges, a>> \in Covers
  BY CoversAssumption DEF SameAddr
<1>2. x \in Names => <<Private, x>> \notin Covers /\ <<Ranges, x>> \notin Covers
  BY KindsApart, KindsMade
<1> QED
  BY <1>1, <1>2

(* With rules: both engines keep the same ones when their geo data is      *)
(* there, and xray's last rule says what sing-box's default says.          *)
LEMMA ModernAgree ==
    ASSUME NEW s, s.rules \in Seq(UserRule), s.rules # <<>>, NEW l, NEW files, NEW d,
           d.name \in Names \cup {None}, d.addr \in Addrs,
           {m \in Matches(s) : m.kind \in Geo} \subseteq files,
           SameAddr(d.addr),
           \/ d.given # "name"
           \/ /\ d.name \in Names /\ ~AddressRules(s)
              /\ <<Private, d.addr>> \notin Covers,
           SingboxRoute(s, files) # None, Xray(s, l, Geo).route # None
    PROVE  RouteTo(Singbox(s, l, files), d) = RouteTo(Xray(s, l, Geo), d)
<1> DEFINE n == Len(s.rules)
           kept == Translated(s, files)
           rules == Shape(Private, s, kept)
           listed == Shape(Ranges, s, kept)
           final == FinalOf(s.rules)
           longer == listed \o <<Rule({Everything}, final)>>
           one == Singbox(s, l, files)
           two == Xray(s, l, Geo)
           all == {d.name, d.addr} \ {None}
<1>1. /\ n \in Nat /\ DOMAIN s.rules = 1..n
      /\ DOMAIN listed = 1..(n + 2) /\ listed = [i \in 1..(n + 2) |-> listed[i]]
      /\ listed[1] = Rule({Ranges}, "direct") /\ listed[2] = LocalRule(s, "direct")
      /\ \A i \in 1..n : listed[i + 2] = Rule({s.rules[i].match} \cap kept, s.rules[i].to)
  BY RangesShape
<1>2. one.engine = "sing-box" /\ one.route = SingboxRoute(s, files)
  BY DEF Singbox, Routed
<1>3. one.route.rules = rules /\ one.route.final = final
  BY <1>2 DEF SingboxRoute, ModernRules, Shape
<1>4. kept = XrayTranslated(s, Geo)
  <2>1. \A m \in Matches(s) : m.kind \in Geo => m \in files
    OBVIOUS
  <2>2. "geosite" \in Geo /\ "geoip" \in Geo /\ Geo = {"geosite", "geoip"}
    BY DEF Geo
  <2>3. \A m \in Matches(s) : m \in kept <=> m \in XrayTranslated(s, Geo)
    BY <2>1, <2>2 DEF Translated, XrayTranslated
  <2>4. kept \subseteq Matches(s) /\ XrayTranslated(s, Geo) \subseteq Matches(s)
    BY DEF Translated, XrayTranslated
  <2> QED
    BY <2>3, <2>4
<1>5. two.engine = "xray" /\ two.route.rules = XrayModernRules(s, Geo)
  BY DEF Xray
<1>6. two.route.rules = longer
  <2>1. XrayModernRules(s, Geo)
          = Shape(Ranges, s, XrayTranslated(s, Geo)) \o <<Rule({Everything}, final)>>
    BY DEF XrayModernRules, Shape
  <2> HIDE DEF kept
  <2> QED
    BY <1>4, <1>5, <2>1
<1>7. ASSUME NEW things, NEW otherwise
      PROVE  Pick(longer, things, otherwise) = Pick(listed, things, final)
  <2>1. n + 2 \in Nat /\ IsList(listed, n + 2)
    BY <1>1 DEF IsList
  <2>2. Ends(longer, listed, final)
    BY DEF Ends
  <2> HIDE DEF listed, final, n, longer
  <2> QED
    BY <2>1, <2>2, EndsWithEverything
<1>8. RouteTo(one, d) = Pick(rules, all, final)
  <2> HIDE DEF one, rules, final
  <2> QED
    BY <1>2, <1>3 DEF RouteTo
<1>9. Pick(rules, all, final) = Pick(listed, all, final)
  <2>1. (\E t \in all : <<Private, t>> \in Covers) <=> (\E t \in all : <<Ranges, t>> \in Covers)
    BY SameThings
  <2> HIDE DEF all, final, kept
  <2> QED
    BY <2>1, SameShape
<1>10. CASE d.given # "name"
  <2>1. RouteTo(two, d) = Pick(longer, all, two.route.final)
    <3>1. two.route # None
      OBVIOUS
    <3> HIDE DEF two, longer
    <3> QED
      BY <1>6, <1>10, <3>1 DEF RouteTo
  <2> HIDE DEF longer, listed, rules, all, final, one, two
  <2>2. Pick(longer, all, two.route.final) = Pick(listed, all, final)
    BY <1>7
  <2> QED
    BY <1>8, <1>9, <2>1, <2>2 DEF one, two
<1>11. CASE d.given = "name"
  <2> DEFINE name == {d.name}
             both == {d.name, d.addr}
             later == Pick(longer, all, two.route.final)
  <2>1. d.name \in Names /\ d.addr # None /\ all = both
    BY <1>11, CoversAssumption
  <2>2. RouteTo(two, d) = Pick(longer, name, later)
    <3>1. two.route # None
      OBVIOUS
    <3> HIDE DEF two, longer
    <3> QED
      BY <1>5, <1>6, <1>11, <3>1 DEF RouteTo
  <2>3. Pick(longer, name, later) = Pick(listed, name, final)
    <3> HIDE DEF longer, listed, final, name, later
    <3> QED
      BY <1>7
  <2>4. ASSUME NEW k \in DOMAIN listed, NEW m \in listed[k].on
        PROVE  m # Everything /\ <<m, d.addr>> \notin Covers
    <3>1. \A on, to : Rule(on, to).on = on
      BY DEF Rule
    <3>2. <<Ranges, d.addr>> \notin Covers /\ ~AddressRules(s)
      BY <1>11, CoversAssumption
    <3> HIDE DEF listed, kept, n
    <3>3. CASE k = 1
      <4>1. m = Ranges
        BY <1>1, <2>4, <3>1, <3>3
      <4> QED
        BY <3>2, <4>1, KindsMade
    <3>4. CASE k = 2
      <4>1. m \in LocalRule(s, "direct").on
        BY <1>1, <2>4, <3>4
      <4>2. m.kind = "domain_suffix"
        BY <4>1, KindsMade DEF LocalRule, Rule
      <4> QED
        BY <4>2, KindsApart, KindsMade
    <3>5. CASE k > 2
      <4> DEFINE i == k - 2
      <4>1. i \in 1..n /\ k = i + 2
        BY <1>1, <3>5
      <4> HIDE DEF i
      <4>2. listed[k] = Rule({s.rules[i].match} \cap kept, s.rules[i].to)
        BY <1>1, <4>1
      <4>3. m \in kept
        BY <2>4, <3>1, <4>2
      <4>4. /\ m \in Matches(s)
            /\ m.kind \in {"domain", "domain_suffix", "ip_cidr", "geosite", "geoip"}
        BY <4>3 DEF kept, Translated, Geo
      <4>5. m.kind \notin {"geoip", "ip_cidr"}
        BY <3>2, <4>4 DEF AddressRules
      <4>6. m.kind \in {"domain", "domain_suffix", "geosite"}
        BY <4>4, <4>5
      <4> QED
        BY <4>6, KindsApart, KindsMade
    <3>6. k = 1 \/ k = 2 \/ k > 2
      BY <1>1
    <3> QED
      BY <3>3, <3>4, <3>5, <3>6
  <2>5. ASSUME NEW k \in DOMAIN listed
        PROVE  Holds(listed[k], name) <=> Holds(listed[k], both)
    <3> HIDE DEF listed
    <3>1. Holds(listed[k], name) <=> \E m \in listed[k].on : <<m, d.name>> \in Covers
      BY <2>4 DEF Holds
    <3>2. Holds(listed[k], both) <=> \E m \in listed[k].on : <<m, d.name>> \in Covers
      BY <2>4 DEF Holds
    <3> QED
      BY <3>1, <3>2
  <2>6. Hits(listed, name) = Hits(listed, both)
    <3> HIDE DEF listed, name, both
    <3> QED
      BY <2>5 DEF Hits
  <2>7. Pick(listed, name, final) = Pick(listed, all, final)
    <3> HIDE DEF listed, name, both, all, final
    <3> QED
      BY <2>1, <2>6, SameHits
  <2> HIDE DEF later, name, both, longer, all, rules, listed, one, two
  <2> QED
    BY <1>8, <1>9, <2>2, <2>3, <2>7 DEF one, two
<1> QED
  BY <1>10, <1>11

(* A list of which the rules that hold for an address all say the same.    *)
LEMMA AllDirect ==
    ASSUME NEW n \in Nat, NEW rules, DOMAIN rules = 1..n, NEW things,
           \A k \in Hits(rules, things) : rules[k].to = "direct"
    PROVE  Pick(rules, things, "proxy") = IF Hits(rules, things) = {} THEN "proxy" ELSE "direct"
<1>1. CASE Hits(rules, things) = {}
  BY <1>1 DEF Pick
<1>2. CASE Hits(rules, things) # {}
  <2>1. PICK k \in Hits(rules, things) : Pick(rules, things, "proxy") = rules[k].to
    BY <1>2, PickIs
  <2> QED
    BY <1>2, <2>1
<1> QED
  BY <1>1, <1>2

(* The addresses that the whitelist sends direct.                          *)
Listed(home, s, a) == <<home, a>> \in Covers \/ \E c \in s.countries : <<Ip(c), a>> \in Covers

(* sing-box, without rules of the user: an address goes direct if it is    *)
(* private or of a listed country.                                         *)
LEMMA SingboxAddress ==
    ASSUME NEW s, NEW files, NEW a \in Addrs
    PROVE  Pick(LegacyRules(s, files), {a}, "proxy") = IF Listed(Private, s, a) THEN "direct" ELSE "proxy"
<1> DEFINE rules == LegacyRules(s, files)
<1>1. /\ DOMAIN rules = 1..6
      /\ rules[1] = Rule({Suffix(x) : x \in s.force}, "proxy")
      /\ rules[2] = LocalRule(s, "direct")
      /\ rules[3] = Rule({Suffix(x) : x \in s.bypass}, "direct")
      /\ rules[4] = Rule({Private}, "direct")
      /\ rules[5] = Rule({Site(c) : c \in s.geosite} \cap files, "direct")
      /\ rules[6] = Rule({Ip(c) : c \in s.countries}, "direct")
  BY DEF LegacyRules
<1> HIDE DEF rules
<1>2. \A on, to : Rule(on, to).on = on /\ Rule(on, to).to = to
  BY DEF Rule
<1>3. \A k \in {1, 2, 3, 5} : ~Holds(rules[k], {a})
  <2>1. ~Holds(rules[1], {a}) /\ ~Holds(rules[3], {a})
    <3>1. \A X : \A m \in {Suffix(x) : x \in X} : m.kind = "domain_suffix"
      BY KindsMade
    <3>2. \A k \in {1, 3} : \A m \in rules[k].on : m.kind = "domain_suffix"
      BY <1>1, <1>2, <3>1
    <3> QED
      BY <3>2, NamesOnly
  <2>2. ~Holds(rules[2], {a})
    <3>1. \A m \in rules[2].on : m.kind = "domain_suffix"
      BY <1>1, <1>2, KindsMade DEF LocalRule
    <3> QED
      BY <3>1, NamesOnly
  <2>3. ~Holds(rules[5], {a})
    <3>1. \A m \in rules[5].on : m.kind = "geosite"
      BY <1>1, <1>2, KindsMade
    <3> QED
      BY <3>1, NamesOnly
  <2> QED
    BY <2>1, <2>2, <2>3
<1>4. Holds(rules[4], {a}) <=> <<Private, a>> \in Covers
  <2>1. rules[4].on = {Private} /\ Private # Everything
    BY <1>1, <1>2, KindsMade
  <2> QED
    BY <2>1 DEF Holds
<1>5. Holds(rules[6], {a}) <=> \E c \in s.countries : <<Ip(c), a>> \in Covers
  <2>1. rules[6].on = {Ip(c) : c \in s.countries} /\ \A c : Ip(c) # Everything
    BY <1>1, <1>2, KindsMade
  <2> QED
    BY <2>1 DEF Holds
<1>6. \A k \in 1..6 : k \in {1, 2, 3, 5} \/ k = 4 \/ k = 6
  OBVIOUS
<1>7. Hits(rules, {a}) # {} <=> Listed(Private, s, a)
  <2>1. 4 \in 1..6 /\ 6 \in 1..6
    OBVIOUS
  <2> QED
    BY <1>1, <1>3, <1>4, <1>5, <1>6, <2>1 DEF Hits, Listed
<1>8. \A k \in Hits(rules, {a}) : rules[k].to = "direct"
  BY <1>1, <1>2, <1>3, <1>6 DEF Hits
<1> QED
  BY <1>1, <1>7, <1>8, AllDirect DEF rules

(* And so does xray, if it has rules at all.                               *)
LEMMA XrayAddress ==
    ASSUME NEW s, s.countries # {} \/ s.bypass # {}, NEW a \in Addrs
    PROVE  Pick(XrayLegacyRules(s), {a}, "proxy") = IF Listed(Ranges, s, a) THEN "direct" ELSE "proxy"
<1> DEFINE rules == XrayLegacyRules(s)
<1>1. /\ DOMAIN rules = 1..5
      /\ rules[1] = Rule({Ranges}, "direct")
      /\ rules[2] = Rule({Keyword(x) : x \in s.force}, "proxy")
      /\ rules[3] = LocalRule(s, "direct")
      /\ rules[4] = Rule({Keyword(x) : x \in s.bypass}, "direct")
      /\ rules[5] = Rule({Ip(c) : c \in s.countries}, "direct")
  BY DEF XrayLegacyRules
<1> HIDE DEF rules
<1>2. \A on, to : Rule(on, to).on = on /\ Rule(on, to).to = to
  BY DEF Rule
<1>3. \A k \in {2, 3, 4} : ~Holds(rules[k], {a})
  <2>1. ~Holds(rules[2], {a}) /\ ~Holds(rules[4], {a})
    <3>1. \A X : \A m \in {Keyword(x) : x \in X} : m.kind = "keyword"
      BY KindsMade
    <3>2. \A k \in {2, 4} : \A m \in rules[k].on : m.kind = "keyword"
      BY <1>1, <1>2, <3>1
    <3> QED
      BY <3>2, NamesOnly
  <2>2. ~Holds(rules[3], {a})
    <3>1. \A m \in rules[3].on : m.kind = "domain_suffix"
      BY <1>1, <1>2, KindsMade DEF LocalRule
    <3> QED
      BY <3>1, NamesOnly
  <2> QED
    BY <2>1, <2>2
<1>4. Holds(rules[1], {a}) <=> <<Ranges, a>> \in Covers
  <2>1. rules[1].on = {Ranges} /\ Ranges # Everything
    BY <1>1, <1>2, KindsMade
  <2> QED
    BY <2>1 DEF Holds
<1>5. Holds(rules[5], {a}) <=> \E c \in s.countries : <<Ip(c), a>> \in Covers
  <2>1. rules[5].on = {Ip(c) : c \in s.countries} /\ \A c : Ip(c) # Everything
    BY <1>1, <1>2, KindsMade
  <2> QED
    BY <2>1 DEF Holds
<1>6. \A k \in 1..5 : k \in {2, 3, 4} \/ k = 1 \/ k = 5
  OBVIOUS
<1>7. Hits(rules, {a}) # {} <=> Listed(Ranges, s, a)
  <2>1. 1 \in 1..5 /\ 5 \in 1..5
    OBVIOUS
  <2> QED
    BY <1>1, <1>3, <1>4, <1>5, <1>6, <2>1 DEF Hits, Listed
<1>8. \A k \in Hits(rules, {a}) : rules[k].to = "direct"
  BY <1>1, <1>2, <1>3, <1>6 DEF Hits
<1> QED
  BY <1>1, <1>7, <1>8, AllDirect DEF rules

LEMMA LegacyAgree ==
    ASSUME NEW s, s.rules = <<>>, s.countries # {} \/ s.bypass # {}, NEW l, NEW files, NEW d,
           d.name = None, d.given # "name", d.addr \in Addrs, SameAddr(d.addr),
           SingboxRoute(s, files) # None, Xray(s, l, Geo).route # None
    PROVE  RouteTo(Singbox(s, l, files), d) = RouteTo(Xray(s, l, Geo), d)
<1> DEFINE one == Singbox(s, l, files)
           two == Xray(s, l, Geo)
<1>1. one.engine = "sing-box" /\ one.route = SingboxRoute(s, files)
  BY DEF Singbox, Routed
<1>2. one.route.rules = LegacyRules(s, files) /\ one.route.final = "proxy"
  BY <1>1 DEF SingboxRoute
<1>3. two.route.rules = XrayLegacyRules(s) /\ two.route.final = "proxy"
  BY DEF Xray
<1>4. {d.name, d.addr} \ {None} = {d.addr}
  BY CoversAssumption
<1>5. two.route # None
  OBVIOUS
<1> HIDE DEF one, two
<1>6. RouteTo(one, d) = Pick(LegacyRules(s, files), {d.addr}, "proxy")
  BY <1>1, <1>2, <1>4 DEF RouteTo
<1>7. RouteTo(two, d) = Pick(XrayLegacyRules(s), {d.addr}, "proxy")
  BY <1>3, <1>4, <1>5 DEF RouteTo
<1>8. Listed(Private, s, d.addr) <=> Listed(Ranges, s, d.addr)
  BY CoversAssumption DEF Listed, SameAddr
<1> QED
  BY <1>6, <1>7, <1>8, SingboxAddress, XrayAddress DEF one, two

(* A fallback does not change where traffic goes, for any rules or any     *)
(* whitelist. An address without a name is sent the same way by both; with *)
(* rules of the user, an address with a name too, and a name with a public *)
(* address if no rule is about addresses; all of this unless sing-box has  *)
(* the address for private and xray has not.                               *)
THEOREM FallbackRoutesAlike == Spec => []EnginesAgree
<1>1. TypeOK => EnginesAgree
  <2> DEFINE s == Current
             one == Singbox(s, link, srs)
             two == Xray(s, link, dat)
  <2> SUFFICES ASSUME TypeOK, {m \in Matches(s) : m.kind \in Geo} \subseteq srs, dat = Geo,
                      s.rules # <<>> \/ s.countries # {} \/ s.bypass # {},
                      NEW d \in Destinations, SameAddr(d.addr),
                      \/ d.name = None
                      \/ s.rules # <<>> /\ d.given = "addr"
                      \/ s.rules # <<>> /\ ~AddressRules(s) /\ <<Private, d.addr>> \notin Covers
               PROVE  RouteTo(one, d) = RouteTo(two, d)
    BY DEF EnginesAgree, SameAddr
  <2>1. SingboxRoute(s, srs) # None /\ Xray(s, link, Geo).route # None
    <3>1. conf \in Confs /\ geosite \in SUBSET conf.geosite /\ link \in Links
          /\ srs \in SUBSET GeoData /\ Geo \in SUBSET Geo
      BY DEF TypeOK
    <3> QED
      BY <3>1, NoneAssumption DEF Current
  <2>2. s.rules \in Seq(UserRule)
    <3>1. s.rules = conf.rules
      BY DEF Current, SettingsOf, Settings
    <3> QED
      BY <3>1, ConfsAssumption DEF TypeOK
  <2>3. /\ d.name \in Names \cup {None} /\ d.addr \in Addrs
        /\ d.given = "name" => d.name \in Names
        /\ d.name = None => d.given # "name"
    BY CoversAssumption DEF Destinations
  <2> HIDE DEF s
  <2>4. CASE s.rules # <<>>
    <3>1. \/ d.given # "name"
          \/ d.name \in Names /\ ~AddressRules(s) /\ <<Private, d.addr>> \notin Covers
      BY <2>3
    <3> QED
      BY <2>1, <2>2, <2>3, <2>4, <3>1, ModernAgree
  <2>5. CASE s.rules = <<>>
    BY <2>1, <2>3, <2>5, LegacyAgree
  <2> QED
    BY <2>4, <2>5
<1> QED
  BY <1>1, RunIsWellTyped, PTL
=============================================================================
