----------------------------- MODULE ConfigGen -----------------------------
(***************************************************************************)
(* What "bypath run" does about the configuration of its engines: geo data *)
(* is downloaded, which may fail, the engines are tried in turn, and each  *)
(* is given a file written for it. Files stay on disk between the runs.    *)
(***************************************************************************)
EXTENDS EngineConfig

CONSTANTS
    Confs,    \* config.yaml and the engines in the order they are tried
    Links,    \* the active link
    Chains,   \* the hops of the chains that are run in one process
    GeoData,  \* the rule sets there are to download
    MaxRuns   \* bound: runs of the program

(* singBoxCompatibleProtocols: a chain of these alone is run in one        *)
(* process.                                                                *)
SingboxCompatible == {"vmess", "vless", "trojan", "shadowsocks", "wireguard",
                      "socks5", "http"}

ASSUME ChainsAssumption ==
    \A c \in Chains : /\ Len(c) \in Nat \ {0} /\ DOMAIN c = 1..Len(c)
                      /\ \A i \in DOMAIN c : c[i].protocol \in SingboxCompatible

VARIABLES
    conf, link,  \* the configuration and the link of the run
    srs, dat,    \* geo data on disk: rule sets of sing-box, files of xray
    geosite,     \* Whitelist.GeositeCountries, once it has been validated
    step,        \* how far the run has come
    tried,       \* engines tried
    written,     \* written[e]: the config file of engine e
    running,     \* the engine that runs, or None
    chain,       \* the outbounds of a chain that runs, or None
    runs         \* runs so far

vars == <<conf, link, srs, dat, geosite, step, tried, written, running, chain, runs>>

Engines == {"sing-box", "xray"}
UserRule == [match : [kind : STRING, val : {None} \cup STRING], to : STRING]

ASSUME ConfsAssumption ==
    /\ \A c \in Confs : c.engines \in Seq(Engines) /\ c.rules \in Seq(UserRule)
    /\ None \notin Engines /\ MaxRuns \in Nat

TypeOK ==
    /\ conf \in Confs /\ link \in Links
    /\ srs \subseteq GeoData /\ dat \subseteq Geo
    /\ geosite \subseteq conf.geosite
    /\ step \in {"off", "geosite", "geoip", "dat", "engine", "up"}
    /\ tried \in 0..Len(conf.engines)
    /\ running \in Engines \cup {None}
    /\ (step = "up") = (running # None)
    /\ \A e \in Engines : written[e] = None \/ written[e].engine = e
    /\ chain = None \/ chain \in {Chain(c) : c \in Chains}
    /\ runs \in 0..MaxRuns

(* Earlier runs and the installer have left some of the geo data.          *)
Init ==
    /\ conf \in Confs /\ link \in Links
    /\ srs \in SUBSET GeoData /\ dat \in SUBSET Geo
    /\ geosite = {} /\ step = "off" /\ tried = 0
    /\ written = [e \in Engines |-> None] /\ running = None /\ chain = None
    /\ runs = 0

-----------------------------------------------------------------------------
(* Geo data                                                                *)

(* The old file is removed to make room.                                   *)
SlipDownloads(wanted, have) == { (have \ wanted) \cup got : got \in SUBSET wanted }

(* A download goes to a temporary file that is renamed when it is whole:   *)
(* of the files that are missing or old, some arrive, and those that do    *)
(* not stay as they were.                                                  *)
Downloads(wanted, have) == { have \cup got : got \in SUBSET wanted }

Run ==
    /\ step = "off" /\ runs < MaxRuns
    /\ step' = "geosite" /\ runs' = runs + 1
    /\ geosite' = conf.geosite /\ tried' = 0
    /\ UNCHANGED <<conf, link, srs, dat, written, running, chain>>

(* DownloadGeositeFiles and ValidateGeositeFiles: a country with no file   *)
(* leaves the list.                                                        *)
GetGeosite ==
    /\ step = "geosite" /\ step' = "geoip"
    /\ srs' \in Downloads({Site(c) : c \in conf.geosite} \cap GeoData, srs)
    /\ geosite' = {c \in conf.geosite : Site(c) \in srs'}
    /\ UNCHANGED <<conf, link, dat, tried, written, running, chain, runs>>

GeoipRules == {m \in Matches(conf) : m.kind = "geoip"}

(* The countries of the rules only, not those of the whitelist.            *)
GetGeoip ==
    /\ step = "geoip" /\ step' = "dat"
    /\ srs' \in Downloads(GeoipRules \cap GeoData, srs)
    /\ UNCHANGED <<conf, link, dat, geosite, tried, written, running, chain, runs>>

GetDat ==
    /\ step = "dat" /\ step' = "engine"
    /\ dat' \in IF GeoipRules # {} /\ (conf.full \/ Head(conf.engines) = "xray")
                THEN Downloads(Geo, dat) ELSE {dat}
    /\ UNCHANGED <<conf, link, srs, geosite, tried, written, running, chain, runs>>

-----------------------------------------------------------------------------
(* Engines                                                                 *)

Engine == conf.engines[tried + 1]
SettingsOf(c, g) == Settings([c EXCEPT !.geosite = g])
Current == SettingsOf(conf, geosite)

Generated == IF Engine = "sing-box" THEN Singbox(Current, link, srs)
             ELSE Xray(Current, link, dat)

(* None is no section of a config.                                         *)
ASSUME NoneAssumption ==
    \A c \in Confs : \A g \in SUBSET c.geosite :
        /\ \A files \in SUBSET GeoData : SingboxRoute(SettingsOf(c, g), files) # None
        /\ \A l \in Links : \A files \in SUBSET Geo : Xray(SettingsOf(c, g), l, files).route # None

(* An engine refuses a config that names what is not there.                *)
Loads(cfg) ==
    IF cfg.engine = "sing-box"
    THEN /\ RouteDefined(cfg) /\ DnsDefined(cfg)
         /\ cfg.route # None => cfg.route.sets \subseteq srs
    ELSE (\E m \in SetsOf(cfg.route.rules) : m.kind = "geoip") => "geoip" \in dat

(* tryEngine: the config is written and the engine opens its port,         *)
EngineUp ==
    /\ step = "engine" /\ tried < Len(conf.engines)
    /\ Loads(Generated)
    /\ written' = [written EXCEPT ![Engine] = Generated]
    /\ step' = "up" /\ running' = Engine
    /\ UNCHANGED <<conf, link, srs, dat, geosite, tried, chain, runs>>

(* or it does not, whatever the config.                                    *)
EngineFails ==
    /\ step = "engine" /\ tried < Len(conf.engines)
    /\ written' = [written EXCEPT ![Engine] = Generated]
    /\ tried' = tried + 1
    /\ UNCHANGED <<conf, link, srs, dat, geosite, step, running, chain, runs>>

(* StartChainSingleProcess, with a sing-box of its own.                    *)
StartChain ==
    /\ step = "up" /\ chain = None
    /\ \E c \in Chains : chain' = Chain(c)
    /\ UNCHANGED <<conf, link, srs, dat, geosite, step, tried, written, running, runs>>

(* The engine that ran is not forgotten.                                   *)
SlipStop ==
    /\ step = "up" \/ (step = "engine" /\ tried = Len(conf.engines))
    /\ step' = "off" /\ running' = running /\ chain' = None
    /\ UNCHANGED <<conf, link, srs, dat, geosite, tried, written, runs>>

Stop ==
    /\ step = "up" \/ (step = "engine" /\ tried = Len(conf.engines))
    /\ step' = "off" /\ running' = None /\ chain' = None
    /\ UNCHANGED <<conf, link, srs, dat, geosite, tried, written, runs>>

Next == Run \/ GetGeosite \/ GetGeoip \/ GetDat \/ EngineUp \/ EngineFails
        \/ StartChain \/ Stop

Spec == Init /\ [][Next]_vars

-----------------------------------------------------------------------------
(* Properties                                                              *)

Config == written[running]

(* A client connects to a name, or to an address whose name, if it has     *)
(* one, is sniffed.                                                        *)
Destinations == [name : Names, addr : Addrs, given : {"name", "addr"}]
                \cup [name : {None}, addr : Addrs, given : {"addr"}]

(* The user's rules name "proxy", "direct" and external outbounds that     *)
(* sing-box can be given.                                                  *)
OutboundsExist ==
    \A r \in Range(conf.rules) :
        \/ r.to \in {"proxy", "direct"}
        \/ \E e \in conf.external : e.name = r.to /\ e.scheme \in SingboxSchemes

(* Whatever is downloaded and whatever is missing, the route of the        *)
(* sing-box config and its detours name only outbounds, servers and rule   *)
(* sets that it defines, if the user's rules name outbounds that exist.    *)
RouteIsDefined ==
    written["sing-box"] # None /\ OutboundsExist => RouteDefined(written["sing-box"])

(* The tunnel is not needed to find the server that it leads to, whatever  *)
(* the user's own rules say: neither the outbound that dials the server    *)
(* nor a query for one of its names uses the DNS server behind the tunnel. *)
(* A client's own connection to such a name is resolved there, if there    *)
(* are rules: by then the tunnel is up.                                    *)
ServerFoundWithoutTunnel ==
    running # None =>
        /\ DialServer(Config) # "dns-tunnel"
        /\ \A n \in ServerNames(link) : QueryServer(Config, n) # "dns-tunnel"

(* Domains that are forced through the tunnel go there, by whichever       *)
(* engine, even when they are local, bypassed or in a whitelisted country, *)
(* with one exception: an address in the ranges that xray takes first goes *)
(* direct under xray, whatever name is sniffed for it.                     *)
ForcedIsTunnelled ==
    LET taken(d) == running = "xray" /\ d.given = "addr" /\ <<Ranges, d.addr>> \in Covers
    IN  running # None =>
            \A d \in Destinations : \A x \in Current.force :
                <<Suffix(x), d.name>> \in Covers =>
                    RouteTo(Config, d) = IF taken(d) THEN "direct" ELSE "proxy"

(* The two sections of a sing-box config agree: the DNS rules do not send  *)
(* a query into the tunnel for a name that the first of the user's rules   *)
(* that matches it sends direct. It is about the queries that the DNS      *)
(* rules decide, and not about the resolve action of the route, which      *)
(* names dns-tunnel itself for whatever a client connects to by name.      *)
DnsRulesFollowRoute ==
    running = "sing-box" /\ Current.rules # <<>> =>
        \A n \in Names :
            (Hits(Config.route.rules, {n}) # {} /\ First(Config.route.rules, {n}) = "direct")
                => QueryServer(Config, n) # "dns-tunnel"

(* A fallback from one engine to the other does not change where traffic   *)
(* goes, when both have the geo data that the rules ask for and something  *)
(* to route by: for an address without a name; with rules of the user also *)
(* for an address with a name, and for a name with a public address if no  *)
(* rule is about addresses. It is otherwise for an address that sing-box   *)
(* takes for private and xray does not.                                    *)
AddressRules(s) == \E m \in Matches(s) : m.kind \in {"geoip", "ip_cidr"}
EnginesAgree ==
    LET s == Current
        one == Singbox(s, link, srs)
        two == Xray(s, link, dat)
        Public(a) == <<Private, a>> \notin Covers
        Alike(d) == /\ Public(d.addr) \/ <<Ranges, d.addr>> \in Covers
                    /\ \/ d.name = None
                       \/ s.rules # <<>> /\ d.given = "addr"
                       \/ s.rules # <<>> /\ ~AddressRules(s) /\ Public(d.addr)
    IN  (/\ step = "engine" /\ {m \in Matches(s) : m.kind \in Geo} \subseteq srs /\ dat = Geo
         /\ s.rules # <<>> \/ s.countries # {} \/ s.bypass # {})
        => \A d \in Destinations : Alike(d) => RouteTo(one, d) = RouteTo(two, d)

(* A rule that has once been in force is in every later config: a download *)
(* that fails takes nothing away.                                          *)
RulesStay ==
    [][LET old == written["sing-box"]
           new == written'["sing-box"]
       IN  old # None /\ conf.rules # <<>> =>
             InForce(old.route.rules) \subseteq InForce(new.route.rules)]_vars

(* Traffic that enters a chain passes each of its hops, the last one first *)
(* asked and the first one first dialled; none of them is a plain direct   *)
(* connection, and vision flow is used only where nothing is in between.   *)
ChainPassesEveryHop ==
    chain # None =>
        LET n == Len(chain)
        IN  /\ \E path \in [1..n -> 1..n] :
                 /\ path[n] = n /\ chain[path[1]].detour = None
                 /\ \A i, j \in 1..n : path[i] = path[j] => i = j
                 /\ \A i \in 2..n : chain[path[i]].detour = path[i - 1]
            /\ \A i \in 1..n : /\ chain[i].type # "direct"
                               /\ chain[i].flow => chain[i].detour = None

(* README: Trojan, Shadowsocks and the others are tunnels, and xray takes  *)
(* over when sing-box fails. What runs under the name "proxy" is one.      *)
ProxyIsATunnel ==
    running # None => \A o \in Config.outbounds : o.tag = "proxy" => o.type # "direct"

(* CHANGELOG: rules are left out when their rule set is missing, and local *)
(* names are looked up at the local server. The DNS section names only     *)
(* what the config defines.                                                *)
DnsIsDefined == written["sing-box"] # None => DnsDefined(written["sing-box"])
=============================================================================
