--------------------------- MODULE EngineConfig ----------------------------
(***************************************************************************)
(* internal/tunnel/configgen.go: what is written into the configuration of *)
(* sing-box and of xray, and what the engines make of it. A matcher stands *)
(* for a set of names or of addresses; the first rule with a matcher for a *)
(* destination decides. Names, lists of domains and keys are values.       *)
(***************************************************************************)
EXTENDS Naturals, Sequences, SequencesExt

CONSTANTS
    Names, Addrs,  \* host names and addresses
    Covers,        \* pairs of a matcher and a name or an address it stands for
    None

Matcher(kind, val) == [kind |-> kind, val |-> val]
Site(c)    == Matcher("geosite", c)
Ip(c)      == Matcher("geoip", c)
Suffix(x)  == Matcher("domain_suffix", x)
Keyword(x) == Matcher("keyword", x)    \* a bare string in xray: any part of a name
Exact(x)   == Matcher("domain", x)
Private    == Matcher("private", None) \* sing-box: ip_is_private
Ranges     == Matcher("ranges", None)  \* xray: the ranges that the code lists
Everything == Matcher("any", None)

Geo == {"geosite", "geoip"}

(* Names and addresses are matched by different kinds; a name matches      *)
(* itself; xray's bare string is looser than a suffix. The ranges that are *)
(* listed for xray are private for sing-box, which knows of more of them,  *)
(* the link-local ones for instance.                                       *)
ASSUME CoversAssumption ==
    /\ None \notin Names \cup Addrs /\ Names \cap Addrs = {}
    /\ \A p \in Covers : IF p[1].kind \in {"geoip", "ip_cidr", "private", "ranges"}
                         THEN p[2] \in Addrs ELSE p[2] \in Names
    /\ \A n \in Names : <<Exact(n), n>> \in Covers
    /\ \A p \in Covers : p[1].kind = "domain_suffix"
                            => <<Keyword(p[1].val), p[2]>> \in Covers
    /\ \A a \in Addrs : <<Ranges, a>> \in Covers => <<Private, a>> \in Covers

(* A rule without matchers is one that is not written.                     *)
Rule(on, to) == [on |-> on, to |-> to]
InForce(rules) == {r \in Range(rules) : r.on # {}}

(* The last default of the user's rules.                                   *)
FinalOf(rules) ==
    LET defaults == {i \in DOMAIN rules : rules[i].match.kind = "default"}
    IN  IF defaults = {} THEN "proxy"
        ELSE rules[CHOOSE i \in defaults : \A j \in defaults : j <= i].to

-----------------------------------------------------------------------------
(* The settings of the generator                                           *)

(* startEngine: the rules or, without any, the whitelist; the countries    *)
(* stand in for a list of geosites that is empty.                          *)
Settings(c) ==
    LET old(x) == IF c.rules = <<>> THEN x ELSE {}
    IN  [rules     |-> c.rules,
         external  |-> IF c.rules = <<>> THEN {} ELSE c.external,
         countries |-> old(c.countries),
         geosite   |-> old(IF c.geosite = {} THEN c.countries ELSE c.geosite),
         bypass    |-> old(c.bypass),
         force     |-> old(c.force),
         local     |-> {e \in c.local : e.server # None /\ e.domains # {}},
         native    |-> c.enabled /\ c.nativeTun]

(* The rules for local names, which all say the same, as one.              *)
LocalRule(s, to) == Rule({Suffix(x) : x \in UNION {e.domains : e \in s.local}}, to)

(* The rules of the user, of which those for other matchers are left out.  *)
UserRules(s, kept) ==
    [i \in DOMAIN s.rules |-> Rule({s.rules[i].match} \cap kept, s.rules[i].to)]

Matches(s) == {r.match : r \in Range(s.rules)}

-----------------------------------------------------------------------------
(* sing-box: outbounds                                                     *)

(* BuildSingboxOutbound: an ssh link is the SOCKS port of its ssh process; *)
(* what is not known is a direct connection.                               *)
SingboxOutbound(link) ==
    [type   |-> CASE link.protocol \in {"socks5", "ssh"} -> "socks"
                  [] link.protocol \in {"vmess", "vless", "trojan", "shadowsocks",
                                        "wireguard", "http"} -> link.protocol
                  [] OTHER -> "direct",
     flow   |-> link.protocol = "vless" /\ link.flow,
     detour |-> None]

With(tag, o) == [tag |-> tag, type |-> o.type, flow |-> o.flow, detour |-> o.detour]
Direct == [type |-> "direct", flow |-> FALSE, detour |-> None]

(* An external outbound whose URL has no port or an unknown scheme is left *)
(* out.                                                                    *)
SingboxSchemes == {"socks5", "socks5h", "socks4", "http", "https"}
SingboxExternals(s) ==
    { With(e.name, [Direct EXCEPT !.type = "external"]) :
      e \in {x \in s.external : x.scheme \in SingboxSchemes} }

SingboxOutbounds(s, link) ==
    LET own == SingboxOutbound(link)
    IN  {With("proxy", IF link.chained THEN [own EXCEPT !.detour = "chain-out"] ELSE own),
         With("direct", Direct)}
        \cup (IF link.chained
              THEN {With("chain-out", [Direct EXCEPT !.type = "socks"])}
              ELSE {})
        \cup SingboxExternals(s)

-----------------------------------------------------------------------------
(* sing-box: the route section. srs is the set of the rule sets on disk.   *)

(* The bypass comes first.                                                 *)
SlipLegacyRules(s, srs) ==
    << Rule({Suffix(x) : x \in s.bypass}, "direct"),
       Rule({Suffix(x) : x \in s.force}, "proxy"),
       LocalRule(s, "direct"),
       Rule({Private}, "direct"),
       Rule({Site(c) : c \in s.geosite} \cap srs, "direct"),
       Rule({Ip(c) : c \in s.countries}, "direct") >>

(* singboxRoute, without rules: the geosites that are on disk, and all the *)
(* countries.                                                              *)
LegacyRules(s, srs) ==
    << Rule({Suffix(x) : x \in s.force}, "proxy"),
       LocalRule(s, "direct"),
       Rule({Suffix(x) : x \in s.bypass}, "direct"),
       Rule({Private}, "direct"),
       Rule({Site(c) : c \in s.geosite} \cap srs, "direct"),
       Rule({Ip(c) : c \in s.countries}, "direct") >>

(* The file of the rule set is not looked for.                             *)
SlipTranslated(s, srs) ==
    {m \in Matches(s) : m.kind \in {"domain", "domain_suffix", "ip_cidr"} \cup Geo}

(* singboxRuleFromMatcher: a rule whose file is missing, or whose kind is  *)
(* not known, is left out.                                                 *)
Translated(s, srs) ==
    {m \in Matches(s) : \/ m.kind \in {"domain", "domain_suffix", "ip_cidr"}
                        \/ m.kind \in Geo /\ m \in srs}

(* singboxRouteFromRules                                                   *)
ModernRules(s, srs) ==
    <<Rule({Private}, "direct"), LocalRule(s, "direct")>> \o UserRules(s, Translated(s, srs))

(* The rule sets that are defined: for each rule of geo data that is kept, *)
(* each geosite on disk, each country.                                     *)
RuleSets(s, srs) ==
    IF s.rules # <<>> THEN Matches(s) \cap srs
    ELSE ({Site(c) : c \in s.geosite} \cap srs) \cup {Ip(c) : c \in s.countries}

(* The resolver is the server that the resolve action asks for the name a  *)
(* client connects to; "dials" is default_domain_resolver, which is asked  *)
(* for the names of the servers that the outbounds dial.                   *)
SingboxRoute(s, srs) ==
    IF s.rules # <<>>
    THEN [rules |-> ModernRules(s, srs), sets |-> RuleSets(s, srs),
          final |-> FinalOf(s.rules), resolver |-> "dns-tunnel", dials |-> "dns-direct"]
    ELSE [rules |-> LegacyRules(s, srs), sets |-> RuleSets(s, srs),
          final |-> "proxy", resolver |-> "dns-direct", dials |-> "dns-direct"]

-----------------------------------------------------------------------------
(* sing-box: the DNS section                                               *)

ServerNames(link) == {link.address, link.sni, link.host} \cap Names

(* Nothing is said of the names of the proxy server.                       *)
SlipServerRule(link) == Rule({}, "dns-direct")

ServerRule(link) == Rule({Exact(n) : n \in ServerNames(link)}, "dns-direct")

(* The geosites of the user have no counterpart.                           *)
SlipDirectDNS(s, srs) ==
    LET direct == {r.match : r \in {q \in Range(s.rules) : q.to = "direct"}}
        kept   == {m \in direct : m.kind \in {"geoip", "domain_suffix", "domain"}}
    IN  [i \in DOMAIN s.rules |->
            Rule(IF s.rules[i].to = "direct" THEN {s.rules[i].match} \cap kept ELSE {},
                 "dns-direct")]

(* A query for what goes direct goes direct: the direct rules of the user, *)
(* of them the geosites that are on disk and every geoip; or the geosites  *)
(* on disk.                                                                *)
DirectDNS(s, srs) ==
    LET kept == {m \in Matches(s) : \/ m.kind \in {"geoip", "domain_suffix", "domain"}
                                    \/ m.kind = "geosite" /\ m \in srs}
    IN  IF s.rules # <<>>
        THEN [i \in DOMAIN s.rules |->
                 Rule(IF s.rules[i].to = "direct" THEN {s.rules[i].match} \cap kept ELSE {},
                      "dns-direct")]
        ELSE <<Rule({Site(c) : c \in s.geosite} \cap srs, "dns-direct")>>

(* singboxDNS: the local rules come first, then the names of the proxy     *)
(* server. The local servers are appended to a slice that the section no   *)
(* longer holds.                                                           *)
SingboxDNS(s, link, srs) ==
    LET tunnel == [tag |-> "dns-tunnel", detour |-> "proxy"]
        direct == [tag |-> "dns-direct", detour |-> None]
    IN  IF /\ ~s.native /\ s.geosite = {} /\ s.countries = {}
           /\ s.rules = <<>> /\ s.local = {}
        THEN [servers |-> {direct}, rules |-> <<>>, final |-> "dns-direct"]
        ELSE [servers |-> {tunnel, direct},
              rules   |-> <<LocalRule(s, "dns-local"), ServerRule(link)>> \o DirectDNS(s, srs),
              final   |-> "dns-tunnel"]

(* generateSingBox: no route and no DNS for a plain proxy.                 *)
Routed(s) == \/ s.native \/ s.rules # <<>> \/ s.countries # {} \/ s.bypass # {}
             \/ s.geosite # {} \/ s.local # {}

Singbox(s, link, srs) ==
    [engine    |-> "sing-box",
     outbounds |-> SingboxOutbounds(s, link),
     route     |-> IF Routed(s) THEN SingboxRoute(s, srs) ELSE None,
     dns       |-> IF Routed(s) THEN SingboxDNS(s, link, srs) ELSE None]

-----------------------------------------------------------------------------
(* xray. dat is the set of the kinds of geo data on disk.                  *)

(* xrayOutbounds: what is not known is a direct connection.                *)
XrayOutbounds(s, link) ==
    { With("proxy", [type |-> IF link.protocol \in {"vmess", "vless", "socks5", "http"}
                              THEN link.protocol ELSE "direct",
                     flow |-> link.flow, detour |-> None]),
      With("direct", Direct) }
    \cup { With(e.name, [Direct EXCEPT !.type = "external"]) :
           e \in {x \in s.external : x.scheme \in SingboxSchemes \cup {"socks"}} }

(* xrayRuleFromMatcher: a geosite needs its file, a geoip is not checked.  *)
XrayTranslated(s, dat) ==
    {m \in Matches(s) : \/ m.kind \in {"domain", "domain_suffix", "ip_cidr", "geoip"}
                        \/ m.kind = "geosite" /\ "geosite" \in dat}

(* Nothing ends the list.                                                  *)
SlipXrayModernRules(s, dat) ==
    <<Rule({Ranges}, "direct"), LocalRule(s, "direct")>>
    \o UserRules(s, XrayTranslated(s, dat))

(* xrayRouteFromRules: a rule for everything that is left ends the list.   *)
XrayModernRules(s, dat) ==
    <<Rule({Ranges}, "direct"), LocalRule(s, "direct")>>
    \o UserRules(s, XrayTranslated(s, dat))
    \o <<Rule({Everything}, FinalOf(s.rules))>>

(* generateXray, without rules: force and bypass are bare strings; local   *)
(* names alone make no route.                                              *)
XrayLegacyRules(s) ==
    IF s.countries = {} /\ s.bypass = {} /\ s.force = {} THEN <<>>
    ELSE << Rule({Ranges}, "direct"),
            Rule({Keyword(x) : x \in s.force}, "proxy"),
            LocalRule(s, "direct"),
            Rule({Keyword(x) : x \in s.bypass}, "direct"),
            Rule({Ip(c) : c \in s.countries}, "direct") >>

(* xrayDNSConfig: local names, then the proxy server and the bypass direct;*)
(* everything else through the proxy.                                      *)
XrayDNS(s, link) ==
    << LocalRule(s, "dns-local"),
       Rule({Exact(n) : n \in ServerNames(link)} \cup {Suffix(x) : x \in s.bypass},
            "dns-direct") >>

Xray(s, link, dat) ==
    [engine    |-> "xray",
     outbounds |-> XrayOutbounds(s, link),
     route     |-> [rules |-> IF s.rules # <<>> THEN XrayModernRules(s, dat)
                              ELSE XrayLegacyRules(s),
                    sets |-> {}, final |-> "proxy", resolver |-> None,
                    dials |-> "system"],
     dns       |-> [servers |-> {}, rules |-> XrayDNS(s, link), final |-> "dns-tunnel"]]

-----------------------------------------------------------------------------
(* A chain in one process                                                  *)

(* Each hop dials the next one.                                            *)
SlipChain(links) ==
    [i \in DOMAIN links |->
        [SingboxOutbound(links[i])
           EXCEPT !.detour = IF i = Len(links) THEN None ELSE i + 1,
                  !.flow = @ /\ i = 1]]

(* buildChainOutbounds: each hop is reached through the one before; vision *)
(* flow does not survive that. Traffic enters at the last hop.             *)
Chain(links) ==
    [i \in DOMAIN links |->
        [SingboxOutbound(links[i])
           EXCEPT !.detour = IF i = 1 THEN None ELSE i - 1, !.flow = @ /\ i = 1]]

-----------------------------------------------------------------------------
(* What the engines make of it                                             *)

Holds(rule, things) == \E m \in rule.on : m = Everything \/ \E t \in things : <<m, t>> \in Covers

Hits(rules, things) == {i \in DOMAIN rules : Holds(rules[i], things)}
First(rules, things) == LET hits == Hits(rules, things)
                        IN  rules[CHOOSE i \in hits : \A j \in hits : i <= j].to

Pick(rules, things, otherwise) ==
    IF Hits(rules, things) = {} THEN otherwise ELSE First(rules, things)

(* A client gives a name, or an address whose name, if any, is sniffed.    *)
(* sing-box has both before it matches, since it resolves what it is given.*)
(* So has xray for an address (routeOnly); a name that it is given it      *)
(* matches alone and, if no rule holds, with its address (IPIfNonMatch). A *)
(* config without a route uses its first outbound.                         *)
RouteTo(cfg, d) ==
    LET rules == cfg.route.rules
        both  == {d.name, d.addr} \ {None}
    IN  IF cfg.route = None THEN "proxy"
        ELSE IF cfg.engine = "xray" /\ d.given = "name"
        THEN Pick(rules, {d.name}, Pick(rules, both, cfg.route.final))
        ELSE Pick(rules, both, cfg.route.final)

(* The server that the DNS section chooses for a query that names none.    *)
QueryServer(cfg, name) ==
    IF cfg.dns = None THEN "system" ELSE Pick(cfg.dns.rules, {name}, cfg.dns.final)

(* The server asked for the name of the server that an outbound dials.     *)
DialServer(cfg) == IF cfg.route = None THEN "system" ELSE cfg.route.dials

Tags(cfg) == {o.tag : o \in cfg.outbounds}
SetsOf(rules) == {m \in UNION {r.on : r \in Range(rules)} : m.kind \in Geo}

(* Every outbound, server and rule set that the route and the detours of   *)
(* a sing-box config name is defined.                                      *)
RouteDefined(cfg) ==
    /\ \A o \in cfg.outbounds : o.detour \in Tags(cfg) \cup {None}
    /\ cfg.route # None =>
         /\ \A r \in InForce(cfg.route.rules) : r.to \in Tags(cfg)
         /\ cfg.route.final \in Tags(cfg)
         /\ SetsOf(cfg.route.rules) \subseteq cfg.route.sets
         /\ {cfg.route.resolver, cfg.route.dials} \subseteq {v.tag : v \in cfg.dns.servers}

(* And every server and rule set that its DNS section names.               *)
DnsDefined(cfg) ==
    cfg.dns # None =>
        /\ \A v \in cfg.dns.servers : v.detour \in Tags(cfg) \cup {None}
        /\ {r.to : r \in InForce(cfg.dns.rules)} \cup {cfg.dns.final}
             \subseteq {v.tag : v \in cfg.dns.servers}
        /\ SetsOf(cfg.dns.rules) \subseteq cfg.route.sets
=============================================================================
