---------------------------- MODULE MCConfigGen ----------------------------
(* Instances of ConfigGen for TLC.                                         *)
EXTENDS ConfigGen

MCNames == {"server", "home", "shop", "news"}
MCAddrs == {"lan", "linklocal", "iran", "world"}

(* shop and the server are under .ir; "ir" is also a part of news.         *)
MCCovers ==
    {<<Exact(n), n>> : n \in MCNames}
    \cup {<<Suffix("ir"), n>> : n \in {"shop", "server"}}
    \cup {<<Keyword("ir"), n>> : n \in {"shop", "server", "news"}}
    \cup {<<Suffix("home"), "home">>, <<Keyword("home"), "home">>}
    \cup {<<Site("ir"), "shop">>, <<Ip("ir"), "iran">>,
          <<Private, "lan">>, <<Ranges, "lan">>, <<Private, "linklocal">>,
          <<Matcher("ip_cidr", "block"), "world">>}

MCGeoData == {Site("ir"), Ip("ir")}

Base == [rules |-> <<>>, external |-> {}, countries |-> {}, geosite |-> {}, bypass |-> {},
         force |-> {}, local |-> {}, enabled |-> TRUE, nativeTun |-> FALSE,
         engines |-> <<"sing-box", "xray">>, full |-> FALSE]

HomeDNS == {[server |-> "router", domains |-> {"home"}]}

Some == [match : {Site("ir"), Ip("ir"), Exact("shop"), Suffix("ir"),
                  Matcher("ip_cidr", "block"), Matcher("other", None)},
         to : {"proxy", "direct"}]
Others == [match : {Site("ir"), Exact("news")}, to : {"office"}]
Defaults == [match : {Matcher("default", None)}, to : {"proxy", "direct"}]

RuleLists == {<<r>> : r \in Some \cup Others}
             \cup {<<q, r>> : q \in Some \cup Others, r \in Some \cup Defaults}
             \cup {<<d, r>> : d \in Defaults, r \in Some}

Modern == [Base EXCEPT !.external = {[name |-> "office", scheme |-> "socks5"]}]

(* A rule for an outbound that is not there.                               *)
Gone == [match |-> Exact("news"), to |-> "gone"]

MCConfs ==
    {[Modern EXCEPT !.rules = r] : r \in RuleLists \cup {<<Gone>>}}
    \cup {[Modern EXCEPT !.rules = <<r>>, !.local = HomeDNS, !.nativeTun = n, !.full = n] :
          r \in Some, n \in BOOLEAN}
    \cup {[Base EXCEPT !.countries = c, !.geosite = g, !.bypass = b, !.force = f,
                       !.local = l, !.nativeTun = n] :
          c \in {{}, {"ir"}}, g \in {{}, {"ir"}}, b \in {{}, {"ir"}},
          f \in {{}, {"ir"}, {"home"}}, l \in {{}, HomeDNS}, n \in BOOLEAN}

(* Local names, and nothing else to route by.                              *)
MCLocalConfs == {[Base EXCEPT !.local = HomeDNS]}

Link(protocol, chained) ==
    [protocol |-> protocol, address |-> "server", sni |-> "news", host |-> None,
     flow |-> protocol = "vless", chained |-> chained]

MCLinks == {Link("vless", TRUE), Link("trojan", FALSE)}

MCChains == {<<Link("vless", FALSE)>>,
             <<Link("vless", FALSE), Link("trojan", FALSE), Link("vless", FALSE)>>}
=============================================================================
