--------------------------- MODULE MCGatewayRoutes ---------------------------
(***************************************************************************)
(* Gateways for GatewayRoutes, in five families that each vary one part:   *)
(* listeners in conflict, hostnames, matches, backends and filters, and    *)
(* network load balancers.                                                 *)
(***************************************************************************)
EXTENDS GatewayRoutes

Com == <<"com">>
A == <<"a">> \o Com
B == <<"b">> \o Com
AA == <<"a", "a">> \o Com
Wild == <<"*">> \o Com
WildA == <<"*", "a">> \o Com
Long == <<"verylong">> \o Com    \* a label of more than 63 letters

\* ---- the parts of a world
Listener(name, port, protocol, hostname) ==
  [name |-> name, port |-> port, protocol |-> protocol, hostname |-> hostname,
   from |-> "Same", kinds |-> {}, passthrough |-> FALSE]
ListenerSet(nn, created, listeners) ==
  [nn |-> nn, ns |-> "n1", created |-> created, wants |-> TRUE, listeners |-> listeners]
ToGw == [parent |-> 0, section |-> "", port |-> 0]
Svc(name) == [name |-> name, kind |-> "Service", port |-> TRUE, cross |-> FALSE, grant |-> "no",
              found |-> "yes", listens |-> TRUE, lb |-> "", weight |-> -1]
NoConfig == [act |-> "", pre |-> "", secret |-> TRUE, ips |-> {}]
RuleOf(matches, backends) ==
  [matches |-> matches, backends |-> backends, filters |-> <<>>, lrc |-> "none",
   config |-> NoConfig]
Route(nn, kind, created, hostnames, rules) ==
  [nn |-> nn, kind |-> kind, ns |-> "n1", created |-> created, hostnames |-> hostnames,
   parents |-> <<ToGw>>, rules |-> rules]
World(controller, listeners, lsets, routes) ==
  [controller |-> controller, ns |-> "n1", selected |-> {"n2"}, allowedListeners |-> "Same",
   listeners |-> listeners, sets |-> lsets, routes |-> routes, addresses |-> {},
   certs |-> {443}, discoverable |-> {A}, quic |-> {}]

Path(type, segs, slash) ==
  [type |-> type, segs |-> segs, slash |-> slash, wild |-> FALSE, language |-> {}]
Http(path) == [path |-> path, method |-> "", headers |-> {}, query |-> {}]
Grpc(type, service, method) ==
  [type |-> type, service |-> service, method |-> method, headers |-> {}]
Root == Path("Prefix", <<>>, TRUE)
All == <<Http(Root)>>

\* ---- listeners of the Gateway and of two ListenerSets, with a route on the first port
AlbListeners == {Listener("l", 80, "HTTP", NoHost), Listener("l", 80, "HTTP", A),
                 Listener("l", 80, "HTTPS", A), Listener("l", 443, "HTTPS", B)}
NlbListeners == {Listener("l", 80, "TCP", NoHost), Listener("l", 80, "UDP", NoHost),
                 Listener("l", 80, "TLS", A), Listener("l", 80, "HTTP", A)}
Conflicts(controller, pool, kind) ==
  {World(controller, <<g>>, {ListenerSet(1, c, <<x>>), ListenerSet(2, 2, <<y>>)},
         {Route(1, kind, 1, {}, <<RuleOf(IF kind = "HTTPRoute" THEN All ELSE <<>>,
                                         <<Svc("s")>>)>>)}) :
     g \in pool, x \in pool, y \in pool, c \in {1, 2, 3}}
Handshakes ==
  {[World("alb", <<Listener("l", 80, "HTTP", NoHost)>>,
          {[ListenerSet(1, 1, <<Listener("m", 81, "HTTP", NoHost)>>)
              EXCEPT !.ns = ns, !.wants = wants]},
          {[Route(1, "HTTPRoute", 1, {}, <<RuleOf(All, <<Svc("s")>>)>>)
              EXCEPT !.ns = rns, !.parents = <<[parent |-> 1, section |-> sec, port |-> port],
                                               ToGw>>]})
      EXCEPT !.allowedListeners = from] :
     ns \in {"n1", "n2", "n3"}, wants \in BOOLEAN, rns \in {"n1", "n2"},
     sec \in {"", "m", "x"}, port \in {0, 80, 81},
     from \in {"None", "Same", "Selector", "All"}}
Families_listeners ==
  Conflicts("alb", AlbListeners, "HTTPRoute") \cup Conflicts("nlb", NlbListeners, "TCPRoute")
    \cup Handshakes

\* ---- hostnames of two listeners on one port and of two routes
HostSets == {{}, {A}, {Wild}, {A, B}, {AA, Wild}, {WildA}, {B, WildA}, {Long, A}}
Families_hosts ==
  {World("alb", <<Listener("l", 80, "HTTP", h1), Listener("m", 80, "HTTP", h2)>>, {},
         {Route(1, "HTTPRoute", 1, s, <<RuleOf(All, <<Svc("s")>>)>>),
          Route(2, "HTTPRoute", 1, t, <<RuleOf(All, <<Svc("t")>>)>>)}) :
     h1 \in {NoHost, A, Wild, Long}, h2 \in {NoHost, AA, Wild, WildA},
     s \in HostSets, t \in {{}, {A}, {Wild, B}}}

\* ---- matches of two routes, and of two rules of one
P1 == <<"p">>
Header == [name |-> "h", values |-> {"v"}]
Matches ==
  {Http(Root), Http(Path("Exact", P1, FALSE)), Http(Path("Prefix", P1, FALSE)),
   Http(Path("Prefix", P1, TRUE)), Http(Path("Prefix", <<"p", "q">>, FALSE)),
   [Http(Root) EXCEPT !.method = "GET"], [Http(Root) EXCEPT !.headers = {Header}],
   [Http(Path("Prefix", P1, FALSE)) EXCEPT !.query = {"k=v"}],
   Http([Path("Regex", P1, FALSE) EXCEPT
           !.language = {Is([segs |-> P1, slash |-> FALSE]), Under(<<"p", "q">>)}])}
GrpcMatches == {Grpc("", "", ""), Grpc("Exact", "p", "q"), Grpc("Exact", "p", ""),
                Grpc("Exact", "", "q"),
                [Grpc("Exact", "p", "") EXCEPT !.headers = {Header}]}
Matched(rs) == World("alb", <<Listener("l", 443, "HTTPS", NoHost)>>, {}, rs)
Families_matches ==
  {Matched({Route(1, "HTTPRoute", c, {}, <<RuleOf(<<m>>, <<Svc("s")>>)>>),
            Route(2, "HTTPRoute", 2, {A}, <<RuleOf(<<n, k>>, <<Svc("t")>>)>>),
            Route(3, "HTTPRoute", 2, {A}, <<RuleOf(<<m>>, <<Svc("u")>>)>>)}) :
     m \in Matches, n \in Matches, k \in {Http(Root), Http(Path("Exact", P1, FALSE))},
     c \in {1, 3}}
  \cup {Matched({Route(1, "GRPCRoute", 1, {A},
                       <<RuleOf(<<m>>, <<Svc("s")>>), RuleOf(<<n>>, <<Svc("t")>>),
                         RuleOf(<<>>, <<Svc("u")>>)>>)}) : m \in GrpcMatches, n \in GrpcMatches}
  \cup {Matched({Route(1, "HTTPRoute", 1, {A}, <<RuleOf(<<m>>, <<Svc("s")>>)>>),
                 Route(1, "GRPCRoute", 1, {A}, <<RuleOf(<<n>>, <<Svc("t")>>)>>)}) :
          m \in Matches, n \in GrpcMatches}

\* ---- backends, filters and ListenerRuleConfigurations of a rule
Backends ==
  LET s == Svc("s")
      g == [s EXCEPT !.kind = "Gateway", !.lb = "app"]
  IN  {s, [s EXCEPT !.port = FALSE], [s EXCEPT !.cross = TRUE],
       [s EXCEPT !.cross = TRUE, !.grant = "yes"], [s EXCEPT !.cross = TRUE, !.grant = "error"],
       [s EXCEPT !.found = "no"], [s EXCEPT !.found = "error"], [s EXCEPT !.listens = FALSE],
       [s EXCEPT !.weight = 0], [s EXCEPT !.weight = 1000], [s EXCEPT !.kind = "Other"],
       [s EXCEPT !.kind = "TargetGroupName"], g, [g EXCEPT !.lb = ""], [g EXCEPT !.lb = "net"]}
Filter(type) == [type |-> type, scheme |-> "", port |-> 0, wild |-> FALSE, prefix |-> {}]
Redirect == [Filter("redirect") EXCEPT !.scheme = "HTTPS"]
Rewrite(segs, slash) ==
  [Filter("rewrite") EXCEPT !.prefix = {[segs |-> segs, slash |-> slash]}]
FilterLists ==
  {<<>>, <<Filter("ext")>>, <<Redirect>>, <<Filter("ext"), [Redirect EXCEPT !.port = 8443]>>,
   <<[Redirect EXCEPT !.scheme = "other"]>>, <<[Redirect EXCEPT !.wild = TRUE]>>,
   <<Filter("mirror")>>, <<Rewrite(<<"c">>, FALSE)>>, <<Rewrite(<<"c">>, FALSE), Redirect>>}
Configs ==
  {NoConfig, [NoConfig EXCEPT !.act = "fixed"], [NoConfig EXCEPT !.act = "redirect"],
   [NoConfig EXCEPT !.pre = "oidc", !.secret = FALSE], [NoConfig EXCEPT !.pre = "cognito"],
   [NoConfig EXCEPT !.ips = {[matches |-> {1}, values |-> {"here"}]}]}
TwoRoutes(kind, match, rule) ==
  {Route(1, kind, 1, {}, <<rule, RuleOf(match, <<Svc("t")>>)>>),
   Route(2, kind, 2, {A}, <<RuleOf(match, <<Svc("u"), [Svc("v") EXCEPT !.found = "no"]>>)>>)}
Families_backends ==
  {Matched(TwoRoutes("HTTPRoute", All,
                     [RuleOf(<<Http(Path("Prefix", P1, FALSE)), Http(Path("Exact", P1, TRUE))>>,
                             <<b, c>>) EXCEPT !.lrc = lrc])) :
     b \in Backends, c \in {Svc("s"), [Svc("s") EXCEPT !.kind = "Other"]},
     lrc \in {"none", "several", "missing", "refused", "error"}}
  \cup {[Matched(TwoRoutes(kind, IF kind = "HTTPRoute" THEN All ELSE <<>>,
                     [RuleOf(IF kind = "HTTPRoute"
                             THEN <<Http([Path("Prefix", P1, FALSE) EXCEPT !.wild = w])>>
                             ELSE <<Grpc("Exact", "p", "")>>, bs)
                        EXCEPT !.filters = fs, !.lrc = "ok", !.config = cfg]))
           EXCEPT !.certs = certs] :
     kind \in L7Kinds, fs \in FilterLists, cfg \in Configs, w \in BOOLEAN,
     bs \in {<<>>, <<Svc("s")>>}, certs \in {{}, {443}}}

\* ---- network load balancers
Families_l4 ==
  {[World("nlb", <<Listener("l", 80, p, NoHost),
                   [Listener("m", 80, q, NoHost) EXCEPT !.passthrough = pass,
                                                       !.kinds = kinds]>>, {},
          {Route(1, "TCPRoute", c, {}, <<RuleOf(<<>>, <<b>>)>>),
           Route(2, "UDPRoute", 2, {}, <<RuleOf(<<>>, <<Svc("t"), Svc("u")>>)>>)})
      EXCEPT !.quic = quic] :
     p \in {"TCP", "UDP", "TLS"}, q \in {"TCP", "UDP", "TLS"}, pass \in BOOLEAN,
     kinds \in {{}, {"TLSRoute"}, {"HTTPRoute"}}, c \in {1, 3},
     b \in {Svc("s"), [Svc("s") EXCEPT !.weight = 0], [Svc("s") EXCEPT !.found = "no"]},
     quic \in {{}, {80}}}

MCWorlds == Families_listeners \cup Families_hosts \cup Families_matches
              \cup Families_backends \cup Families_l4

Request(host, segs, slash) ==
  [host |-> host, path |-> [segs |-> segs, slash |-> slash], method |-> "GET",
   headers |-> {}, query |-> {}, ip |-> "here"]
MCRequests ==
  {Request(h, <<"p">>, FALSE) : h \in {A, B, AA, <<"b", "a">> \o Com, <<"org">>}}
    \cup {Request(A, <<"p", "q">>, FALSE), Request(A, <<"p", "q">>, TRUE),
          Request(A, <<"p">>, TRUE), Request(A, <<"pp">>, FALSE),
          [Request(A, <<"p">>, FALSE) EXCEPT !.method = "POST", !.query = {"k=v"}],
          [Request(A, <<"p", "q">>, FALSE) EXCEPT !.headers = {<<"h", "v">>}, !.ip = "there"]}

\* A rewrite of the prefix /p, of its variant with a slash and of the root.
RewriteWorlds ==
  {Matched({Route(1, "HTTPRoute", 1, {},
                  <<[RuleOf(<<Http(v)>>, <<Svc("s")>>)
                       EXCEPT !.filters = <<Rewrite(<<"c">>, slash)>>]>>)}) :
     v \in {Path("Prefix", P1, FALSE), Path("Prefix", P1, TRUE), Root}, slash \in BOOLEAN}

MCHostOrder == <<Wild, WildA, AA, A, B, Long>>
MCLength == [t \in {"*", "a", "b", "com", "p", "q", "c"} |-> 1] @@ [t \in {"pp"} |-> 2]
              @@ [t \in {"verylong"} |-> 64]
==============================================================================
