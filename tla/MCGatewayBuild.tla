----------------------------- MODULE MCGatewayBuild -----------------------------
(* Gateways to build a load balancer for.                                        *)
EXTENDS GatewayBuild, MCNetwork

Settings(f, V) == {None} \cup {(f :> v) : v \in V}
Plain(port) == port @@ [h2c |-> FALSE]
P80 == Plain(Port("web", 80, "TCP"))
P443 == Plain(Port("tls", 443, "TCP"))
D53 == Plain(Port("dns", 53, "UDP"))
Service == [ports |-> <<P80, P443, D53>>, local |-> FALSE, healthCheckNodePort |-> 32000, ipv6 |-> FALSE]

Listen(protocol, port) == [protocol |-> protocol, port |-> port, passthrough |-> FALSE]
Ref(port, weight) == [kind |-> "Service", name |-> "s", port |-> port, weight |-> weight]
Route(kind, name, refs) == [kind |-> kind, ns |-> "ns", name |-> name, created |-> 1, rank |-> 1, refs |-> refs]

MCFlags == [backendSG |-> TRUE, restricted |-> TRUE, defaultTagsLowPriority |-> FALSE]
MCDefaults == [scheme |-> "internal", targetType |-> "instance", sslPolicy |-> "default",
               tags |-> ("cluster" :> "mine"), externalTags |-> {"external"}]
World(type, listeners, rs) ==
    [type |-> type, class |-> {}, gateway |-> {}, tgcs |-> None, services |-> ("s" :> Service), listeners |-> listeners, routes |-> rs,
     flags |-> MCFlags, defaults |-> MCDefaults, vpc |-> VPC, existing |-> {}, existingTGs |-> {"tg"}, discoverable |-> {443},
     trustStores |-> {"store"}, deleting |-> FALSE, addons |-> {}]
TGC(target, default, rs) == [target |-> target, default |-> default, routes |-> rs]
ForService(default) == "own" :> TGC({<<"Service", "s">>}, default, <<>>)

NLB80 == World("network", <<Listen("TCP", 80)>>, 80 :> <<Route("TCPRoute", "r", <<Ref(80, 1)>>)>>)
NLB53(both) == World("network", <<Listen("UDP", 53)>> \o (IF both THEN <<Listen("TCP", 53)>> ELSE <<>>), 53 :> <<Route("UDPRoute", "r", <<Ref(53, 1)>>)>>)
NLB443 == World("network", <<Listen("TLS", 443)>>, 443 :> <<Route("TLSRoute", "r", <<Ref(443, 1)>>)>>)
ALB == World("application", <<Listen("HTTP", 80), Listen("HTTPS", 443)>>,
             (80 :> <<Route("HTTPRoute", "r", <<Ref(80, 1)>>)>>) @@ (443 :> <<Route("GRPCRoute", "g", <<Ref(443, 1), Ref(80, 2)>>)>>))

-------------------------------------------------------------------------------
\* What the targets are sent, and who may send it.
Quic(w) == "listenerConfigurations" :> [k \in {<<IF Len(w.listeners) = 2 THEN "TCP_UDP" ELSE "UDP", 53>>} |-> ("quicEnabled" :> TRUE)]
TargetWorlds ==
    {[w EXCEPT !.gateway = {d @@ r @@ s @@ (IF quic THEN Quic(w) ELSE None)}, !.tgcs = ForService(t @@ h @@ p), !.flags.backendSG = sg,
               !.services["s"].local = local, !.services["s"].ports[2].targetPort = <<"name", "pod">>] :
        w \in {NLB80, NLB53(FALSE), NLB53(TRUE), NLB443, ALB}, d \in Settings("disableSecurityGroup", {TRUE}),
        r \in Settings("sourceRanges", {<<>>, <<"office">>, <<"any4">>, <<"vpc4", "office-host-bits">>}), s \in Settings("scheme", {"internet-facing"}),
        t \in Settings("targetType", {"ip"}),
        h \in Settings("healthCheckConfig", {"port" :> <<"int", 7000>>, "port" :> <<"name", "web">>, "port" :> <<"int", 8080>>}),
        p \in Settings("targetGroupAttributes", {PreserveKey :> "true", PreserveKey :> "maybe"}), sg \in BOOLEAN, local \in BOOLEAN, quic \in BOOLEAN}
Group(w) == \A g \in w.gateway : Ann(g, "securityGroups", {}) # {} \/ ~Ann(g, "disableSecurityGroup", FALSE)
\* TCP that is not opened for a TCP_UDP target group whose health checks have a port of their own.
Unopened(w) ==
    LET props == w.tgcs["own"].default
        ip == Ann(props, "targetType", "instance") = "ip"
        hc == Ann(props, "healthCheckConfig", None)
    IN /\ Len(w.listeners) = 2 /\ w.type = "network" /\ Group(w) /\ w.flags.restricted
       /\ "port" \in DOMAIN hc \/ (w.services["s"].local /\ ~ip)
FamilyWorlds ==
    {[w EXCEPT !.gateway = {d @@ r @@ ("ipAddressType" :> i)}, !.tgcs = ForService(t), !.services["s"].ipv6 = TRUE] :
        w \in {NLB80, NLB53(TRUE), ALB}, d \in Settings("disableSecurityGroup", {TRUE}), r \in Settings("sourceRanges", {<<"office6">>, <<"not a range">>}),
        i \in {"ipv4", "dualstack", "dualstack-without-public-ipv4", "ipv6"}, t \in Settings("targetType", {"ip"})}
GroupWorlds ==
    {[w EXCEPT !.gateway = {g @@ m @@ l @@ r @@ i}, !.flags.backendSG = b, !.flags.restricted = x] :
        w \in {NLB53(TRUE), ALB}, g \in Settings("securityGroups", {{"sg1"}, {"unknown"}}),
        m \in Settings("manageBackendSecurityGroupRules", BOOLEAN), l \in Settings("securityGroupPrefixes", {{"pl"}}),
        r \in Settings("sourceRanges", {<<"office", "office6">>}), i \in Settings("enableICMP", {TRUE}), b \in BOOLEAN, x \in BOOLEAN}

-------------------------------------------------------------------------------
\* Subnets, schemes and addresses.
Rows(f, values) == [k \in DOMAIN values |-> f :> values[k]]
Both2(a, b) == [k \in DOMAIN a |-> a[k] @@ b[k]]
Named == Rows("identifier", Refs(<<1, 3>>))
SubnetLists ==
    {Named, Rows("identifier", Refs(<<1, 2>>)), Rows("identifier", Refs(<<3>>)), Rows("identifier", <<<<"name", "net">>, <<"name", "private">>>>),
     Rows("eip", <<"e1", "e2">>), Rows("ipv6", <<"b3", "b1">>), <<"eip" :> "e1", "identifier" :> <<"id", 1>>>>}
    \cup {Both2(Named, x) : x \in {Rows("eip", <<"e1", "e2">>), Rows("ipv4", <<"a3", "a1">>), Rows("ipv4", <<"a1", "bad">>), Rows("ipv4", <<"a1", "a1">>),
                                  Rows("ipv6", <<"b3", "b1">>), Rows("ipv6", <<"b1", "a1">>), Rows("nat", <<AutoAssigned, Prefix("b3")>>),
                                  Rows("nat", <<Prefix("b3"), Prefix("b1")>>), Both2(Rows("ipv4", <<"a1", "a3">>), Rows("ipv6", <<"b1", "b3">>))}}
PlaceWorlds ==
    {[w EXCEPT !.gateway = {i @@ s @@ n @@ t}, !.existing = e, !.vpc = v] :
        w \in {NLB80, ALB}, i \in Settings("ipAddressType", {"dualstack", "dualstack-without-public-ipv4"}), s \in Settings("scheme", {"internet-facing", "other"}),
        n \in Settings("loadBalancerSubnets", SubnetLists), t \in Settings("loadBalancerSubnetsSelector", {{[key |-> "role/internal-elb", values |-> {"1", ""}]}}),
        e \in {{}, {[scheme |-> "internal", subnets |-> <<2, 3>>]}, {[scheme |-> "internet-facing", subnets |-> <<1>>]}}, v \in VPCs}

-------------------------------------------------------------------------------
\* Configurations of the class, the Gateway, the Services and the routes.
LBCs(name, f, other) ==
    {("defaultTargetGroupConfiguration" :> name) @@ ("tags" :> (other :> name)) @@ ("loadBalancerAttributes" :> (("a" :> name) @@ (other :> "1"))) @@ x @@ f :
        x \in {None, "listenerConfigurations" :> (<<"HTTPS", 443>> :> (("sslPolicy" :> name) @@ ("certificates" :> <<name>>)))}}
ForRoute(kind, ns, name, props) == [kind |-> kind, ns |-> ns, name |-> name, props |-> props]
Label(l) == ("targetGroupName" :> l) @@ ("tags" :> (("by" :> l) @@ (l :> "1"))) @@ ("targetGroupAttributes" :> (("a" :> l) @@ (l :> "1")))
RouteConfigs(l) ==
    {<<>>, <<ForRoute("GRPCRoute", "", "", Label(l)), ForRoute("HTTPRoute", "", "", Label(l \o "1"))>>,
     <<ForRoute("HTTPRoute", "", "", Label(l)), ForRoute("HTTPRoute", "ns", "r", "targetType" :> "ip"), ForRoute("HTTPRoute", "ns", "", Label(l \o "2"))>>,
     <<ForRoute("HTTPRoute", "ns", "", Label(l)), ForRoute("HTTPRoute", "ns", "", Label(l \o "2")), ForRoute("HTTPRoute", "ns", "other", Label(l \o "3"))>>}
Defaults(l) == {None, ("healthCheckConfig" :> (("path" :> l) @@ ("interval" :> 7))) @@ ("tags" :> ("by" :> l)), ("targetType" :> "ip") @@ ("protocol" :> "HTTPS")}
MergeWorlds ==
    {[ALB EXCEPT !.class = c, !.gateway = g, !.flags.defaultTagsLowPriority = low,
                 !.tgcs = ("own" :> TGC({<<"Service", "s">>}, "protocolVersion" :> "HTTP2", own)) @@ ("c" :> TGC({}, d, rs)) @@ ("g" :> TGC({}, e, qs))] :
        c \in {{}} \cup {{x} : x \in LBCs("c", None, "c") \cup LBCs("c", ("mergingMode" :> "prefer-gateway") @@ ("scheme" :> "internal"), "c")},
        g \in {{}} \cup {{x} : x \in LBCs("g", "scheme" :> "internet-facing", "g") \cup LBCs("g", "mergingMode" :> "prefer-gateway", "g")},
        own \in RouteConfigs("s"), d \in Defaults("c"), e \in Defaults("g"), rs \in {<<>>, <<ForRoute("HTTPRoute", "ns", "", Label("c"))>>},
        qs \in {<<>>, <<ForRoute("GRPCRoute", "", "", Label("g"))>>}, low \in BOOLEAN}
\* Defaults that cannot be used, settings that fail, one configuration for everything.
AloneWorlds ==
    {[w EXCEPT !.class = c, !.gateway = g, !.tgcs = ("own" :> TGC({<<"Service", "s">>}, p, <<>>)) @@ ("c" :> TGC({}, "targetType" :> "ip", <<>>))] :
        w \in {NLB80, ALB},
        c \in {{}, {"defaultTargetGroupConfiguration" :> "c"}, {("scheme" :> "internet-facing") @@ ("loadBalancerName" :> "c")}},
        g \in {{}, {"defaultTargetGroupConfiguration" :> "own"}, {"defaultTargetGroupConfiguration" :> "missing"}, {"tags" :> ("external" :> "1")},
               {("loadBalancerName" :> "g") @@ ("privateLink" :> "on") @@ ("customerOwnedIpv4Pool" :> "pool")}},
        p \in {None, "tags" :> ("external" :> "1"), "protocol" :> "HTTPS", "protocol" :> "TLS", "nodeSelector" :> "zone", "enableMultiCluster" :> TRUE,
               "healthCheckConfig" :> ("port" :> <<"name", "none">>), ("healthCheckConfig" :> ("protocol" :> "HTTP") @@ ("path" :> "/up")) @@ ("targetType" :> "ip")}}

-------------------------------------------------------------------------------
\* Listeners and their settings.
ListenerWorlds ==
    {[w EXCEPT !.gateway = {"listenerConfigurations" :> (key :> (q @@ a @@ ssl @@ cert @@ m @@ st))}, !.discoverable = found] :
        w \in {NLB443, NLB53(TRUE), ALB, [ALB EXCEPT !.listeners = @ \o <<Listen("HTTP", 443)>>], [NLB443 EXCEPT !.listeners[1].passthrough = TRUE],
               [NLB443 EXCEPT !.listeners = @ \o <<Listen("TCP", 80)>>]},
        key \in {<<"TLS", 443>>, <<"TCP", 443>>, <<"HTTPS", 443>>, <<"UDP", 53>>, <<"TCP_UDP", 53>>}, q \in Settings("quicEnabled", {TRUE}),
        a \in Settings("alpnPolicy", {"HTTP2Only", "other"}), ssl \in Settings("sslPolicy", {"new"}),
        cert \in {None, "certificates" :> <<"c1", "c2">>, ("certificates" :> <<"c1">>) @@ ("defaultCertificate" :> <<"c0">>)},
        m \in Settings("mutualAuthentication", {[mode |-> "verify", trustStore |-> "store", ignoreExpiry |-> {}],
                                                [mode |-> "verify", trustStore |-> "missing", ignoreExpiry |-> {}],
                                                [mode |-> "passthrough", trustStore |-> "", ignoreExpiry |-> {TRUE}]}),
        st \in Settings("targetGroupStickiness", {TRUE}), found \in {{}, {443}}}

-------------------------------------------------------------------------------
\* Routes: several on one listener, one on several, and what they send to.
Alb(port, weight) == [kind |-> "Gateway", name |-> "alb", port |-> port, weight |-> weight]
Literal(name) == [kind |-> "TargetGroupName", name |-> name, port |-> 0, weight |-> 1]
RefLists == {<<>>, <<Ref(80, 0)>>, <<Ref(80, 0), Ref(443, 3)>>, <<Ref(80, 1), Ref(80, 1)>>, <<Alb(80, 1)>>, <<Literal("tg"), Ref(80, 5)>>, <<Literal("gone")>>}
RouteWorlds ==
    {[NLB80 EXCEPT !.listeners = <<Listen("TCP", 80), Listen("TCP", 81)>> \o IF udp THEN <<Listen("UDP", 80)>> ELSE <<>>,
                   !.routes = LET r == [Route("TCPRoute", "r", a) EXCEPT !.created = x, !.rank = 2]
                                  q == Route("TCPRoute", "q", b)
                              IN (80 :> <<r, q>>) @@ (81 :> IF udp THEN <<[q EXCEPT !.name = "z"]>> ELSE <<r>>),
                   !.tgcs = ("own" :> TGC({<<"Service", "s">>}, None, <<ForRoute("TCPRoute", "ns", "r", n)>>)) @@ ("alb" :> TGC({<<"Gateway", "alb">>}, h, <<>>)),
                   !.services["s"].ports[1].nodePort = node] :
        a \in RefLists, b \in RefLists, x \in 0..2, udp \in BOOLEAN, n \in Settings("targetGroupName", {"named"}) \cup Settings("targetType", {"ip"}),
        h \in Settings("healthCheckConfig", {"port" :> <<"int", 9000>>}), node \in {0, 30080}}
\* Addons and deletions.
AddonSettings ==
    {c @@ w @@ s : c \in Settings("minimumLoadBalancerCapacity", {0, 3000}), w \in Settings("wafV2", {"", "acl"}), s \in Settings("shieldConfiguration", {TRUE})}
AddonWorlds ==
    {[w EXCEPT !.deleting = d, !.addons = a, !.class = c, !.gateway = {g}] :
        w \in {NLB80, ALB}, d \in BOOLEAN, a \in SUBSET {"minimumLoadBalancerCapacity", "wafV2"}, c \in {{}, {"wafV2" :> "other"}}, g \in AddonSettings}
DeletedWorlds ==
    {[w EXCEPT !.deleting = TRUE, !.addons = a, !.gateway = g] :
        w \in {NLB80, ALB}, a \in {{}, {"wafV2"}}, g \in {{}, {"loadBalancerAttributes" :> ("deletion_protection.enabled" :> "true")}}}

-------------------------------------------------------------------------------
MCWorlds == <<{w \in TargetWorlds : ~Unopened(w)}, FamilyWorlds, GroupWorlds, PlaceWorlds, MergeWorlds, AloneWorlds, ListenerWorlds, RouteWorlds, AddonWorlds, DeletedWorlds>>
UnopenedWorlds == <<{w \in TargetWorlds : Unopened(w)}>>
=============================================================================
