----------------------------- MODULE MCServiceBuild -----------------------------
(* Services to build a load balancer for.                                        *)
EXTENDS ServiceBuild, MCNetwork

None == <<>>
P80 == Port("web", 80, "TCP")
P443 == Port("tls", 443, "TCP")
U53 == Port("dns", 53, "UDP")
T53 == Port("dns-tcp", 53, "TCP")
Service ==
    [name |-> "svc", type |-> "LoadBalancer", class |-> {"nlb"}, deleting |-> FALSE, finalizer |-> TRUE, ports |-> <<P80>>,
     local |-> FALSE, healthCheckNodePort |-> 32000, ipv6 |-> FALSE, ranges |-> <<>>, allocateNodePorts |-> TRUE, ann |-> None, version |-> 1]
MCFlags ==
    [loadBalancerOnly |-> FALSE, capacityReservation |-> TRUE, defaultTagsLowPriority |-> FALSE, manageBackendSGRules |-> FALSE,
     nlbSecurityGroup |-> TRUE, backendSG |-> TRUE, ipTargets |-> TRUE, healthCheckAdvanced |-> TRUE, restricted |-> TRUE, tcpUdp |-> TRUE]
MCDefaults ==
    [class |-> "nlb", scheme |-> "internal", tags |-> ("cluster" :> "mine"), externalTags |-> {"external"},
     targetType |-> "instance", sslPolicy |-> "default"]
World(s) == [service |-> s, flags |-> MCFlags, defaults |-> MCDefaults, vpc |-> VPC, existing |-> {}, backends |-> <<>>, edits |-> <<>>]
With(s, a) == [s EXCEPT !.ann = a @@ @]
Annotations(key, V) == {None} \cup {(key :> v) : v \in V}
\* Without security groups on the load balancer.
Legacy(w) == [w EXCEPT !.flags.nlbSecurityGroup = FALSE]

-------------------------------------------------------------------------------
\* What the targets are sent, and who may send it.
PortLists == {<<P80>>, <<U53>>, <<U53, T53>>, <<P443, [P80 EXCEPT !.targetPort = <<"name", "pod">>]>>}
TargetWorlds ==
    {[World(With([Service EXCEPT !.ports = ports, !.ranges = ranges, !.local = local], t @@ h @@ p @@ m @@ scheme)) EXCEPT !.flags.nlbSecurityGroup = sg] :
        ports \in PortLists, ranges \in {<<>>, <<"office">>, <<"any4">>, <<"vpc4", "office-host-bits">>}, local \in BOOLEAN,
        t \in Annotations("nlb-target-type", {"ip"}),
        h \in Annotations("healthcheck-port", {<<"int", 7000>>, <<"name", "web">>, <<"int", 8080>>}),
        p \in Annotations("target-group-attributes", {PreserveKey :> "true", PreserveKey :> "false"}),
        m \in Annotations("manage-backend-security-group-rules", {"false"}), scheme \in Annotations("scheme", {"internet-facing"}), sg \in BOOLEAN}
\* The health checks of TCP_UDP and QUIC target groups that no rule of the traffic covers.
Unchecked(w) ==
    LET a == w.service.ann
        preserve == Ann(Ann(a, "target-group-attributes", <<>>), PreserveKey, IF "nlb-target-type" \in DOMAIN a THEN "false" ELSE "true")
    IN /\ ~w.flags.nlbSecurityGroup \/ "disable-nlb-sg" \in DOMAIN a
       /\ \/ "quic-enabled-ports" \in DOMAIN a
          \/ w.service.ports = <<U53, T53>> /\ preserve = "false" /\ w.service.ranges \notin {<<>>, <<"any4">>}

GroupWorlds ==
    {[World(With([Service EXCEPT !.ports = ports, !.ranges = ranges], g @@ m @@ l @@ d @@ q))
        EXCEPT !.flags.backendSG = b, !.flags.restricted = r, !.existing = e] :
        ports \in {<<U53, T53>>, <<U53, P80>>}, ranges \in {<<>>, <<"office">>, <<"office6">>, <<"not a range">>},
        g \in Annotations("security-groups", {{"sg1"}, {"unknown"}}), m \in Annotations("manage-backend-security-group-rules", {"true", "maybe"}),
        l \in Annotations("security-group-prefix-lists", {{"pl"}}), d \in Annotations("disable-nlb-sg", {"true"}),
        q \in Annotations("quic-enabled-ports", {{<<"int", 53>>}}), b \in BOOLEAN, r \in BOOLEAN,
        e \in {{}, {[scheme |-> "internal", subnets |-> <<2, 3>>, groups |-> {"sg0"}]}}}

-------------------------------------------------------------------------------
\* Subnets, schemes and addresses.
SubnetLists == {Refs(<<1, 3>>), Refs(<<1, 2>>), Refs(<<3, 4>>), Refs(<<9>>), <<<<"name", "net">>, <<"name", "private">>>>,
                <<<<"name", "net">>, <<"name", "net">>, <<"id", 3>>>>}
Existing == {{}} \cup {{[scheme |-> s, subnets |-> n, groups |-> g]} : s \in Schemes, n \in {<<1, 3>>, <<2, 3, 4>>}, g \in {{}, {"sg0"}}}
PlaceWorlds ==
    {[World(With(Service, i @@ s @@ n @@ x)) EXCEPT !.existing = e, !.vpc = v, !.flags.nlbSecurityGroup = sg] :
        i \in Annotations("ip-address-type", {"dualstack"}), s \in Annotations("scheme", Schemes) \cup Annotations("internal", {"true", "false", "maybe"}),
        n \in Annotations("subnets", SubnetLists), e \in Existing, v \in VPCs, sg \in BOOLEAN,
        x \in Annotations("private-ipv4-addresses", {<<"a3", "a2">>, <<"a1", "a3">>})}
AddressWorlds ==
    {World(With(Service, ("ip-address-type" :> i) @@ ("scheme" :> s) @@ ("subnets" :> Refs(<<1, 3>>)) @@ x @@ y @@ z @@ e @@ p)) :
        i \in {"ipv4", "dualstack"}, s \in Schemes,
        x \in Annotations("private-ipv4-addresses", {<<"a3", "a1">>, <<"a1", "a1">>, <<"a1">>, <<"a1", "bad">>}),
        y \in Annotations("ipv6-addresses", {<<"b3", "b1">>, <<"b1", "a1">>, <<"b1", "b2">>}),
        z \in Annotations("enable-prefix-for-ipv6-source-nat", {"on", "off", "maybe"}), e \in Annotations("eip-allocations", {<<"e1", "e2">>, <<"e1">>}),
        p \in Annotations("source-nat-ipv6-prefixes", {<<AutoAssigned, Prefix("b3")>>, <<Prefix("b3"), Prefix("b1")>>, <<Prefix("b1")>>})}

-------------------------------------------------------------------------------
\* Certificates, protocols and ports of listeners.
ListenerWorlds ==
    {[World(With([Service EXCEPT !.ports = ports], c @@ l @@ q @@ b @@ u @@ alpn)) EXCEPT !.flags.tcpUdp = f] :
        ports \in {<<P80, P443>>, <<U53, P443, T53>>, <<U53, P80>>, <<P80, U53, [U53 EXCEPT !.name = "again"]>>},
        c \in Annotations("ssl-cert", {<<"c1">>}), l \in Annotations("ssl-ports", {{<<"name", "tls">>}, {<<"int", 443>>, <<"int", 80>>}}),
        q \in Annotations("quic-enabled-ports", {{<<"name", "dns">>}, {<<"int", 443>>}}), b \in Annotations("backend-protocol", {"ssl"}),
        u \in Annotations("enable-tcp-udp-listener", {"true", "maybe"}), f \in BOOLEAN,
        alpn \in Annotations("alpn-policy", {"HTTP2Only", "other"})}
\* Two ports of one number that are not joined: the second has no listener.
Dropped(w) ==
    LET s == w.service
        joined == LET a == ParseBoolAnnotation(s.ann, "enable-tcp-udp-listener", w.flags.tcpUdp) IN IF a = {} THEN w.flags.tcpUdp ELSE TRUE \in a
    IN ~joined /\ \E i, j \in DOMAIN s.ports : i # j /\ s.ports[i].port = s.ports[j].port

\* Weighted backends that change while the listeners are built.
Backend(v, type) == [Service EXCEPT !.name = "b", !.version = v, !.type = type, !.ports = <<P80, [P443 EXCEPT !.nodePort = v]>>]
To(port, weight, decrypt) == [arn |-> {}, name |-> {"b"}, port |-> {port}, weight |-> weight, decrypt |-> decrypt]
Arn == [arn |-> {"tg"}, name |-> {}, port |-> {}, weight |-> {20}, decrypt |-> FALSE]
Forward(targets) == [type |-> "forward", forward |-> {[base |-> {1}, targets |-> targets]}]
WeightedWorlds ==
    {[World(With([Service EXCEPT !.ports = <<P80, P443>>], ("actions" :> ((<<"TCP", 80>> :> x) @@ (<<pr, 443>> :> y))) @@ t
                  @@ (IF pr = "TLS" THEN ("ssl-cert" :> <<"c1">>) @@ ("ssl-ports" :> {<<"int", 443>>}) ELSE None)))
        EXCEPT !.backends = IF b = {} THEN None ELSE ("b" :> Backend(1, "NodePort")), !.edits = e] :
        pr \in {"TCP", "TLS"}, t \in Annotations("nlb-target-type", {"ip"}), b \in {{}, {1}},
        e \in {<<>>, <<[name |-> "b", to |-> {Backend(2, "NodePort")}]>>, <<[name |-> "b", to |-> {}], [name |-> "b", to |-> {Backend(3, "ClusterIP")}]>>},
        x \in {Forward(<<To(<<"name", "web">>, {}, FALSE)>>), Forward(<<Arn, To(<<"int", 80>>, {1}, FALSE)>>),
               Forward(<<To(<<"int", 80>>, {}, FALSE), Arn>>), [type |-> "forward", forward |-> {}]},
        y \in {Forward(<<To(<<"int", 443>>, {5}, TRUE)>>), Forward(<<To(<<"name", "tls">>, {1000}, FALSE)>>),
               Forward(<<To(<<"name", "tls">>, {0}, FALSE)>>), Forward(<<To(<<"int", 7>>, {5}, FALSE)>>), [type |-> "redirect", forward |-> {}]}}

-------------------------------------------------------------------------------
\* Services that are not ours, no longer ours, or badly annotated.
Plain == [Service EXCEPT !.class = {}]
OtherWorlds ==
    {[World(s) EXCEPT !.flags.loadBalancerOnly = f] : f \in BOOLEAN,
        s \in {Plain, With(Plain, ("type" :> "nlb-ip")), With(Plain, ("type" :> "external") @@ ("nlb-target-type" :> "ip")),
               [Service EXCEPT !.class = {"other"}], [Service EXCEPT !.type = "ClusterIP"], [Service EXCEPT !.ipv6 = TRUE],
               With([Service EXCEPT !.type = "NodePort"], ("ip-address-type" :> "dualstack")),
               With([Service EXCEPT !.ipv6 = TRUE, !.ranges = <<"office6">>], ("ip-address-type" :> "dualstack"))}}
    \cup {World(With(Service, a)) :
            a \in UNION {Annotations("attributes", {"deletion_protection.enabled" :> "true", "malformed" :> "", "dns_record.client_routing_policy" :> "none"}),
                         Annotations("minimum-load-balancer-capacity", {"CapacityUnits" :> "3000", "Other" :> "1"}),
                         Annotations("additional-resource-tags", {"external" :> "1", "team" :> "x"}), Annotations("cross-zone", {"true", "maybe"}),
                         Annotations("inbound-sg-rules-on-private-link-traffic", {"on", "maybe"}), Annotations("name", {"lb", "longer-than-32"}),
                         Annotations("healthcheck-protocol", {"HTTP", "ICMP"}), Annotations("healthcheck-numbers", {"interval" :> -1}),
                         Annotations("proxy-protocol", {"*", "on"}), Annotations("proxy-protocol-per-target-group", {{80}, {-1}}),
                         Annotations("target-group-attributes-of-port", {80 :> (ProxyKey :> ""), 80 :> (PreserveKey :> "maybe")}),
                         Annotations("enable-icmp-for-path-mtu-discovery", {"on"}), Annotations("target-node-labels", {"malformed" :> ""})}}
    \cup {World([With(Service, a) EXCEPT !.deleting = TRUE, !.finalizer = f]) : f \in BOOLEAN,
            a \in Annotations("attributes", {"deletion_protection.enabled" :> "true", "deletion_protection.enabled" :> "maybe"})}

MCWorlds == <<{w \in TargetWorlds : ~Unchecked(w)}, {w \in GroupWorlds : ~Unchecked(w)}, PlaceWorlds, AddressWorlds,
              {w \in ListenerWorlds : ~Dropped(w)}, WeightedWorlds, OtherWorlds>>
UncheckedWorlds == <<{w \in TargetWorlds : Unchecked(w)}>>
=============================================================================
