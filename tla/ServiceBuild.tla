------------------------------ MODULE ServiceBuild ------------------------------
(* The model the controller builds of one Service (pkg/service): a Network Load  *)
(* Balancer with its security groups and subnets, its listeners, the target      *)
(* groups and what the nodes must admit.  One step builds one listener; between  *)
(* two steps the backend Services of weighted target groups may change.          *)
(*                                                                              *)
(* An annotation is a field of a Service's ann; a Boolean one is "true", "false" *)
(* or something else, a map that does not parse has the key "malformed".  What   *)
(* may fail returns the set of its results: {} is an error.  An optional value   *)
(* is a set as well: {} is unset.  A port that may be named is <<"int", n>> or   *)
(* <<"name", s>>.                                                               *)
EXTENDS Reachability, TLC

CONSTANT
    Worlds  \* families of Services, settings, networks and edits a build may meet

VARIABLES
    world,     \* [service, flags, defaults, vpc, existing, backends, edits]
    services,  \* the other Services of the namespace, by name
    stage,     \* where the build is; "done" and "failed" end it
    task,      \* [services, tgs]: the backend Services read and the target groups made
    stack,     \* [lb, listeners]
    left,      \* the ports whose listener is not built yet, in order
    edits      \* the changes of backend Services still to come

vars == <<world, services, stage, task, stack, left, edits>>

svc == world.service
flags == world.flags

OptionalAnn(a, s) == IF s \in DOMAIN a THEN {a[s]} ELSE {}
ParseBoolAnnotation(a, s, default) ==
    IF s \notin DOMAIN a THEN {default} ELSE {b \in BOOLEAN : a[s] = IF b THEN "true" ELSE "false"}
ParseStringMapAnnotation(a, s) == {m \in {Ann(a, s, <<>>)} : "malformed" \notin DOMAIN m}

-------------------------------------------------------------------------------
(* Is this Service ours? (service_utils.go)                                     *)

checkAWSLoadBalancerTypeAnnotation(s) ==
    \/ Ann(s.ann, "type", "") = "nlb-ip"
    \/ Ann(s.ann, "type", "") = "external" /\ Ann(s.ann, "nlb-target-type", "") \in {"ip", "instance"}

IsServiceSupported(s) ==
    /\ ~s.deleting
    /\ flags.loadBalancerOnly => s.type = "LoadBalancer"
    /\ IF s.class # {} THEN s.class = {world.defaults.class} ELSE checkAWSLoadBalancerTypeAnnotation(s)

\* {} when the attributes do not parse
getDeletionProtectionViaAnnotation(s) ==
    UNION {ParseBoolAnnotation(m, "deletion_protection.enabled", FALSE) : m \in ParseStringMapAnnotation(s.ann, "attributes")}

-------------------------------------------------------------------------------
(* The load balancer (model_build_load_balancer.go)                             *)

Schemes == {"internal", "internet-facing"}
buildLoadBalancerSchemeLegacyAnnotation(a) ==
    IF "internal" \notin DOMAIN a THEN {"unset"}
    ELSE {IF i THEN "internal" ELSE "internet-facing" : i \in ParseBoolAnnotation(a, "internal", TRUE)}
buildLoadBalancerSchemeViaAnnotation(a) ==
    IF "scheme" \in DOMAIN a THEN {a["scheme"]} \cap Schemes ELSE buildLoadBalancerSchemeLegacyAnnotation(a)

\* An existing load balancer keeps its scheme unless an annotation says otherwise.
buildLoadBalancerScheme(a) ==
    UNION {IF s # "unset" THEN {s}
           ELSE IF world.existing # {} THEN {e.scheme : e \in world.existing}
           ELSE {world.defaults.scheme} : s \in buildLoadBalancerSchemeViaAnnotation(a)}

buildLoadBalancerIPAddressType(a) == {Ann(a, "ip-address-type", "ipv4")} \cap {"ipv4", "dualstack"}

\* Subnets that are named, those the load balancer has, or the ones discovered.
buildLoadBalancerSubnets(a, scheme, ip) ==
    LET lb == [type |-> "network", scheme |-> scheme, ipAddressType |-> ip]
        kept == {e \in world.existing : e.scheme = scheme}
    IN IF "subnets" \in DOMAIN a THEN ResolveViaNameOrIDSlice(world.vpc, a["subnets"], lb)
       ELSE IF kept # {}
       THEN UNION {ResolveViaNameOrIDSlice(world.vpc, [k \in DOMAIN e.subnets |-> <<"id", e.subnets[k]>>], lb) : e \in kept}
       ELSE ResolveViaDiscovery(world.vpc, lb)

buildLoadBalancerEnablePrefixForIpv6SourceNat(a, ip, seq) ==
    {v \in {Ann(a, "enable-prefix-for-ipv6-source-nat", "off")} : ValidateEnablePrefixForIpv6SourceNat(v, ip, seq)}

\* Attributes with annotations of their own come before the attribute list.
getLoadBalancerAttributes(a) ==
    {m \in ParseStringMapAnnotation(a, "attributes") :
        Ann(m, "dns_record.client_routing_policy", "any_availability_zone")
            \in {"any_availability_zone", "partial_availability_zone_affinity", "availability_zone_affinity"}}
getAnnotationSpecificLbAttributes(a) ==
    {(IF log THEN [x \in {"access_logs.enabled"} |-> "true"] @@ Ann(a, "access-log-s3", <<>>) ELSE <<>>)
     @@ (IF "cross-zone" \in DOMAIN a THEN [x \in {"cross_zone.enabled"} |-> IF cz THEN "true" ELSE "false"] ELSE <<>>) :
        log \in ParseBoolAnnotation(a, "access-log-enabled", FALSE), cz \in ParseBoolAnnotation(a, "cross-zone", FALSE)}
buildLoadBalancerAttributes(a) ==
    {specific @@ attrs : specific \in getAnnotationSpecificLbAttributes(a), attrs \in getLoadBalancerAttributes(a)}

\* {{}}: no capacity is reserved
buildLoadBalancerMinimumCapacity(a) ==
    IF ~flags.capacityReservation THEN {{}}
    ELSE {{m[k] : k \in DOMAIN m} : m \in {x \in ParseStringMapAnnotation(a, "minimum-load-balancer-capacity") :
                                              DOMAIN x \subseteq {"CapacityUnits"} /\ \A k \in DOMAIN x : x[k] # "?"}}

buildAdditionalResourceTags(a) ==
    {IF flags.defaultTagsLowPriority THEN m @@ world.defaults.tags ELSE world.defaults.tags @@ m :
        m \in {x \in ParseStringMapAnnotation(a, "additional-resource-tags") : DOMAIN x \cap world.defaults.externalTags = {}}}

buildSecurityGroupsInboundRulesOnPrivateLink(a) ==
    {o \in {OptionalAnn(a, "inbound-sg-rules-on-private-link-traffic")} : o \subseteq {"on", "off"}}

buildLoadBalancerName(a, scheme) ==
    IF "name" \in DOMAIN a THEN {<<a["name"]>>} \ {<<"longer-than-32">>} ELSE {<<svc.name, scheme>>}

-------------------------------------------------------------------------------
(* Security groups (buildLoadBalancerSecurityGroups, model_build_managed_sg.go) *)

\* The declared ranges, of the Service's specification or else of its annotation.
sourceRanges(s, a) == IF s.ranges # <<>> THEN s.ranges ELSE Ann(a, "load-balancer-source-ranges", <<>>)

\* Everyone, unless ranges or prefix lists are declared.
buildCIDRsFromSourceRanges(ip, prefixLists) ==
    LET cidrs == ToSet(sourceRanges(svc, svc.ann))
        all == IF cidrs # {} THEN cidrs
               ELSE IF prefixLists THEN {}
               ELSE {"any4"} \cup (IF ip = "dualstack" THEN {"any6"} ELSE {})
    IN IF (ip # "dualstack" /\ cidrs \cap V6 # {}) \/ ~(all \subseteq DOMAIN Canonical) THEN {}
       ELSE {{Canonical[c] : c \in all}}

\* A permission is <<protocol, port, source>>.
buildManagedSecurityGroupIngressPermissions(ip) ==
    LET lists == Ann(svc.ann, "security-group-prefix-lists", {})
        icmp == Ann(svc.ann, "enable-icmp-for-path-mtu-discovery", "off") = "on"
        listened == {<<svc.ports[k].protocol, svc.ports[k].port>> : k \in DOMAIN svc.ports}
    IN {{<<l[1], l[2], <<"cidr", c>>>> : l \in listened, c \in cidrs}
        \cup {<<l[1], l[2], <<"list", x>>>> : l \in listened, x \in lists}
        \cup {<<"ICMP", 3, <<"cidr", c>>>> : c \in {x \in cidrs : icmp}}
        : cidrs \in buildCIDRsFromSourceRanges(ip, "security-group-prefix-lists" \in DOMAIN svc.ann)}

buildManageSecurityGroupRulesFlag(a) ==
    ParseBoolAnnotation(a, "manage-backend-security-group-rules", flags.manageBackendSGRules)

\* Groups that are named resolve to themselves unless they are unknown (external).
ResolveSGs(names) == IF "unknown" \in names THEN {} ELSE {names}

NoSecurityGroups == [groups |-> {}, backend |-> "none", managed |-> {}]

buildLoadBalancerSecurityGroups_anew(a, ip) ==
    IF ~flags.nlbSecurityGroup THEN {NoSecurityGroups}
    ELSE {[groups |-> {"managed"}, backend |-> "managed", managed |-> rules] :
            rules \in buildManagedSecurityGroupIngressPermissions(ip)}

\* A Network Load Balancer that was created without security groups never gets
\* any; one that has some cannot give them up.
buildLoadBalancerSecurityGroups(a, ip) ==
    LET has == \E e \in world.existing : e.groups # {}
        hasNot == \E e \in world.existing : e.groups = {}
        named == Ann(a, "security-groups", {})
        off(disabled) == ~flags.nlbSecurityGroup \/ disabled
        managed == {[groups |-> {"managed"} \cup (IF flags.backendSG THEN {"shared"} ELSE {}),
                     backend |-> IF flags.backendSG THEN "shared" ELSE "managed",
                     managed |-> rules] : rules \in buildManagedSecurityGroupIngressPermissions(ip)}
        frontend == {[groups |-> sgs \cup (IF manage THEN {"shared"} ELSE {}),
                      backend |-> IF manage THEN "shared" ELSE "none", managed |-> {}] :
                        sgs \in ResolveSGs(named),
                        manage \in {m \in buildManageSecurityGroupRulesFlag(a) : m => flags.backendSG}}
    IN UNION {CASE hasNot -> {NoSecurityGroups}
                [] off(d) -> IF has THEN {} ELSE {NoSecurityGroups}
                [] named = {} -> managed
                [] OTHER -> frontend : d \in ParseBoolAnnotation(a, "disable-nlb-sg", FALSE)}

-------------------------------------------------------------------------------
(* Addresses in the subnets (buildLoadBalancerSubnetMappings)                   *)

\* {{}} when no address is asked for
addressFor(a, key, cidrs) ==
    IF key \in DOMAIN a THEN {{ip} : ip \in OnlyAddress(a[key], cidrs)} ELSE {{}}
mappingOf(a, s, k, nat) ==
    {[subnet |-> s.id, eip |-> IF "eip-allocations" \in DOMAIN a THEN {a["eip-allocations"][k]} ELSE {},
      ipv4 |-> v4, ipv6 |-> v6,
      prefix |-> IF nat = "on" /\ "source-nat-ipv6-prefixes" \in DOMAIN a THEN {a["source-nat-ipv6-prefixes"][k]} ELSE {}] :
        v4 \in addressFor(a, "private-ipv4-addresses", {s.cidr4}),
        v6 \in addressFor(a, "ipv6-addresses", GetSubnetAssociatedIPv6CIDRs(s))}

mappingsAllowed(a, scheme, ip, seq, nat) ==
    LET counted(key) == Len(a[key]) = Len(seq)
    IN /\ "eip-allocations" \in DOMAIN a => scheme = "internet-facing" /\ counted("eip-allocations")
       /\ "private-ipv4-addresses" \in DOMAIN a =>
            /\ scheme = "internal" /\ counted("private-ipv4-addresses")
            /\ ToSet(a["private-ipv4-addresses"]) \cap (V6 \cup {"bad"}) = {}
       /\ "ipv6-addresses" \in DOMAIN a =>
            /\ ip = "dualstack" /\ counted("ipv6-addresses")
            /\ ToSet(a["ipv6-addresses"]) \subseteq V6
       /\ "source-nat-ipv6-prefixes" \in DOMAIN a =>
            ValidateSourceNatPrefixes(a["source-nat-ipv6-prefixes"], ip, nat = "on", seq)

buildLoadBalancerSubnetMappings(a, scheme, ip, seq, nat) ==
    LET each == [k \in DOMAIN seq |-> mappingOf(a, seq[k], k, nat)]
    IN IF ~mappingsAllowed(a, scheme, ip, seq, nat) \/ \E k \in DOMAIN seq : each[k] = {} THEN {}
       ELSE {[k \in DOMAIN seq |-> CHOOSE m \in each[k] : TRUE]}

buildLoadBalancerSpec(a) ==
    UNION {UNION {{[scheme |-> scheme, ipAddressType |-> ip, subnets |-> seq, prefixForSourceNat |-> nat,
                    attributes |-> attrs, capacity |-> cap, sgs |-> sgs, tags |-> tags, mappings |-> m,
                    name |-> name, privateLink |-> pl] :
                      attrs \in buildLoadBalancerAttributes(a), cap \in buildLoadBalancerMinimumCapacity(a),
                      sgs \in buildLoadBalancerSecurityGroups(a, ip), tags \in buildAdditionalResourceTags(a),
                      m \in buildLoadBalancerSubnetMappings(a, scheme, ip, seq, nat),
                      name \in buildLoadBalancerName(a, scheme),
                      pl \in buildSecurityGroupsInboundRulesOnPrivateLink(a)} :
                    nat \in buildLoadBalancerEnablePrefixForIpv6SourceNat(a, ip, seq)} :
             <<scheme, ip, seq>> \in
               UNION {{<<s, i, q>> : q \in buildLoadBalancerSubnets(a, s, i)} :
                        <<s, i>> \in buildLoadBalancerScheme(a) \X buildLoadBalancerIPAddressType(a)}}

-------------------------------------------------------------------------------
(* Target groups (model_build_target_group.go)                                  *)

LookupServicePort(s, ref) ==
    LET found == SelectSeq(s.ports, LAMBDA p : ref = <<"int", p.port>> \/ ref = <<"name", p.name>>)
    IN {found[k] : k \in {1} \cap DOMAIN found}

buildTargetType(s, a, p) ==
    LET asked == Ann(a, "nlb-target-type", world.defaults.targetType)
    IN CASE asked = "ip" /\ ~flags.ipTargets -> {}
         [] asked = "ip" \/ Ann(a, "type", "") = "nlb-ip" -> {"ip"}
         [] s.type = "ClusterIP" \/ (p.nodePort = 0 /\ ~s.allocateNodePorts) -> {}
         [] OTHER -> {"instance"}

\* Health checks of instances whose Service keeps traffic local ask the port that
\* Kubernetes opens for that; it is the one of the Service that owns the load balancer.
healthDefaults(s, type) ==
    IF type = "instance" /\ s.local /\ s.type = "LoadBalancer"
    THEN [protocol |-> "HTTP", port |-> <<"int", svc.healthCheckNodePort>>, path |-> "/healthz",
          numbers |-> [interval |-> 10, timeout |-> 6, healthyThreshold |-> 2, unhealthyThreshold |-> 2]]
    ELSE [protocol |-> "TCP", port |-> TrafficPort, path |-> "/",
          numbers |-> [interval |-> 10, timeout |-> 10, healthyThreshold |-> 3, unhealthyThreshold |-> 3]]

buildTargetGroupHealthCheckPort(s, a, default, type) ==
    LET raw == Ann(a, "healthcheck-port", default)
    IN IF raw = TrafficPort \/ raw[1] = "int" THEN {raw}
       ELSE {hp \in {IF type = "instance" THEN <<"int", p.nodePort>> ELSE p.targetPort : p \in LookupServicePort(s, raw)} :
                hp[1] = "int"}
buildTargetGroupHealthCheckProtocol(a, default) == {Ann(a, "healthcheck-protocol", default)} \cap {"TCP", "HTTP", "HTTPS"}
buildTargetGroupHealthCheckPath(a, default, protocol) ==
    IF protocol = "TCP" THEN {} ELSE {Ann(a, "healthcheck-path", default)}
buildTargetGroupHealthCheckMatcher(a, protocol) ==
    IF protocol = "TCP" \/ ~flags.healthCheckAdvanced THEN {} ELSE {Ann(a, "healthcheck-success-codes", "200-399")}
\* -1 stands for a number that does not parse; the timeout is not always looked at.
buildTargetGroupHealthCheckNumbers(a, defaults) ==
    {n \in {[f \in DOMAIN defaults |-> IF f = "timeout" /\ ~flags.healthCheckAdvanced THEN defaults[f]
                                       ELSE Ann(Ann(a, "healthcheck-numbers", <<>>), f, defaults[f])]} : \A f \in DOMAIN n : n[f] # -1}

buildTargetGroupHealthCheckConfig(s, a, type) ==
    LET d == healthDefaults(s, type)
    IN {[protocol |-> pr, port |-> hp, path |-> buildTargetGroupHealthCheckPath(a, d.path, pr),
         matcher |-> buildTargetGroupHealthCheckMatcher(a, pr), numbers |-> n] :
            pr \in buildTargetGroupHealthCheckProtocol(a, d.protocol),
            hp \in buildTargetGroupHealthCheckPort(s, a, d.port, type), n \in buildTargetGroupHealthCheckNumbers(a, d.numbers)}

ProxyKey == "proxy_protocol_v2.enabled"
validateAndParseAttributes(m) ==
    {x \in {m} : "malformed" \notin DOMAIN x /\ (PreserveKey \in DOMAIN x => x[PreserveKey] \in {"true", "false"})}
\* An attribute of the port comes before the one of all ports, unless it is empty.
buildPortSpecificTargetGroupAttributes(a, p) ==
    {[k \in {x \in DOMAIN port : port[x] # ""} |-> port[k]] @@ base :
        base \in validateAndParseAttributes(Ann(a, "target-group-attributes", <<>>)),
        port \in validateAndParseAttributes(Ann(Ann(a, "target-group-attributes-of-port", <<>>), p.port, <<>>))}
\* The proxy protocol, from the strongest source down; ports that are no number are -1.
proxyProtocol(a, p, attrs) ==
    CASE "proxy-protocol" \in DOMAIN a -> {"true" : x \in {a["proxy-protocol"]} \cap {"*"}}
      [] "proxy-protocol-per-target-group" \in DOMAIN a -> {IF p.port \in a["proxy-protocol-per-target-group"] THEN "true" ELSE "false"}
      [] OTHER -> {Ann(attrs, ProxyKey, "false")}
buildTargetGroupAttributes(a, p) ==
    UNION {{[k \in (DOMAIN attrs \cup {ProxyKey}) \ (IF v = "" THEN {ProxyKey} ELSE {}) |->
                IF k = ProxyKey THEN v ELSE attrs[k]] : v \in proxyProtocol(a, p, attrs)} :
             attrs \in {x \in buildPortSpecificTargetGroupAttributes(a, p) :
                           -1 \notin Ann(a, "proxy-protocol-per-target-group", {})}}

buildPreserveClientIPFlag(type, attrs) ==
    IF PreserveKey \in DOMAIN attrs THEN attrs[PreserveKey] = "true" ELSE type = "instance"

buildTargetGroupPort(type, p) ==
    IF type = "instance" THEN p.nodePort ELSE IF p.targetPort[1] = "int" THEN p.targetPort[2] ELSE 1
buildTargetGroupIPAddressType(s) ==
    IF ~s.ipv6 THEN {"ipv4"} ELSE IF stack.lb.ipAddressType = "dualstack" THEN {"ipv6"} ELSE {}
buildTargetGroupName(base, s, p, type, protocol, health) ==
    <<base, s.name, p.port, buildTargetGroupPort(type, p), type, protocol, health.protocol, health.numbers.interval>>

-------------------------------------------------------------------------------
(* What the nodes must admit: a rule is <<source, protocol, port>>               *)

\* With security groups on the load balancer; {} leaves the nodes alone.
buildTargetGroupBindingNetworking(target, health, protocol) ==
    LET same == health = TrafficPort \/ IntValue(health) = IntValue(target)
        ports == IF ~flags.restricted
                 THEN {<<"TCP", AllPorts>>} \cup (IF protocol \in Datagram THEN {<<"UDP", AllPorts>>} ELSE {})
                 ELSE (IF protocol \in Datagram THEN {<<"UDP", target>>} ELSE {})
                      \cup (IF protocol \notin Datagram \/ protocol \in Both \/ same THEN {<<"TCP", target>>} ELSE {})
                      \cup (IF same THEN {} ELSE {<<"TCP", health>>})
    IN IF stack.lb.sgs.backend = "none" THEN {}
       ELSE {{<<<<"group", stack.lb.sgs.backend>>, x[1], x[2]>> : x \in ports}}

getLoadBalancerSubnetsSourceRanges(ip) ==
    UNION {IF ip = "ipv4" THEN {s.cidr4} ELSE {b.cidr : b \in s.cidr6} : s \in ToSet(stack.lb.subnets)}

getDefaultIPSourceRanges(ip, protocol, preserve) ==
    IF (protocol \in Datagram \/ preserve) /\ stack.lb.scheme = "internal"
    THEN IF ip = "ipv4" THEN world.vpc.cidrs4 ELSE world.vpc.cidrs6
    ELSE IF ip = "ipv6" THEN {"any6"} ELSE {"any4"}

\* Health checks need a rule of their own unless the rule for the traffic covers them.
buildHealthCheckSourceCIDRs(sources, subnets, target, health, protocol, preserve, defaulted) ==
    IF /\ protocol # "UDP"
       /\ health = TrafficPort \/ IntValue(health) = IntValue(target)
       /\ ~preserve \/ defaulted \/ sources \cap {"any4", "any6"} # {}
    THEN {} ELSE subnets

buildManageSecurityGroupRulesFlagLegacy(a) == ParseBoolAnnotation(a, "manage-backend-security-group-rules", TRUE)

\* Without security groups the nodes admit the clients, or the load balancer's subnets.
buildTargetGroupBindingNetworkingLegacy(s, a, target, protocol, health, ip, preserve) ==
    LET subnets == getLoadBalancerSubnetsSourceRanges(ip)
        clients == protocol \in Datagram \/ preserve
        declared == ToSet(sourceRanges(s, a))
        defaulted == clients /\ declared = {}
        traffic == CASE ~clients -> subnets
                     [] defaulted -> getDefaultIPSourceRanges(ip, protocol, preserve)
                     [] OTHER -> declared
        protocols == IF protocol \in Both THEN {"TCP", "UDP"} ELSE IF protocol \in Datagram THEN {"UDP"} ELSE {"TCP"}
        checked == IF health = TrafficPort THEN target ELSE health
    IN {IF ~manage THEN {}
        ELSE {{<<<<"cidr", c>>, pr, target>> : c \in traffic, pr \in protocols}
              \cup {<<<<"cidr", c>>, "TCP", checked>> :
                      c \in buildHealthCheckSourceCIDRs(traffic, subnets, target, health, protocol, preserve, defaulted)}}
        : manage \in buildManageSecurityGroupRulesFlagLegacy(a)}

buildTargetGroupBindingNodeSelector(a, type) ==
    IF type # "instance" THEN {<<>>} ELSE ParseStringMapAnnotation(a, "target-node-labels")
buildTargetGroupBindingMultiClusterFlag(a) == ParseBoolAnnotation(a, "multi-cluster-target-group", FALSE)

buildTargetGroupBindingSpec(s, a, p, type, protocol, health, ip, preserve) ==
    LET target == IF type = "instance" THEN <<"int", p.nodePort>> ELSE p.targetPort
        networking == IF stack.lb.sgs.groups = {}
                      THEN buildTargetGroupBindingNetworkingLegacy(s, a, target, protocol, health.port, ip, preserve)
                      ELSE {buildTargetGroupBindingNetworking(target, health.port, protocol)}
    IN {[target |-> target, nodes |-> nodes, multiCluster |-> multi, networking |-> n] :
            nodes \in buildTargetGroupBindingNodeSelector(a, type), n \in networking,
            multi \in buildTargetGroupBindingMultiClusterFlag(a)}

buildTargetGroupResourceID(s, p) == <<s.name, p.port>>

\* A target group that was built before under the same identifier is taken again.
buildTargetGroup(t, base, s, p, protocol) ==
    LET a == svc.ann
        id == buildTargetGroupResourceID(s, p)
        typed == {<<ty, attrs>> \in buildTargetType(s, a, p) \X buildTargetGroupAttributes(a, p) :
                     buildTargetGroupPort(ty, p) # 0}
    IN IF id \in DOMAIN t.tgs THEN {[task |-> t, id |-> id]}
       ELSE UNION {{[id |-> id,
                     task |-> [t EXCEPT !.tgs = @ @@ (id :>
                        [name |-> buildTargetGroupName(base, s, p, x[1], protocol, hc), service |-> s.name, port |-> p,
                         version |-> s.version, type |-> x[1], protocol |-> protocol, ip |-> ip, health |-> hc,
                         attributes |-> x[2], tags |-> tags, binding |-> b])]] :
                       tags \in buildAdditionalResourceTags(a),
                       b \in buildTargetGroupBindingSpec(s, a, p, x[1], protocol, hc, ip, buildPreserveClientIPFlag(x[1], x[2]))} :
                     <<x, hc, ip>> \in UNION {{y} \X buildTargetGroupHealthCheckConfig(s, a, y[1])
                                                  \X buildTargetGroupIPAddressType(s) : y \in typed}}

-------------------------------------------------------------------------------
(* Weighted backends (config_types.go, enhanced_backend_builder.go)              *)

TargetGroupTupleValidate(t) ==
    /\ (t.arn = {}) # (t.name = {})
    /\ t.name # {} => t.port # {}
    /\ \A w \in t.weight : w \in 0..999
\* A forward action without a configuration ends the build with a panic.
ActionValidate(x) ==
    /\ x.type = "forward"
    /\ \A f \in x.forward : /\ \A k \in DOMAIN f.targets : TargetGroupTupleValidate(f.targets[k])
                            /\ Len(f.targets) > 1 => \A k \in DOMAIN f.targets : f.targets[k].weight # {}

\* {{}}: no action is asked for
buildActionConfigViaAnnotation(a, protocol, port) ==
    LET actions == Ann(a, "actions", <<>>)
    IN IF <<protocol, port>> \notin DOMAIN actions THEN {{}}
       ELSE {x.forward : x \in {y \in {actions[<<protocol, port>>]} : ActionValidate(y) /\ y.forward # {}}}

serviceNames(f) == UNION {f.targets[k].name : k \in DOMAIN f.targets}

\* A backend Service is read once per build; one that is missing ends it.
loadBackendServices(t, f) ==
    LET new == serviceNames(f) \ DOMAIN t.services
    IN IF new \subseteq DOMAIN services THEN {[t EXCEPT !.services = @ @@ [n \in new |-> services[n]]]} ELSE {}

\* The Service itself with its weight, then the others, under the annotations of
\* the first.  A TLS listener's backend is spoken to in TLS unless decrypted.
buildTargetGroupTuples(t, listenerProtocol, p, protocol, f) ==
    LET protocolOf(tgt) == IF listenerProtocol = "TLS" /\ tgt.decrypt THEN "TCP" ELSE listenerProtocol
        first == {[task |-> b.task, to |-> <<[tg |-> b.id, weight |-> f.base]>>] : b \in buildTargetGroup(t, "", svc, p, protocol)}
        add(acc, tgt) ==
            IF tgt.arn # {} THEN {[x EXCEPT !.to = Append(@, [arn |-> tgt.arn, weight |-> tgt.weight])] : x \in acc}
            ELSE UNION {UNION {{[task |-> b.task, to |-> Append(x.to, [tg |-> b.id, weight |-> tgt.weight])] :
                                  b \in buildTargetGroup(x.task, svc.name, x.task.services[n], q, protocolOf(tgt))} :
                                <<n, q>> \in UNION {{<<n, q>> : q \in LookupServicePort(x.task.services[n], ref)} :
                                                      <<n, ref>> \in tgt.name \X tgt.port}} : x \in acc}
    IN FoldLeft(add, first, f.targets)

-------------------------------------------------------------------------------
(* Listeners (model_build_listener.go)                                          *)

shouldUseTCPUDP ==
    LET asked == ParseBoolAnnotation(svc.ann, "enable-tcp-udp-listener", flags.tcpUdp)
    IN IF asked = {} THEN flags.tcpUdp ELSE TRUE \in asked

samePort(p) == SelectSeq(svc.ports, LAMBDA q : q.port = p.port)
validateMultiProtocolUsage(ports) == Len(ports) = 2 /\ {ports[1].protocol, ports[2].protocol} = {"TCP", "UDP"}
tcpUdpPortsSet == {p.port : p \in {q \in ToSet(svc.ports) : shouldUseTCPUDP /\ Len(samePort(q)) > 1}}

listed(ports, p) == <<"name", p.name>> \in ports \/ <<"int", p.port>> \in ports
validateTLSPortsSet(refs) == \A ref \in refs : \E p \in ToSet(svc.ports) : listed({ref}, p)
tlsPorts == Ann(svc.ann, "ssl-ports", {})
quicPorts == Ann(svc.ann, "quic-enabled-ports", {})
buildListenerCertificates(a) == Ann(a, "ssl-cert", <<>>)
buildSSLNegotiationPolicy(a) == Ann(a, "ssl-negotiation-policy", world.defaults.sslPolicy)
buildListenerALPNPolicy(a, protocol) ==
    {o \in {IF protocol = "TLS" THEN OptionalAnn(a, "alpn-policy") ELSE {}} :
        o \subseteq {"None", "HTTP1Only", "HTTP2Only", "HTTP2Optional", "HTTP2Preferred"}}

\* What the listener and its target group speak; only UDP can become QUIC.
listenerProtocols(p) ==
    LET plain == IF p.port \in tcpUdpPortsSet THEN "TCP_UDP" ELSE p.protocol
        tls == /\ plain \notin Datagram /\ buildListenerCertificates(svc.ann) # <<>>
               /\ tlsPorts = {} \/ listed(tlsPorts, p)
        spoken == IF tls THEN "TLS" ELSE plain
        quic == IF plain = "UDP" THEN "QUIC" ELSE "TCP_QUIC"
    IN IF ~listed(quicPorts, p)
       THEN {[listener |-> spoken, target |-> IF tls /\ Ann(svc.ann, "backend-protocol", "") = "ssl" THEN "TLS" ELSE plain]}
       ELSE {[listener |-> quic, target |-> quic] : x \in {spoken} \cap {"UDP", "TCP_UDP"}}

buildListenerAttributes(a, protocol, port) ==
    {m \in {Ann(Ann(a, "listener-attributes", <<>>), <<protocol, port>>, <<>>)} : "malformed" \notin DOMAIN m}

buildListenerSpec(p) ==
    LET a == svc.ann
        plain(t, pr) == {[task |-> b.task, to |-> <<[tg |-> b.id, weight |-> {}]>>] : b \in buildTargetGroup(t, "", svc, p, pr.target)}
        weighted(t, pr, f) == UNION {buildTargetGroupTuples(u, pr.listener, p, pr.target, f) : u \in loadBackendServices(t, f)}
        to(pr, act) == IF act = {} THEN plain(task, pr) ELSE UNION {weighted(task, pr, f) : f \in act}
        made(pr) == UNION {to(pr, act) : act \in buildActionConfigViaAnnotation(a, pr.listener, p.port)}
    IN UNION {{[task |-> x.task,
                spec |-> [protocol |-> pr.listener, to |-> x.to, tags |-> tags, alpn |-> alpn, attributes |-> attrs,
                          certificates |-> IF pr.listener = "TLS" THEN buildListenerCertificates(a) ELSE <<>>,
                          sslPolicy |-> IF pr.listener = "TLS" THEN buildSSLNegotiationPolicy(a) ELSE ""]] :
                 x \in made(pr), tags \in buildAdditionalResourceTags(a), alpn \in buildListenerALPNPolicy(a, pr.listener),
                 attrs \in buildListenerAttributes(a, pr.listener, p.port)} : pr \in listenerProtocols(p)}

-------------------------------------------------------------------------------
(* The steps of a build (model_builder.go, run)                                 *)

EmptyStack == [lb |-> <<>>, listeners |-> <<>>]
EmptyTask == [services |-> <<>>, tgs |-> <<>>]

Init ==
    /\ \E k \in DOMAIN Worlds : \E w \in Worlds[k] : world = w /\ services = w.backends /\ edits = w.edits
    /\ stage = "start"
    /\ task = EmptyTask
    /\ stack = EmptyStack
    /\ left = <<>>

Fail == stage' = "failed" /\ stack' = EmptyStack /\ task' = EmptyTask /\ UNCHANGED left

\* A Service that is not ours, or no longer, has an empty model, unless it is
\* protected from deletion.
Start ==
    /\ stage = "start"
    /\ IF ~IsServiceSupported(svc) /\ svc.finalizer /\ getDeletionProtectionViaAnnotation(svc) # {FALSE}
       THEN Fail
       ELSE /\ stage' = IF IsServiceSupported(svc) THEN "loadbalancer" ELSE "done"
            /\ UNCHANGED <<task, stack, left>>
    /\ UNCHANGED <<world, services, edits>>

BuildLoadBalancer ==
    /\ stage = "loadbalancer"
    /\ IF buildLoadBalancerSpec(svc.ann) = {} THEN Fail
       ELSE /\ \E spec \in buildLoadBalancerSpec(svc.ann) : stack' = [stack EXCEPT !.lb = spec]
            /\ stage' = "config"
            /\ UNCHANGED <<task, left>>
    /\ UNCHANGED <<world, services, edits>>

\* With TCP_UDP listeners, ports of one number are one listener.
listenPorts == IF ~shouldUseTCPUDP THEN svc.ports
               ELSE LET numbers == {p.port : p \in ToSet(svc.ports)}
                    IN [k \in 1..Cardinality(numbers) |->
                          samePort([port |-> CHOOSE n \in numbers : Cardinality({m \in numbers : m < n}) = k - 1])[1]]
ConfigureListeners ==
    /\ stage = "config"
    /\ IF \/ ~validateTLSPortsSet(tlsPorts)
          \/ \E p \in ToSet(svc.ports) : p.port \in tcpUdpPortsSet /\ ~validateMultiProtocolUsage(samePort(p))
       THEN Fail
       ELSE left' = listenPorts /\ stage' = "listeners" /\ UNCHANGED <<task, stack>>
    /\ UNCHANGED <<world, services, edits>>

\* Ports come as they are declared, or in any order where the code walks a map.
\* A second listener of the same number is not added.
BuildListener(k) ==
    /\ stage = "listeners" /\ k \in DOMAIN left
    /\ shouldUseTCPUDP \/ k = 1
    /\ IF buildListenerSpec(left[k]) = {} THEN Fail
       ELSE /\ \E l \in buildListenerSpec(left[k]) :
                 /\ task' = l.task
                 /\ stack' = [stack EXCEPT !.listeners = @ @@ (left[k].port :> l.spec)]
            /\ left' = RemoveAt(left, k)
            /\ UNCHANGED stage
    /\ UNCHANGED <<world, services, edits>>

Finish ==
    /\ stage = "listeners" /\ left = <<>>
    /\ stage' = "done"
    /\ UNCHANGED <<world, services, task, stack, left, edits>>

\* Someone changes or deletes a backend Service.
EditService ==
    /\ edits # <<>>
    /\ services' = [n \in (DOMAIN services \ {edits[1].name}) \cup (IF edits[1].to = {} THEN {} ELSE {edits[1].name}) |->
                      IF n = edits[1].name THEN CHOOSE s \in edits[1].to : TRUE ELSE services[n]]
    /\ edits' = Tail(edits)
    /\ UNCHANGED <<world, stage, task, stack, left>>

Next ==
    \/ Start
    \/ BuildLoadBalancer
    \/ ConfigureListeners
    \/ \E k \in DOMAIN left : BuildListener(k)
    \/ Finish
    \/ EditService

Spec == Init /\ [][Next]_vars

-------------------------------------------------------------------------------
(* Properties                                                                   *)

Built == stage = "done" /\ stack.lb # <<>>
TargetGroups == {task.tgs[id] : id \in DOMAIN task.tgs}
\* The nodes admit exactly what the load balancer will send them: the traffic of
\* each target group, from the clients where AWS keeps their address and from the
\* load balancer's subnets where it does not, and its health checks, on the
\* right port; with security groups on the load balancer, from its backend
\* group, and then from a group the load balancer really has.
TargetsReachable ==
    \A tg \in TargetGroups : Reachable(world.vpc, stack.lb, ToSet(sourceRanges(svc, svc.ann)), flags.restricted, tg)

\* Every port of the Service is served: by a listener of its number that carries
\* its protocol, encrypted exactly when certificates are given for it, which
\* sends to target groups that understand it and to the Service and the port
\* that were named.  A managed security group lets in exactly the declared
\* sources on exactly these ports.
ServedAsDeclared ==
    LET encrypted(p) == p.protocol = "TCP" /\ Ann(svc.ann, "ssl-cert", <<>>) # <<>> /\ (tlsPorts = {} \/ listed(tlsPorts, p))
        sources == ToSet(sourceRanges(svc, svc.ann))
        lists == Ann(svc.ann, "security-group-prefix-lists", {})
        others == IF sources \cup lists # {} THEN {} ELSE {"any4"} \cup (IF stack.lb.ipAddressType = "dualstack" THEN {"any6"} ELSE {})
    IN Built =>
         /\ \A p \in ToSet(svc.ports) :
              /\ p.port \in DOMAIN stack.listeners
              /\ LET l == stack.listeners[p.port]
                     own == task.tgs[l.to[1].tg]
                 IN /\ p.protocol \in Carried(l.protocol)
                    /\ l.protocol \notin Both => (l.protocol = "TLS" <=> encrypted(p))
                    /\ (l.protocol = "TLS") <=> (l.certificates # <<>>)
                    /\ own.service = svc.name /\ own.port.port = p.port
                    /\ \A k \in DOMAIN l.to : "tg" \in DOMAIN l.to[k] =>
                         LET tg == task.tgs[l.to[k].tg]
                         IN IF l.protocol = "TLS" THEN tg.protocol \in {"TCP", "TLS"} ELSE tg.protocol = l.protocol
         /\ DOMAIN stack.listeners \subseteq {p.port : p \in ToSet(svc.ports)}
         /\ "managed" \in stack.lb.sgs.groups =>
              {r \in stack.lb.sgs.managed : r[1] # "ICMP"}
                = {<<p.protocol, p.port, x>> : p \in ToSet(svc.ports),
                     x \in {<<"cidr", Canonical[c]>> : c \in sources \cup others} \cup {<<"list", i>> : i \in lists}}

\* A build never asks for what AWS cannot change in place and nobody asked to
\* change: an existing load balancer keeps its scheme and its subnets unless an
\* annotation names others, and a load balancer without security groups stays
\* without, one with groups keeps some.
KeepsWhatAWSFixes ==
    Built => \A e \in world.existing :
        /\ {"scheme", "internal"} \cap DOMAIN svc.ann = {} => stack.lb.scheme = e.scheme
        /\ "subnets" \notin DOMAIN svc.ann /\ stack.lb.scheme = e.scheme =>
             {n.id : n \in ToSet(stack.lb.subnets)} = ToSet(e.subnets)
        /\ (stack.lb.sgs.groups = {}) <=> (e.groups = {})

\* However the subnets were found, they are ones AWS accepts for this load
\* balancer, and every address that was asked for is in the subnet it belongs to.
Placed ==
    Built => /\ SubnetsServe(world.vpc, stack.lb.subnets, [type |-> "network", ipAddressType |-> stack.lb.ipAddressType])
             /\ AddressesPlaced(stack.lb.mappings, stack.lb.subnets, Ann(svc.ann, "private-ipv4-addresses", <<>>),
                                Ann(svc.ann, "ipv6-addresses", <<>>))

\* All target groups of one build see the same version of a backend Service,
\* even when it changes between two listeners.
OneServiceVersion == \A t, u \in TargetGroups : t.service = u.service => t.version = u.version
=============================================================================
