------------------------------ MODULE GatewayBuild ------------------------------
(* The model the controller builds of one Gateway (pkg/gateway/model): its load  *)
(* balancer with security groups and subnets, its listeners, the target groups   *)
(* of the routes and what their targets must admit, under the configurations     *)
(* that the class, the Gateway, the Services and the routes give                *)
(* (pkg/gateway, controllers/gateway/config_resolver.go).  Which routes attach   *)
(* where, and the rules of ALB listeners, are in GatewayRoutes.                  *)
(*                                                                              *)
(* A configuration is a function of the fields that are set, so a field that is  *)
(* nil is one outside the domain.  What may fail returns the set of its results: *)
(* {} is an error.  An optional value is a set as well: {} is unset.             *)
EXTENDS Reachability, TLC

CONSTANT Worlds  \* families of Gateways, configurations, routes and networks a build may meet

VARIABLES
    world,   \* [type, class, gateway, tgcs, services, listeners, routes, flags, defaults, vpc, existing, ...]
    stage,   \* where the build is; "done" and "failed" end it
    config,  \* [lb, tgc]: the configurations after merging
    routes,  \* the routes of every port, with their backends loaded
    task,    \* [tgs, frontend]: the target groups made, and the ALBs behind an NLB
    stack,   \* [lb, listeners]
    left     \* the ports whose listener is not built yet

vars == <<world, stage, config, routes, task, stack, left>>

None == <<>>
flags == world.flags
network == world.type = "network"
optional(c, f) == IF f \in DOMAIN c THEN {c[f]} ELSE {}

-------------------------------------------------------------------------------
(* Merging configurations (lb_config_merger.go, tg_config_constructor.go)        *)

PreferGateway(class) == Ann(class, "mergingMode", "prefer-gateway-class") = "prefer-gateway"

\* One source per field, except that maps are merged key by key.
takeOne(high, low, fields) ==
    [f \in (DOMAIN high \cup DOMAIN low) \cap fields |-> IF f \in DOMAIN high THEN high[f] ELSE low[f]]
mergeKeys(high, low, f) == f :> (Ann(high, f, None) @@ Ann(low, f, None))

LBFields ==
    {"loadBalancerName", "scheme", "ipAddressType", "privateLink", "customerOwnedIpv4Pool", "ipv4IPAMPoolId",
     "loadBalancerSubnets", "loadBalancerSubnetsSelector", "securityGroups", "securityGroupPrefixes", "sourceRanges",
     "enableICMP", "manageBackendSecurityGroupRules", "wafV2", "shieldConfiguration", "disableSecurityGroup",
     "defaultTargetGroupConfiguration"}
Merge(class, gateway) ==
    LET high == IF PreferGateway(class) THEN gateway ELSE class
        low == IF PreferGateway(class) THEN class ELSE gateway
    IN takeOne(high, low, LBFields) @@ mergeKeys(high, low, "tags") @@ mergeKeys(high, low, "loadBalancerAttributes")
       @@ mergeKeys(high, low, "listenerConfigurations")

TGFields ==
    {"targetGroupName", "ipAddressType", "healthCheckConfig", "nodeSelector", "targetType", "protocol", "protocolVersion",
     "targetControlPort", "enableMultiCluster"}
merge(high, low) ==
    takeOne(high, low, TGFields) @@ mergeKeys(high, low, "tags") @@ mergeKeys(high, low, "targetGroupAttributes")

mergeWithLongestMatch_last(initial, cfgs, route) ==
    LET fits(c) == c.kind = route.kind /\ c.ns \in {"", route.ns} /\ c.name \in {"", route.name}
        fitting == {k \in DOMAIN cfgs : fits(cfgs[k])}
    IN IF fitting = {} THEN initial ELSE merge(cfgs[CHOOSE k \in fitting : \A j \in fitting : j <= k].props, initial)

\* The configuration of the route itself, of its namespace, of its kind; the
\* first of several that are equally close.
mergeWithLongestMatch(initial, cfgs, route) ==
    LET rank(c) == CASE c.kind # route.kind -> 0
                     [] c.ns = route.ns /\ c.name = route.name -> 3
                     [] c.name = "" /\ c.ns = route.ns -> 2
                     [] c.name = "" /\ c.ns = "" -> 1
                     [] OTHER -> 0
        best(k) == rank(cfgs[k]) > 0 /\ \A j \in DOMAIN cfgs : \/ rank(cfgs[j]) < rank(cfgs[k])
                                                               \/ rank(cfgs[j]) = rank(cfgs[k]) /\ k <= j
        matched == {cfgs[k].props : k \in {x \in DOMAIN cfgs : best(x)}}
    IN IF matched = {} THEN initial ELSE merge(CHOOSE p \in matched : TRUE, initial)
ConstructTargetGroupConfigForRoute(tgc, route) == mergeWithLongestMatch(tgc.default, tgc.routes, route)

\* {{}}: neither names a default.  The routes of the weaker one are lost.
MergeDefaultTGCs(class, gateway, preferGateway) ==
    IF class = {} \/ gateway = {} THEN class \cup gateway
    ELSE LET high == IF preferGateway THEN gateway ELSE class
             low == IF preferGateway THEN class ELSE gateway
         IN {[h EXCEPT !.default = merge(@, l.default)] : h \in high, l \in low}

\* A default must exist and have no target of its own.
lookUpDefaultTGCByName(name) == {world.tgcs[n] : n \in {x \in {name} \cap DOMAIN world.tgcs : world.tgcs[x].target = {}}}
defaultTGCs(lbcs) == UNION {optional(c, "defaultTargetGroupConfiguration") : c \in lbcs}
resolveAndMergeDefaultTGCs ==
    LET found(lbcs) == UNION {lookUpDefaultTGCByName(n) : n \in defaultTGCs(lbcs)}
    IN IF \E n \in defaultTGCs(world.class) \cup defaultTGCs(world.gateway) : lookUpDefaultTGCByName(n) = {} THEN {}
       ELSE {MergeDefaultTGCs(found(world.class), found(world.gateway), \E c \in world.class : PreferGateway(c))}

\* A configuration that is alone is used as it is.
getLoadBalancerConfigForGateway ==
    CASE world.class = {} /\ world.gateway = {} -> None
      [] world.class = {} -> CHOOSE g \in world.gateway : TRUE
      [] world.gateway = {} -> CHOOSE c \in world.class : TRUE
      [] OTHER -> Merge(CHOOSE c \in world.class : TRUE, CHOOSE g \in world.gateway : TRUE)

-------------------------------------------------------------------------------
(* Backends of routes (routeutils/backend_service.go, backend_gateway.go)        *)

LookUpTargetGroupConfiguration(kind, name) ==
    {world.tgcs[n] : n \in {x \in DOMAIN world.tgcs : world.tgcs[x].target = {<<kind, name>>}}}
\* The Service's own configuration comes before the Gateway's default.
MergeProps(own, default, route) ==
    LET props(tgcs) == {ConstructTargetGroupConfigForRoute(t, route) : t \in tgcs}
    IN CASE own = {} /\ default = {} -> {None}
         [] own = {} -> props(default)
         [] default = {} -> props(own)
         [] OTHER -> {merge(o, d) : o \in props(own), d \in props(default)}

firstPort(svc, n) == LET p == SelectSeq(svc.ports, LAMBDA q : q.port = n) IN p[1]
\* References that do not resolve never get here.
commonBackendLoader(ref, route, default) ==
    CASE ref.kind = "Service" ->
           {[kind |-> ref.kind, name |-> ref.name, weight |-> ref.weight, service |-> world.services[ref.name],
             port |-> firstPort(world.services[ref.name], ref.port), props |-> p] :
               p \in MergeProps(LookUpTargetGroupConfiguration("Service", ref.name), default, route)}
      [] ref.kind = "Gateway" ->
           {[kind |-> ref.kind, name |-> ref.name, weight |-> ref.weight, port |-> ref.port, props |-> p] :
               p \in MergeProps(LookUpTargetGroupConfiguration("Gateway", ref.name), {}, route)}
      [] OTHER -> {[kind |-> ref.kind, name |-> ref.name, weight |-> ref.weight]}
loadAttachedRules(route, default) ==
    [route EXCEPT !.refs = [k \in DOMAIN @ |-> CHOOSE b \in commonBackendLoader(@[k], route, default) : TRUE]]

-------------------------------------------------------------------------------
(* The load balancer (base_model_builder.go, model_build_loadbalancer.go)        *)

buildLoadBalancerScheme(c) == {Ann(c, "scheme", world.defaults.scheme)} \cap {"internal", "internet-facing"}
buildLoadBalancerIPAddressType(c) ==
    {Ann(c, "ipAddressType", "ipv4")} \cap {"ipv4", "dualstack", "dualstack-without-public-ipv4"}
isIPv6Supported(ip) == ip \in {"dualstack", "dualstack-without-public-ipv4"}
isDeleteProtected(c) == Ann(Ann(c, "loadBalancerAttributes", None), "deletion_protection.enabled", "false") = "true"

ProcessTags(tags) ==
    {IF flags.defaultTagsLowPriority THEN t @@ world.defaults.tags ELSE world.defaults.tags @@ t :
        t \in {x \in {tags} : DOMAIN x \cap world.defaults.externalTags = {}}}
buildLoadBalancerName(c, scheme) == IF "loadBalancerName" \in DOMAIN c THEN <<c["loadBalancerName"]>> ELSE <<"gateway", scheme>>

(* Subnets (model_build_subnet.go, subnet/)                                      *)

\* Each kind of allocation is given for all subnets or for none.
validateSubnetsInput(cfgs, scheme, ip) ==
    cfgs # <<>> =>
        LET given == DOMAIN cfgs[1]
        IN /\ \A k \in DOMAIN cfgs : DOMAIN cfgs[k] = given
           /\ given \subseteq {"identifier"} \/ network
           /\ "eip" \in given => scheme = "internet-facing"
           /\ "ipv6" \in given => ip = "dualstack"
           /\ "ipv4" \in given => scheme = "internal"

\* Subnets that are named or selected, those the load balancer has, or the ones discovered.
resolveEC2Subnets(c, cfgs, scheme, ip) ==
    LET lb == [type |-> world.type, scheme |-> scheme, ipAddressType |-> ip]
        selector == Ann(c, "loadBalancerSubnetsSelector", {})
        kept == {e \in world.existing : e.scheme = scheme}
    IN CASE cfgs # <<>> /\ "identifier" \in DOMAIN cfgs[1] ->
              ResolveViaNameOrIDSlice(world.vpc, [k \in DOMAIN cfgs |-> cfgs[k]["identifier"]], lb)
         [] selector # {} -> ResolveViaSelector(world.vpc, selector, lb)
         [] kept # {} -> UNION {ResolveViaNameOrIDSlice(world.vpc, [k \in DOMAIN e.subnets |-> <<"id", e.subnets[k]>>], lb) : e \in kept}
         [] OTHER -> ResolveViaDiscovery(world.vpc, lb)

allocated(cfgs, f) == IF cfgs # <<>> /\ f \in DOMAIN cfgs[1] THEN {[k \in DOMAIN cfgs |-> cfgs[k][f]]} ELSE {}
\* {{}} when no address is asked for.  An address goes to the subnet it lies in,
\* an elastic one and a prefix to the subnet of its place.
mutated(cfgs, seq, k, f, cidrs) ==
    IF allocated(cfgs, f) = {} THEN {{}} ELSE UNION {{{ip} : ip \in OnlyAddress(ips, cidrs)} : ips \in allocated(cfgs, f)}
mappingOf(cfgs, seq, k) ==
    LET at(f) == {a[k] : a \in allocated(cfgs, f)}
    IN {[subnet |-> seq[k].id, eip |-> at("eip"), ipv4 |-> v4, ipv6 |-> v6, prefix |-> at("nat")] :
          v4 \in mutated(cfgs, seq, k, "ipv4", {seq[k].cidr4}),
          v6 \in mutated(cfgs, seq, k, "ipv6", GetSubnetAssociatedIPv6CIDRs(seq[k]))}
mappingsAllowed(cfgs, seq) ==
    /\ \A f \in {"eip", "ipv4", "ipv6", "nat"} : allocated(cfgs, f) # {} => Len(cfgs) = Len(seq)
    /\ \A ips \in allocated(cfgs, "ipv4") : ToSet(ips) \cap (V6 \cup {"bad"}) = {}
    /\ \A ips \in allocated(cfgs, "ipv6") : ToSet(ips) \subseteq V6
    /\ \A prefixes \in allocated(cfgs, "nat") :
         \A k \in DOMAIN seq : ValidateSourceNatPrefixForSubnetPair(prefixes[k], seq[k])
buildSubnetMappings(cfgs, seq) ==
    LET each == [k \in DOMAIN seq |-> IF network THEN mappingOf(cfgs, seq, k)
                                      ELSE {[subnet |-> seq[k].id, eip |-> {}, ipv4 |-> {}, ipv6 |-> {}, prefix |-> {}]}]
    IN IF (network /\ ~mappingsAllowed(cfgs, seq)) \/ \E k \in DOMAIN seq : each[k] = {} THEN {}
       ELSE {[k \in DOMAIN seq |-> CHOOSE m \in each[k] : TRUE]}

buildLoadBalancerSubnets(c, scheme, ip) ==
    LET cfgs == Ann(c, "loadBalancerSubnets", <<>>)
    IN IF ~validateSubnetsInput(cfgs, scheme, ip) THEN {}
       ELSE UNION {{[ec2 |-> seq, mappings |-> m, nat |-> allocated(cfgs, "nat") # {}] : m \in buildSubnetMappings(cfgs, seq)} :
                     seq \in resolveEC2Subnets(c, cfgs, scheme, ip)}

(* Security groups (model_build_security_group.go)                               *)

getSgRuleProtocol(protocol) == IF protocol = "UDP" THEN "UDP" ELSE "TCP"
\* A permission is <<protocol, port, source>>.  Prefix lists add to the ranges.
buildManagedSecurityGroupIngressPermissions(c, ip) ==
    LET ranges == ToSet(Ann(c, "sourceRanges", <<"any4", "any6">>))
        cidrs == {x \in {Canonical[r] : r \in ranges} : x \in V6 => isIPv6Supported(ip)}
        listened == {<<getSgRuleProtocol(l.protocol), l.port>> : l \in ToSet(world.listeners)}
    IN IF ~(ranges \subseteq DOMAIN Canonical) THEN {}
       ELSE {{<<l[1], l[2], <<"cidr", x>>>> : l \in listened, x \in cidrs}
             \cup {<<l[1], l[2], <<"list", x>>>> : l \in listened, x \in Ann(c, "securityGroupPrefixes", {})}
             \cup {<<"ICMP", 3, <<"cidr", x>>>> : x \in {y \in cidrs : Ann(c, "enableICMP", FALSE)}}}

\* Groups that are named resolve to themselves unless they are unknown (external).
ResolveViaNameOrID(names) == IF "unknown" \in names THEN {} ELSE {names}
NoSecurityGroups == [groups |-> {}, backend |-> "none", managed |-> {}]

handleManagedSecurityGroup(c, ip) ==
    {[groups |-> {"managed"} \cup (IF flags.backendSG THEN {"shared"} ELSE {}),
      backend |-> IF flags.backendSG THEN "shared" ELSE "managed", managed |-> rules] :
        rules \in buildManagedSecurityGroupIngressPermissions(c, ip)}
handleExplicitSecurityGroups(c, named) ==
    LET manage == Ann(c, "manageBackendSecurityGroupRules", FALSE)
    IN {[groups |-> sgs \cup (IF manage THEN {"shared"} ELSE {}), backend |-> IF manage THEN "shared" ELSE "none", managed |-> {}] :
          sgs \in {x \in ResolveViaNameOrID(named) : manage => flags.backendSG}}
buildSecurityGroups(c, ip) ==
    LET named == Ann(c, "securityGroups", {})
    IN CASE network /\ Ann(c, "disableSecurityGroup", FALSE) -> {NoSecurityGroups}
         [] named = {} -> handleManagedSecurityGroup(c, ip)
         [] OTHER -> handleExplicitSecurityGroups(c, named)

\* The values of the addons, set ({} is not) when asked for, or to be turned off (addons/model_build_addon.go).
supportedAddons == ("minimumLoadBalancerCapacity" :> 0) @@ IF network THEN None ELSE ("wafV2" :> "") @@ ("shieldConfiguration" :> FALSE)
BuildAddons(c) ==
    LET asked(a) == IF world.deleting THEN supportedAddons[a] ELSE Ann(c, a, supportedAddons[a])
    IN [a \in DOMAIN supportedAddons |-> {v \in {asked(a)} : v # supportedAddons[a] \/ a \in world.addons}]

buildLoadBalancerSpec(c, scheme, ip, subnets, sgs, tags) ==
    [name |-> buildLoadBalancerName(c, scheme), type |-> world.type, scheme |-> scheme, ipAddressType |-> ip,
     subnets |-> subnets.ec2, mappings |-> subnets.mappings, sgs |-> sgs, tags |-> tags,
     attributes |-> Ann(c, "loadBalancerAttributes", None), addons |-> BuildAddons(c),
     prefixForSourceNat |-> IF network THEN {IF subnets.nat THEN "on" ELSE "off"} ELSE {},
     privateLink |-> IF network THEN optional(c, "privateLink") ELSE {},
     pool |-> IF network THEN {} ELSE optional(c, "customerOwnedIpv4Pool"),
     ipam |-> IF network THEN {} ELSE optional(c, "ipv4IPAMPoolId")]

buildLoadBalancer(c) ==
    UNION {{buildLoadBalancerSpec(c, scheme, ip, subnets, sgs, tags) :
              subnets \in buildLoadBalancerSubnets(c, scheme, ip), sgs \in buildSecurityGroups(c, ip),
              tags \in ProcessTags(Ann(c, "tags", None))} :
             <<scheme, ip>> \in buildLoadBalancerScheme(c) \X buildLoadBalancerIPAddressType(c)}

-------------------------------------------------------------------------------
(* Target groups (model_build_target_group.go)                                   *)

healthCheck(b) == Ann(b.props, "healthCheckConfig", None)
GetTargetType(b) == IF b.kind = "Gateway" THEN "alb" ELSE Ann(b.props, "targetType", world.defaults.targetType)
GetTargetGroupPort(b, type) ==
    CASE b.kind = "Gateway" -> b.port
      [] type = "instance" -> b.port.nodePort
      [] OTHER -> IF b.port.targetPort[1] = "int" THEN b.port.targetPort[2] ELSE 1
GetIdentifierPort(b) == IF b.kind = "Gateway" THEN <<"int", b.port>> ELSE b.port.targetPort

LookupServicePort(svc, ref) ==
    LET found == SelectSeq(svc.ports, LAMBDA p : ref = <<"name", p.name>>) IN {found[k] : k \in {1} \cap DOMAIN found}
\* The port of a health check: of the nodes where traffic stays local, the
\* traffic's own, a number, or the one of a named port of the Service.
GetHealthCheckPort(b, type, local) ==
    LET asked == Ann(healthCheck(b), "port", TrafficPort)
        unset == "port" \notin DOMAIN healthCheck(b)
        named == {IF type = "instance" THEN <<"int", p.nodePort>> ELSE p.targetPort : p \in LookupServicePort(b.service, asked)}
    IN CASE b.kind = "Gateway" -> {asked}
         [] local /\ unset -> {<<"int", b.service.healthCheckNodePort>>}
         [] asked = TrafficPort \/ asked[1] = "int" -> {asked}
         [] OTHER -> {p \in named : p[1] = "int"}

inferTargetGroupProtocolFromRoute(kind) ==
    CASE kind \in {"HTTPRoute", "GRPCRoute"} -> "HTTP"
      [] kind = "UDPRoute" -> "UDP"
      [] kind = "TLSRoute" -> IF network THEN "TLS" ELSE "HTTPS"
      [] OTHER -> "TCP"
buildTargetGroupProtocol(b, kind, listenerProtocol) ==
    LET asked == optional(b.props, "protocol")
    IN CASE listenerProtocol \in {"TCP_UDP", "QUIC", "TCP_QUIC"} -> {listenerProtocol}
         [] asked = {} -> {inferTargetGroupProtocolFromRoute(kind)}
         [] network -> asked \cap {"TCP", "TLS", "UDP", "TCP_UDP"}
         [] OTHER -> asked \cap {"HTTP", "HTTPS"}
\* {} on a Network Load Balancer
buildTargetGroupProtocolVersion(b, kind, listenerProtocol) ==
    CASE network -> {}
      [] listenerProtocol # "HTTPS" -> {"HTTP1"}
      [] "protocolVersion" \in DOMAIN b.props -> {b.props["protocolVersion"]}
      [] kind = "GRPCRoute" -> {"GRPC"}
      [] OTHER -> {IF b.port.h2c THEN "HTTP2" ELSE "HTTP1"}

buildTargetGroupHealthCheckProtocol(b, type, protocol, local) ==
    Ann(healthCheck(b), "protocol", IF ~network THEN protocol ELSE IF local \/ type = "alb" THEN "HTTP" ELSE "TCP")
buildTargetGroupHealthCheckPath(b, version, hcProtocol, local) ==
    IF hcProtocol = "TCP" THEN {}
    ELSE {Ann(healthCheck(b), "path",
              CASE version = {"GRPC"} -> "/AWS.ALB/healthcheck" [] local -> "/healthz" [] OTHER -> "/")}
buildTargetGroupHealthCheckMatcher(b, version, hcProtocol) ==
    CASE hcProtocol = "TCP" -> {}
      [] version = {"GRPC"} -> {<<"grpc", Ann(healthCheck(b), "grpcCode", "12")>>}
      [] OTHER -> {<<"http", Ann(healthCheck(b), "httpCode", "200-399")>>}
buildTargetGroupHealthCheckNumbers(b, local) ==
    LET defaults == IF local THEN [interval |-> 10, timeout |-> 6, healthyThreshold |-> 2, unhealthyThreshold |-> 2]
                    ELSE [interval |-> 15, timeout |-> 5, healthyThreshold |-> 3, unhealthyThreshold |-> 3]
    IN [f \in DOMAIN defaults |-> Ann(healthCheck(b), f, defaults[f])]
buildTargetGroupHealthCheckConfig(b, type, protocol, version) ==
    LET local == type = "instance" /\ network /\ b.service.local
        hcProtocol == buildTargetGroupHealthCheckProtocol(b, type, protocol, local)
    IN {[port |-> port, protocol |-> hcProtocol, path |-> buildTargetGroupHealthCheckPath(b, version, hcProtocol, local),
         matcher |-> buildTargetGroupHealthCheckMatcher(b, version, hcProtocol),
         numbers |-> buildTargetGroupHealthCheckNumbers(b, local)] : port \in GetHealthCheckPort(b, type, local)}

GetIPAddressType(b) == IF b.kind = "Service" /\ b.service.ipv6 THEN "ipv6" ELSE "ipv4"
buildTargetGroupIPAddressType(b) == {x \in {GetIPAddressType(b)} : x = "ipv6" => isIPv6Supported(stack.lb.ipAddressType)}
\* {{}}: none is asked for
buildTargetControlPort(b, type, protocol) ==
    {p \in {optional(b.props, "targetControlPort")} : p # {} => protocol \in {"HTTP", "HTTPS"} /\ type = "ip"}
buildTargetGroupName(b, route, type, protocol, version, control) ==
    IF "targetGroupName" \in DOMAIN b.props THEN <<b.props["targetGroupName"]>>
    ELSE <<route.ns, route.name, route.kind, b.name, IF type = "instance" THEN <<"int", b.port.nodePort>> ELSE GetIdentifierPort(b),
           type, protocol, version, control>>

\* The control port is checked and becomes part of the name only.
buildTargetGroupSpec(b, route, listenerProtocol) ==
    LET type == GetTargetType(b)
        version == buildTargetGroupProtocolVersion(b, route.kind, listenerProtocol)
    IN UNION {{[name |-> buildTargetGroupName(b, route, type, protocol, version, control), type |-> type,
                port |-> GetTargetGroupPort(b, type), protocol |-> protocol, version |-> version, ip |-> ip, health |-> hc,
                attributes |-> Ann(b.props, "targetGroupAttributes", None), tags |-> tags] :
                  hc \in buildTargetGroupHealthCheckConfig(b, type, protocol, version),
                  ip \in buildTargetGroupIPAddressType(b), tags \in ProcessTags(Ann(b.props, "tags", None)),
                  control \in buildTargetControlPort(b, type, protocol)} :
                protocol \in {p \in buildTargetGroupProtocol(b, route.kind, listenerProtocol) : GetTargetGroupPort(b, type) # 0}}

-------------------------------------------------------------------------------
(* What the targets must admit (model_build_target_group_binding_network.go):    *)
(* {} leaves them alone, a rule is <<source, protocol, port>>                    *)

standardBuilder(target, health, protocol) ==
    LET ports == IF ~flags.restricted
                 THEN {<<"TCP", AllPorts>>} \cup (IF protocol \in Datagram THEN {<<"UDP", AllPorts>>} ELSE {})
                 ELSE {<<IF protocol \in Datagram THEN "UDP" ELSE "TCP", target>>}
                      \cup (IF protocol \in Datagram \/ (health[1] = "int" /\ IntValue(health) # IntValue(target))
                            THEN {<<"TCP", IF health[1] = "int" THEN health ELSE target>>} ELSE {})
    IN IF stack.lb.sgs.backend = "none" THEN {}
       ELSE {{<<<<"group", stack.lb.sgs.backend>>, p[1], p[2]>> : p \in ports}}

getPreserveClientIP(spec) ==
    spec.protocol \in Datagram \/ Ann(spec.attributes, PreserveKey, IF spec.type = "instance" THEN "true" ELSE "false") = "true"
getDefaultIPSourceRanges(spec) ==
    CASE stack.lb.scheme = "internal" -> IF spec.ip = "ipv4" THEN world.vpc.cidrs4 ELSE world.vpc.cidrs6
      [] OTHER -> IF spec.ip = "ipv4" THEN {"any4"} ELSE {"any6"}
parseSubnetCIDRBlocks(spec) ==
    UNION {IF spec.ip = "ipv4" THEN {s.cidr4} ELSE {b.cidr : b \in s.cidr6} : s \in ToSet(stack.lb.subnets)}

buildHealthCheckSourceCIDRs_tcp(preserve, traffic, subnets, target, spec, defaulted) ==
    IF /\ spec.health.port = TrafficPort \/ IntValue(spec.health.port) = IntValue(target)
       /\ ~preserve \/ defaulted \/ traffic \cap {"any4", "any6"} # {}
    THEN {} ELSE subnets

\* Health checks need no rule of their own where the rule for the traffic covers them.
buildHealthCheckSourceCIDRs(preserve, traffic, subnets, target, spec, defaulted) ==
    IF /\ spec.protocol \notin Datagram
       /\ spec.health.port = TrafficPort \/ IntValue(spec.health.port) = IntValue(target)
       /\ ~preserve \/ defaulted \/ traffic \cap {"any4", "any6"} # {}
    THEN {} ELSE subnets

\* Without security groups the targets admit the clients, or the load balancer's subnets.
nlbNoSecurityGroups(target, spec) ==
    LET subnets == parseSubnetCIDRBlocks(spec)
        preserve == getPreserveClientIP(spec)
        declared == ToSet(Ann(config.lb, "sourceRanges", <<>>))
        defaulted == preserve /\ declared = {}
        traffic == CASE ~preserve -> subnets [] defaulted -> getDefaultIPSourceRanges(spec) [] OTHER -> declared
        protocols == IF spec.protocol \in Both THEN {"TCP", "UDP"} ELSE IF spec.protocol \in Datagram THEN {"UDP"} ELSE {"TCP"}
        checked == IF spec.health.port = TrafficPort THEN target ELSE spec.health.port
    IN {{<<<<"cidr", c>>, p, target>> : c \in traffic, p \in protocols}
        \cup {<<<<"cidr", c>>, "TCP", checked>> :
                c \in buildHealthCheckSourceCIDRs(preserve, traffic, subnets, target, spec, defaulted)}}

buildTargetGroupBindingSpec(b, spec) ==
    LET target == IF spec.type = "instance" THEN <<"int", b.port.nodePort>> ELSE b.port.targetPort
    IN [target |-> target, nodes |-> IF spec.type = "instance" THEN optional(b.props, "nodeSelector") ELSE {},
        multiCluster |-> Ann(b.props, "enableMultiCluster", FALSE),
        networking |-> IF stack.lb.sgs.groups = {} THEN nlbNoSecurityGroups(target, spec)
                       ELSE standardBuilder(target, spec.health.port, spec.protocol)]

buildTargetGroupResourceID(b, route) == <<route.kind, route.ns, route.name, b.kind, b.name, GetIdentifierPort(b)>>

\* A specification is computed for every use of a Service; the first one is kept.
buildTargetGroupFromService(t, route, b, listenerProtocol) ==
    LET id == buildTargetGroupResourceID(b, route)
    IN {[id |-> id,
         task |-> IF id \in DOMAIN t.tgs THEN t
                  ELSE [t EXCEPT !.tgs = @ @@ (id :> ([binding |-> buildTargetGroupBindingSpec(b, spec), by |-> <<[route EXCEPT !.refs = <<>>], b.kind, b.name>>] @@ spec))]] :
          spec \in buildTargetGroupSpec(b, route, listenerProtocol)}
\* An ALB has no binding: the frontend's deployer registers it.
buildTargetGroupFromGateway(t, route, b, port, listenerProtocol) ==
    LET id == buildTargetGroupResourceID(b, route)
    IN IF id \in DOMAIN t.tgs THEN {[id |-> id, task |-> t]}
       ELSE {[id |-> id,
              task |-> [t EXCEPT !.tgs = @ @@ (id :> ([binding |-> [target |-> <<"int", b.port>>, networking |-> {}], by |-> <<[route EXCEPT !.refs = <<>>], b.kind, b.name>>] @@ spec)),
                                 !.frontend = (spec.name :> [port |-> port, target |-> b.name, targetPort |-> spec.port]) @@ @]] :
               spec \in buildTargetGroupSpec(b, route, listenerProtocol)}
\* A target group that is named must exist (external).
buildTargetGroupFromStaticName(t, b) == {[id |-> <<"arn", n>>, task |-> t] : n \in {b.name} \cap world.existingTGs}
buildTargetGroup(t, route, b, port, listenerProtocol) ==
    CASE b.kind = "Service" -> buildTargetGroupFromService(t, route, b, listenerProtocol)
      [] b.kind = "Gateway" -> buildTargetGroupFromGateway(t, route, b, port, listenerProtocol)
      [] OTHER -> buildTargetGroupFromStaticName(t, b)

-------------------------------------------------------------------------------
(* Listeners (model_build_listener.go)                                           *)

isSecureProtocol(protocol) == protocol \in {"HTTPS", "TLS"}
mergeProtocols(stored, proposed) ==
    CASE stored = proposed -> {stored}
      [] {stored, proposed} = {"TCP", "UDP"} \/ (stored = "TCP_UDP" /\ proposed \in {"TCP", "UDP"}) -> {"TCP_UDP"}
      [] {stored, proposed} = {"TCP", "QUIC"} \/ (stored = "TCP_QUIC" /\ proposed \in {"TCP", "QUIC"}) -> {"TCP_QUIC"}
      [] OTHER -> {}
\* A TLS listener that passes through is a TCP listener.
gatewayProtocol(l) == IF l.passthrough THEN "TCP" ELSE l.protocol
mapGatewayListenerConfigsByPort(port) ==
    LET on == SelectSeq(world.listeners, LAMBDA l : l.port = port)
    IN FoldLeft(LAMBDA acc, l : UNION {mergeProtocols(p, gatewayProtocol(l)) : p \in acc}, {gatewayProtocol(on[1])}, on)
\* Settings are looked up by the protocol after merging.
mapLoadBalancerListenerConfigsByPort(port, protocol) ==
    Ann(Ann(config.lb, "listenerConfigurations", None), <<protocol, port>>, None)

\* Certificates that are not named are discovered by hostname, which has to find some.
buildCertificates(port, protocol, c) ==
    LET explicit == Ann(c, "defaultCertificate", <<>>) \o Ann(c, "certificates", <<>>)
    IN CASE ~isSecureProtocol(protocol) -> {<<>>}
         [] explicit # <<>> -> {explicit}
         [] OTHER -> {<<"discovered">> : x \in {port} \cap world.discoverable}
buildSSLPolicy(protocol, c) ==
    IF isSecureProtocol(protocol) THEN {Ann(c, "sslPolicy", world.defaults.sslPolicy)} ELSE {}
upgraded(protocol, c) ==
    IF ~Ann(c, "quicEnabled", FALSE) THEN {protocol}
    ELSE CASE protocol = "UDP" -> {"QUIC"} [] protocol = "TCP_UDP" -> {"TCP_QUIC"} [] OTHER -> {}
\* {{}}: no policy
buildListenerALPNPolicy(protocol, c) ==
    IF protocol # "TLS" \/ ~network THEN {{}}
    ELSE {{p} : p \in {Ann(c, "alpnPolicy", "None")} \cap {"None", "HTTP1Only", "HTTP2Only", "HTTP2Optional", "HTTP2Preferred"}}
\* {{}}: no mutual authentication.  A trust store that is named must exist (external).
buildMutualAuthenticationAttributes(protocol, c) ==
    IF network \/ ~isSecureProtocol(protocol) \/ "mutualAuthentication" \notin DOMAIN c THEN {{}}
    ELSE LET m == c["mutualAuthentication"]
             verify == m.mode = "verify"
         IN {{[mode |-> m.mode, trustStore |-> store,
               ignoreExpiry |-> IF verify /\ m.ignoreExpiry = {} THEN {FALSE} ELSE m.ignoreExpiry]} :
               store \in IF verify THEN {{s} : s \in {m.trustStore} \cap world.trustStores} ELSE {{}}}

buildListenerSpec(port, protocol, c) ==
    {[port |-> port, protocol |-> pr, certificates |-> certs, sslPolicy |-> buildSSLPolicy(protocol, c), alpn |-> alpn, mutual |-> m,
      attributes |-> Ann(c, "listenerAttributes", None), tags |-> stack.lb.tags, to |-> <<>>, stickiness |-> {}] :
        certs \in buildCertificates(port, protocol, c), pr \in upgraded(protocol, c),
        alpn \in buildListenerALPNPolicy(protocol, c), m \in buildMutualAuthenticationAttributes(protocol, c)}

pickOneL4Route_first(rs) == {rs[k] : k \in {1} \cap DOMAIN rs}

\* The oldest route, then the first by namespace and name, is the only one of an NLB listener.
pickOneL4Route(rs) ==
    LET before(r, s) == r.created < s.created \/ (r.created = s.created /\ r.rank < s.rank)
    IN {rs[CHOOSE k \in DOMAIN rs : \A j \in DOMAIN rs \ {k} : before(rs[k], rs[j])] : x \in IF rs = <<>> THEN {} ELSE {1}}

\* {} when a target group cannot be built; to is empty when nothing has a weight.
tuples(t, l, route) ==
    LET weight(b) == IF l.protocol \in {"QUIC", "TCP_QUIC"} THEN {} ELSE {b.weight}
        add(acc, b) == UNION {{[task |-> x.task, to |-> Append(a.to, [tg |-> x.id, weight |-> weight(b)])] :
                                 x \in buildTargetGroup(a.task, route, b, l.port, l.protocol)} : a \in acc}
    IN FoldLeft(add, {[task |-> t, to |-> <<>>]}, route.refs)
buildL4TargetGroupTuples(t, l, rs) ==
    UNION {{IF \A b \in ToSet(r.refs) : b.weight = 0 THEN [x EXCEPT !.to = <<>>] ELSE x : x \in tuples(t, l, r)} : r \in pickOneL4Route(rs)}
\* The target groups of all rules of an ALB listener, and who uses them.
buildListenerRules(t, l, rs) ==
    FoldLeft(LAMBDA acc, r : UNION {{[x EXCEPT !.to = a.to \o @] : x \in tuples(a.task, l, r)} : a \in acc},
             {[task |-> t, to |-> <<>>]}, rs)

\* {} on an error, otherwise the target groups and at most one listener.
buildListener(port) ==
    UNION {LET c == mapLoadBalancerListenerConfigsByPort(port, protocol)
               to(l) == IF network THEN buildL4TargetGroupTuples(task, l, routes[port]) ELSE buildListenerRules(task, l, routes[port])
           IN UNION {{[task |-> x.task,
                       made |-> IF network /\ x.to = <<>> THEN <<>>
                                ELSE port :> [l EXCEPT !.to = x.to, !.stickiness = IF network THEN optional(c, "targetGroupStickiness") ELSE {}]] :
                        x \in to(l)} : l \in buildListenerSpec(port, protocol, c)}
           : protocol \in mapGatewayListenerConfigsByPort(port)}

-------------------------------------------------------------------------------
(* The steps of a build                                                          *)

EmptyTask == [tgs |-> None, frontend |-> None]
EmptyStack == [lb |-> None, listeners |-> None]
NoConfig == [lb |-> None, tgc |-> {}]

Init ==
    /\ \E k \in DOMAIN Worlds : world \in Worlds[k]
    /\ stage = "config"
    /\ config = NoConfig
    /\ routes = None
    /\ task = EmptyTask
    /\ stack = EmptyStack
    /\ left = {}

Fail == stage' = "failed" /\ stack' = EmptyStack /\ task' = EmptyTask /\ UNCHANGED <<config, routes, left>>

ResolveConfig ==
    /\ stage = "config"
    /\ IF resolveAndMergeDefaultTGCs = {} THEN Fail
       ELSE /\ \E tgc \in resolveAndMergeDefaultTGCs : config' = [lb |-> getLoadBalancerConfigForGateway, tgc |-> tgc]
            /\ stage' = "routes"
            /\ UNCHANGED <<routes, task, stack, left>>
    /\ UNCHANGED world

LoadRoutes ==
    /\ stage = "routes"
    /\ routes' = [p \in DOMAIN world.routes |-> [k \in DOMAIN world.routes[p] |-> loadAttachedRules(world.routes[p][k], config.tgc)]]
    /\ stage' = "loadbalancer"
    /\ UNCHANGED <<world, config, task, stack, left>>

\* Listeners of one port that cannot be one listener
conflicting == \E l \in ToSet(world.listeners) : mapGatewayListenerConfigsByPort(l.port) = {}

\* A Gateway that is deleted has an empty model once its addons are gone, unless
\* it is protected.
BuildLoadBalancer ==
    /\ stage = "loadbalancer"
    /\ CASE world.deleting /\ isDeleteProtected(config.lb) -> Fail
         [] world.deleting /\ world.addons = {} -> stage' = "done" /\ UNCHANGED <<config, routes, task, stack, left>>
         [] buildLoadBalancer(config.lb) = {} \/ conflicting -> Fail
         [] OTHER -> /\ \E lb \in buildLoadBalancer(config.lb) : stack' = [stack EXCEPT !.lb = lb]
                     /\ left' = {l.port : l \in ToSet(world.listeners)} \cap DOMAIN routes
                     /\ stage' = "listeners"
                     /\ UNCHANGED <<config, routes, task>>
    /\ UNCHANGED world

\* In the order of the ports.
BuildListener(port) ==
    /\ stage = "listeners" /\ port \in left
    /\ \A p \in left : port <= p
    /\ IF buildListener(port) = {} THEN Fail
       ELSE /\ \E x \in buildListener(port) : task' = x.task /\ stack' = [stack EXCEPT !.listeners = @ @@ x.made]
            /\ left' = left \ {port}
            /\ UNCHANGED <<stage, config, routes>>
    /\ UNCHANGED world

Finish ==
    /\ stage = "listeners" /\ left = {}
    /\ stage' = "done"
    /\ UNCHANGED <<world, config, routes, task, stack, left>>

Next ==
    \/ ResolveConfig
    \/ LoadRoutes
    \/ BuildLoadBalancer
    \/ \E port \in left : BuildListener(port)
    \/ Finish

Spec == Init /\ [][Next]_vars

-------------------------------------------------------------------------------
(* Properties                                                                   *)

Built == stage = "done" /\ stack.lb # None
TargetGroups == {task.tgs[id] : id \in DOMAIN task.tgs}

\* The values of a setting along the levels, the strongest first; {} when none has it.
Prevailing(levels, f) ==
    LET having == SelectSeq(levels, LAMBDA c : f \in DOMAIN c) IN {having[k][f] : k \in {1} \cap DOMAIN having}
PrevailingKeys(levels, f) ==
    LET maps == [k \in DOMAIN levels |-> Ann(levels[k], f, None)]
    IN [key \in UNION {DOMAIN maps[k] : k \in DOMAIN maps} |-> CHOOSE v \in Prevailing(maps, key) : TRUE]

ByMode(class, gateway) == IF \E c \in world.class : PreferGateway(c) THEN gateway \o class ELSE class \o gateway
LBLevels == ByMode(SetToSeq(world.class), SetToSeq(world.gateway))
DeclaredRanges == UNION {ToSet(r) : r \in Prevailing(LBLevels, "sourceRanges")}

\* The settings of the route that is named most closely, then the default ones.
RouteLevels(tgc, route) ==
    LET fits == {k \in DOMAIN tgc.routes : LET c == tgc.routes[k]
                                           IN c.kind = route.kind /\ c.ns \in {"", route.ns} /\ c.name \in {"", route.name}}
        named(k) == Cardinality({f \in {"ns", "name"} : tgc.routes[k][f] # ""})
        closest == {k \in fits : \A j \in fits \ {k} : named(j) < named(k) \/ (named(j) = named(k) /\ k < j)}
    IN SetToSeq({tgc.routes[k].props : k \in closest}) \o <<tgc.default>>
TGLevels(tg) ==
    LET route == tg.by[1]
        kind == tg.by[2]
        own == SetToSeq(LookUpTargetGroupConfiguration(kind, tg.by[3]))
        defaults(lbcs) == SetToSeq({world.tgcs[n] : n \in defaultTGCs(lbcs)})
        common == ByMode(defaults(world.class), defaults(world.gateway))
    IN (IF own = <<>> THEN <<>> ELSE RouteLevels(own[1], route))
       \o (IF common = <<>> \/ kind = "Gateway" THEN <<>> ELSE RouteLevels(common[1], route))
       \o (IF Len(common) < 2 \/ kind = "Gateway" THEN <<>> ELSE <<common[2].default>>)

\* The nodes and pods admit exactly what the load balancer will send them: the
\* traffic of each target group and its health checks, from the clients or the
\* subnets of a load balancer without security groups, and from the backend
\* group of one that has them.
TargetsReachable ==
    \A tg \in TargetGroups : Reachable(world.vpc, stack.lb, DeclaredRanges, flags.restricted, tg)

\* However the subnets were found, they are ones AWS accepts for this load
\* balancer, and every address that was asked for is in the subnet it belongs to.
Placed ==
    LET asked(f) == UNION {allocated(cfgs, f) : cfgs \in Prevailing(LBLevels, "loadBalancerSubnets")}
        ips(f) == IF asked(f) = {} THEN <<>> ELSE CHOOSE a \in asked(f) : TRUE
    IN Built => /\ SubnetsServe(world.vpc, stack.lb.subnets, [type |-> world.type, ipAddressType |-> stack.lb.ipAddressType])
                /\ AddressesPlaced(stack.lb.mappings, stack.lb.subnets, ips("ipv4"), ips("ipv6"))

LBSettingApplied(f, v) ==
    CASE f = "scheme" -> stack.lb.scheme = v
      [] f = "ipAddressType" -> stack.lb.ipAddressType = v
      [] f = "loadBalancerName" -> stack.lb.name = <<v>>
      [] f = "securityGroups" -> v = {} \/ stack.lb.sgs.groups = {} \/ v \subseteq stack.lb.sgs.groups
      [] f = "disableSecurityGroup" -> v /\ network <=> stack.lb.sgs.groups = {}
      [] f = "manageBackendSecurityGroupRules" -> v /\ stack.lb.sgs.groups # {} => stack.lb.sgs.backend # "none"
      [] f = "customerOwnedIpv4Pool" -> network \/ stack.lb.pool = {v}
      [] f = "privateLink" -> ~network \/ stack.lb.privateLink = {v}
      [] OTHER -> TRUE
TGSettingApplied(tg, f, v) ==
    LET kind == tg.by[2] IN
    CASE f = "targetGroupName" -> tg.name = <<v>>
      [] f = "targetType" -> kind = "Gateway" \/ tg.type = v
      [] f = "protocol" -> tg.protocol \in {v, "TCP_UDP", "QUIC", "TCP_QUIC"}
      [] f = "protocolVersion" -> network \/ tg.version \in {{v}, {"HTTP1"}}
      [] f = "enableMultiCluster" -> kind = "Gateway" \/ tg.binding.multiCluster = v
      [] f = "nodeSelector" -> tg.type # "instance" \/ tg.binding.nodes = {v}
      [] f = "healthCheckConfig" -> /\ "protocol" \in DOMAIN v => tg.health.protocol = v["protocol"]
                                    /\ "path" \in DOMAIN v /\ tg.health.protocol # "TCP" => tg.health.path = {v["path"]}
                                    /\ \A n \in DOMAIN v \cap DOMAIN tg.health.numbers : tg.health.numbers[n] = v[n]
      [] OTHER -> TRUE
ListenerSettingApplied(l, f, v) ==
    CASE f = "sslPolicy" -> l.sslPolicy \subseteq {v}
      [] f = "certificates" -> l.certificates # <<>> => IsSuffix(v, l.certificates)
      [] f = "alpnPolicy" -> l.alpn \subseteq {v}
      [] f = "targetGroupStickiness" -> ~network \/ l.stickiness = {v}
      [] f = "listenerAttributes" -> l.attributes = v
      [] OTHER -> TRUE

\* An addon is on as the strongest configuration says; one that is not, or whose
\* Gateway is deleted, is turned off where it was on.  Merge loses a capacity.
AddonApplied(a) ==
    LET off == supportedAddons[a]
        asked == {v \in Prevailing(LBLevels, a) : v # off /\ ~world.deleting}
        lost == a = "minimumLoadBalancerCapacity" /\ Len(LBLevels) = 2
    IN stack.lb.addons[a] = IF asked # {} /\ ~lost THEN asked ELSE {v \in {off} : a \in world.addons}

\* Every setting of the load balancer, of its listeners and of each target group
\* is the one of the strongest configuration that gives it: the class or the
\* Gateway, as the merging mode says; for a target group the Service's settings
\* for the closest name of the route, its default ones, and then those of the
\* default configurations; tags and attributes each by its key.  Not so are the
\* ipAddressType and the targetControlPort of a target group, which have no
\* effect, and a capacity where class and Gateway both have a configuration.
SettingsRespected ==
    LET tagged(tags, levels) == flags.defaultTagsLowPriority => \A k \in DOMAIN PrevailingKeys(levels, "tags") : tags[k] = PrevailingKeys(levels, "tags")[k]
    IN Built =>
         /\ \A f \in UNION {DOMAIN c : c \in ToSet(LBLevels)} : \A v \in Prevailing(LBLevels, f) : LBSettingApplied(f, v)
         /\ \A a \in DOMAIN supportedAddons : AddonApplied(a)
         /\ stack.lb.attributes = PrevailingKeys(LBLevels, "loadBalancerAttributes")
         /\ tagged(stack.lb.tags, LBLevels)
         /\ \A p \in DOMAIN stack.listeners :
              LET c == PrevailingKeys(LBLevels, "listenerConfigurations")
                  protocol == CHOOSE pr \in mapGatewayListenerConfigsByPort(p) : TRUE
              IN <<protocol, p>> \in DOMAIN c => \A f \in DOMAIN c[<<protocol, p>>] : ListenerSettingApplied(stack.listeners[p], f, c[<<protocol, p>>][f])
         /\ \A tg \in TargetGroups :
              LET levels == TGLevels(tg)
              IN /\ \A f \in UNION {DOMAIN c : c \in ToSet(levels)} : \A v \in Prevailing(levels, f) : TGSettingApplied(tg, f, v)
                 /\ tg.attributes = PrevailingKeys(levels, "targetGroupAttributes")
                 /\ tagged(tg.tags, levels)

\* Every port with a route that has somewhere to send traffic is served by one
\* listener that carries the protocols of all Gateway listeners on it, encrypted
\* exactly when one of them asks for it, and sends only to target groups of the
\* same transport: on a Network Load Balancer to the backends of the oldest
\* route, with the weights it gives.  A managed security group opens exactly the
\* ports of the listeners to exactly the declared sources.
ServedAsDeclared ==
    LET on(p) == {l \in ToSet(world.listeners) : l.port = p}
        older(r, q) == r.created < q.created \/ (r.created = q.created /\ r.rank <= q.rank)
        attached(p) == ToSet(world.routes[p])
        serving(p) == {r \in attached(p) : network => \A q \in attached(p) : older(r, q)}
        weighty(p) == \E r \in serving(p) : \E b \in ToSet(r.refs) : b.weight > 0
        families == {c \in IF "sourceRanges" \in UNION {DOMAIN x : x \in ToSet(LBLevels)} THEN DeclaredRanges ELSE {"any4", "any6"} :
                       Canonical[c] \in V6 => stack.lb.ipAddressType # "ipv4"}
        lists == UNION Prevailing(LBLevels, "securityGroupPrefixes")
    IN Built =>
         /\ \A p \in DOMAIN world.routes : on(p) # {} /\ weighty(p) => p \in DOMAIN stack.listeners
         /\ \A p \in DOMAIN stack.listeners :
              LET l == stack.listeners[p]
                  groups == {k \in DOMAIN l.to : l.to[k].tg \in DOMAIN task.tgs}
              IN /\ UNION {Carried(g.protocol) : g \in on(p)} = Carried(l.protocol)
                 /\ (\E g \in on(p) : g.protocol \in {"TLS", "HTTPS"} /\ ~g.passthrough) <=> l.certificates # <<>>
                 /\ \A k \in groups : LET tg == task.tgs[l.to[k].tg] IN
                      /\ Carried(tg.protocol) = Carried(l.protocol)
                      /\ \E r \in serving(p) : \E b \in ToSet(r.refs) :
                           tg.by = <<[r EXCEPT !.refs = <<>>], b.kind, b.name>> /\ l.to[k].weight \subseteq {b.weight}
         /\ "managed" \in stack.lb.sgs.groups =>
              {r \in stack.lb.sgs.managed : r[1] # "ICMP"}
                = {<<IF g.protocol = "UDP" THEN "UDP" ELSE "TCP", g.port, x>> : g \in ToSet(world.listeners),
                     x \in {<<"cidr", Canonical[c]>> : c \in families} \cup {<<"list", i>> : i \in lists}}
=============================================================================
