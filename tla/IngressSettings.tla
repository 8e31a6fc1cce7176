---------------------------- MODULE IngressSettings ----------------------------
(* How the settings of the Ingresses of one group become the settings of one    *)
(* load balancer (pkg/ingress/model_build_*.go, the settings half).             *)
(*                                                                              *)
(* A group is a sequence of members.  A member carries the settings of its      *)
(* IngressClassParams (params) and its annotations (ann), two functions on the  *)
(* names of the settings it makes.  Maps of keys and values (tags, attributes)  *)
(* are sets of <<key, value>> pairs.  What the code returns with an error is a  *)
(* set here: {value} when it succeeds and {} when it fails.                     *)
EXTENDS Integers, Sequences, FiniteSets, FiniteSetsExt, SequencesExt

CONSTANTS
    Defaults,      \* the controller's default for every setting that has one
    Flags          \* [backendSG, manageRules, ipTargets, restricted, acm, tolerate, defaultTagsLow,
                   \*  capacityReservation: BOOLEAN]

The(S) == CHOOSE v \in S : TRUE
Members(g) == {g[k] : k \in DOMAIN g}

Annotated(m, s) == IF s \in DOMAIN m.ann THEN {m.ann[s]} ELSE {}
Explicit(m, s) == IF s \in DOMAIN m.params THEN {m.params[s]} ELSE Annotated(m, s)
AnnotatedIn(g, s) == UNION {Annotated(m, s) : m \in Members(g)}
ExplicitIn(g, s) == UNION {Explicit(m, s) : m \in Members(g)}

\* One value that everybody who sets it agrees on, out of the valid ones.
OneOf(S, valid, default) ==
    CASE S = {} -> {default}
      [] Cardinality(S) = 1 /\ S \subseteq valid -> S
      [] OTHER -> {}
Agreed(S, default) == OneOf(S, S, default)

Keys(P) == {p[1] : p \in P}
Functional(P) == \A p, q \in P : p[1] = q[1] => p[2] = q[2]
MergeStringMap(a, b) == a \cup {p \in b : p[1] \notin Keys(a)}

-------------------------------------------------------------------------------
(* Tags and attributes                                                          *)

ExternalTags == {"external"}

buildIngressClassResourceTags(m) == IF "tags" \in DOMAIN m.params THEN m.params["tags"] ELSE {}
TagsOf(a) == IF "tags" \in DOMAIN a THEN a["tags"] ELSE {}

\* Tags managed elsewhere may not be set; those of the class come first.
Tagged(class, own) ==
    IF Keys(class \cup own) \cap ExternalTags = {} THEN {MergeStringMap(class, own)} ELSE {}
buildIngressResourceTags(m) == Tagged(buildIngressClassResourceTags(m), TagsOf(m.ann))
buildIngressBackendResourceTags(m, svcAnn) ==
    Tagged(buildIngressClassResourceTags(m), MergeStringMap(TagsOf(svcAnn), TagsOf(m.ann)))

buildIngressGroupResourceTags(g) ==
    LET tags == UNION UNION {buildIngressResourceTags(m) : m \in Members(g)}
    IN IF Functional(tags) /\ \A m \in Members(g) : buildIngressResourceTags(m) # {}
       THEN {tags} ELSE {}

withDefaultTags(T) ==
    {IF Flags.defaultTagsLow THEN MergeStringMap(t, Defaults.tags) ELSE MergeStringMap(Defaults.tags, t) : t \in T}
buildLoadBalancerTags(g) == withDefaultTags(buildIngressGroupResourceTags(g))

\* Attributes: the class of the FIRST member settles the conflicts.
classOfFirst(g, s) == IF g # <<>> /\ s \in DOMAIN g[1].params THEN {g[1].params[s]} ELSE {}

GroupAttributes(class, own) ==
    IF Functional({p \in own : p[1] \notin Keys(class)}) THEN {MergeStringMap(class, own)} ELSE {}

buildIngressGroupLoadBalancerAttributes(g) ==
    GroupAttributes(UNION classOfFirst(g, "lbAttributes"), UNION AnnotatedIn(g, "lbAttributes"))
buildIngressGroupListenerAttributes(g, listener) ==
    LET of(F) == UNION {f[listener] : f \in {x \in F : listener \in DOMAIN x}}
    IN GroupAttributes(of(classOfFirst(g, "listenerAttributes")), of(AnnotatedIn(g, "listenerAttributes")))

buildIngressGroupLoadBalancerMinimumCapacity(g) ==
    IF classOfFirst(g, "capacity") # {} THEN classOfFirst(g, "capacity")
    ELSE IF Functional(UNION AnnotatedIn(g, "capacity"))
         THEN {UNION AnnotatedIn(g, "capacity")} ELSE {}

buildLoadBalancerMinimumCapacity(g) ==
    IF ~Flags.capacityReservation THEN {{}}
    ELSE {c \in buildIngressGroupLoadBalancerMinimumCapacity(g) : Keys(c) \subseteq {"CapacityUnits"}}

buildIPv4IPAMPoolID(g) ==
    IF classOfFirst(g, "ipam") # {} THEN classOfFirst(g, "ipam")
    ELSE Agreed(AnnotatedIn(g, "ipam") \ {""}, "none")

-------------------------------------------------------------------------------
(* The load balancer                                                            *)

buildLoadBalancerScheme(g) ==
    OneOf(ExplicitIn(g, "scheme"), {"internal", "internet-facing"}, Defaults.scheme)

buildLoadBalancerIPAddressType(g) ==
    OneOf(ExplicitIn(g, "ipAddressType"), {"ipv4", "dualstack", "dualstack-without-public-ipv4"},
          Defaults.ipAddressType)
isIPv6Supported(type) == type \in {"dualstack", "dualstack-without-public-ipv4"}

\* Names of more than 32 characters are refused; a generated name tells the scheme.
buildLoadBalancerName(g, scheme) ==
    IF ExplicitIn(g, "name") = {} THEN {<<"generated", scheme>>}
    ELSE {<<"explicit", n>> : n \in Agreed(ExplicitIn(g, "name"), "") \ {"too long"}}

buildLoadBalancerCOIPv4Pool(g) ==
    IF "" \in AnnotatedIn(g, "coipv4Pool") THEN {} ELSE Agreed(AnnotatedIn(g, "coipv4Pool"), "none")

\* A member's subnets come from its class or from its annotation, and a group
\* may not mix the two.  Without any, an existing load balancer of the same
\* scheme keeps its subnets.
buildLoadBalancerSubnetMappings(g, scheme, existing) ==
    LET class == {m.params["subnets"] : m \in {x \in Members(g) : "subnets" \in DOMAIN x.params}}
        own == UNION {Annotated(m, "subnets") : m \in {x \in Members(g) : "subnets" \notin DOMAIN x.params}}
    IN IF class # {} /\ own # {} THEN {}
       ELSE Agreed(class \cup own,
                   IF existing.scheme = scheme THEN existing.subnets ELSE Defaults.subnets)

\* The flag of the controller, unless the members' annotations say otherwise.
buildManageSecurityGroupRulesFlag(g) == Agreed(AnnotatedIn(g, "manageRules"), Flags.manageRules)

\* Without named security groups the load balancer gets one of its own.  The
\* backend security group is the source of the traffic the nodes let in.
buildLoadBalancerSecurityGroups(g) ==
    LET named == Agreed(AnnotatedIn(g, "securityGroups"), <<>>)
        manage == buildManageSecurityGroupRulesFlag(g)
    IN CASE named = {} -> {}
         [] named = {<<>>} ->
              {[groups  |-> IF Flags.backendSG THEN <<"managed", "backend">> ELSE <<"managed">>,
                backend |-> IF Flags.backendSG THEN "backend" ELSE "managed"]}
         [] manage = {TRUE} ->
              IF Flags.backendSG THEN {[groups |-> Append(The(named), "backend"), backend |-> "backend"]}
              ELSE {}
         [] manage = {FALSE} -> {[groups |-> The(named), backend |-> "none"]}
         [] OTHER -> {}

buildLoadBalancerSpec(g, existing) ==
    LET scheme == buildLoadBalancerScheme(g)
        s == IF scheme = {} THEN "none" ELSE The(scheme)
    IN [scheme         |-> scheme,
        ipAddressType  |-> buildLoadBalancerIPAddressType(g),
        subnets        |-> buildLoadBalancerSubnetMappings(g, s, existing),
        securityGroups |-> buildLoadBalancerSecurityGroups(g),
        coipv4Pool     |-> buildLoadBalancerCOIPv4Pool(g),
        lbAttributes   |-> buildIngressGroupLoadBalancerAttributes(g),
        tags           |-> buildLoadBalancerTags(g),
        name           |-> buildLoadBalancerName(g, s),
        capacity       |-> buildLoadBalancerMinimumCapacity(g),
        ipam           |-> buildIPv4IPAMPoolID(g)]

Failed(spec) == \E f \in DOMAIN spec : spec[f] = {}

-------------------------------------------------------------------------------
(* Add-ons                                                                      *)

\* Names win over ARNs; the name "none" and the ARN "none" take the ACL away.
buildWAFv2WebACLAssociation(g) ==
    LET names == ExplicitIn(g, "wafv2Name") \ {""}
        arns == ExplicitIn(g, "wafv2Arn") \ {""}
    IN CASE Cardinality(names) > 1 -> {}
         [] names # {} -> {<<"ACL named", n>> : n \in names \ {"unknown"}}
         [] OTHER -> {<<"ACL", a>> : a \in Agreed(arns, "unset")}

buildWAFRegionalWebACLAssociation(g) ==
    LET id(m) == (IF "wafAclId" \in DOMAIN m.ann THEN {m.ann["wafAclId"]}
                  ELSE Annotated(m, "webAclId")) \ {""}
    IN Agreed(UNION {id(m) : m \in Members(g)}, "unset")

buildShieldProtection(g) ==
    LET asked == AnnotatedIn(g, "shield")
    IN CASE asked = {} -> {"unset"}
         [] asked = {TRUE} -> {"enabled"}
         [] asked = {FALSE} -> {"disabled"}
         [] OTHER -> {}

buildLoadBalancerAddOns(g) ==
    [wafv2 |-> buildWAFv2WebACLAssociation(g), waf |-> buildWAFRegionalWebACLAssociation(g),
     shield |-> buildShieldProtection(g)]

-------------------------------------------------------------------------------
(* Listen ports.  An inbound CIDR is a pair <<4 or 6, network>>; a certificate   *)
(* of the controller's own making is <<"created", member>>.                     *)

MaxPort == 65535

computeIngressListenPorts(m, preferTLS) ==
    IF "listenPorts" \notin DOMAIN m.ann
    THEN {IF preferTLS THEN 443 :> "HTTPS" ELSE 80 :> "HTTP"}
    ELSE LET entries == m.ann["listenPorts"]
             last(p) == Max({k \in DOMAIN entries : entries[k][2] = p})
         IN IF entries # <<>> /\ \A k \in DOMAIN entries :
                  entries[k][1] \in {"HTTP", "HTTPS"} /\ entries[k][2] \in 1..MaxPort
            THEN {[p \in {entries[k][2] : k \in DOMAIN entries} |-> entries[last(p)][1]]}
            ELSE {}

hostsOf(m) == ({r.host : r \in ToSet(m.rules)} \ {""}) \cup m.tlsHosts

\* A certificate is asked for unless the annotation names one.
buildACMCertificates(m) ==
    IF Flags.acm /\ Annotated(m, "createCert") = {TRUE} /\ Annotated(m, "certs") = {}
    THEN {<<"created", m.name>>} ELSE {}
certificateFails(m) == buildACMCertificates(m) # {} /\ hostsOf(m) = {}

computeIngressExplicitTLSCertARNs(m) ==
    IF Explicit(m, "certs") # {} THEN The(Explicit(m, "certs"))
    ELSE SetToSeq(buildACMCertificates(m))

\* Every host needs a certificate in ACM whose domains cover it.
Discover(hosts) ==
    LET covering(h) == {c \in DOMAIN Defaults.domains : h \in Defaults.domains[c]}
    IN IF {} \in {covering(h) : h \in hosts} THEN {}
       ELSE {SetToSeq(UNION {covering(h) : h \in hosts})}
computeIngressInferredTLSCertARNs(m) == Discover(hostsOf(m))

computeIngressExplicitInboundCIDRs(m) == UNION Explicit(m, "inboundCIDRs")
computeIngressExplicitPrefixListIDs(m) == UNION Explicit(m, "prefixLists")
computeIngressExplicitSSLPolicy(m) == Agreed(Explicit(m, "sslPolicy"), "none")
computeIngressMutualAuthentication(m, port) ==
    IF "mtls" \in DOMAIN m.ann /\ port \in DOMAIN m.ann["mtls"] THEN m.ann["mtls"][port] ELSE "none"

computeIngressListenPortConfigByPort(m) ==
    LET explicit == computeIngressExplicitTLSCertARNs(m)
        ports == computeIngressListenPorts(m, explicit # <<>>)
        infer == explicit = <<>> /\ ports # {} /\ "HTTPS" \in {The(ports)[p] : p \in DOMAIN The(ports)}
        inferred == computeIngressInferredTLSCertARNs(m)
        cfg(p, protocol) ==
            [protocol |-> protocol, cidrs |-> computeIngressExplicitInboundCIDRs(m),
             prefixLists |-> computeIngressExplicitPrefixListIDs(m),
             certs |-> IF protocol = "HTTP" THEN <<>> ELSE IF infer THEN The(inferred) ELSE explicit,
             sslPolicy |-> IF protocol = "HTTP" THEN "none" ELSE The(computeIngressExplicitSSLPolicy(m)),
             mtls |-> IF protocol = "HTTP" THEN "none" ELSE computeIngressMutualAuthentication(m, p)]
    IN IF ports = {} \/ certificateFails(m) \/ (infer /\ inferred = {}) THEN {}
       ELSE {[p \in DOMAIN The(ports) |-> cfg(p, The(ports)[p])]}

Dedup(s) == FoldLeft(LAMBDA acc, x : IF x \in ToSet(acc) THEN acc ELSE Append(acc, x), <<>>, s)
Everywhere == {<<4, "0.0.0.0/0">>, <<6, "::/0">>}

\* The first certificate found is the default one; it may reappear for SNI.
mergeListenPortConfigs(cfgs) ==
    LET all(f) == {cfgs[k][f] : k \in DOMAIN cfgs}
        cidrs == Agreed(all("cidrs") \ {{}}, {})
        lists == Agreed(all("prefixLists") \ {{}}, {})
        policy == Agreed(all("sslPolicy") \ {"none"}, "none")
        mtls == Agreed(all("mtls") \ {"none"}, "none")
        certs == FlattenSeq([k \in DOMAIN cfgs |-> cfgs[k].certs])
    IN IF Cardinality(all("protocol")) # 1 \/ {} \in {cidrs, lists} \/ {} \in {policy, mtls} THEN {}
       ELSE {[protocol    |-> cfgs[1].protocol,
              cidrs       |-> IF The(cidrs) = {} /\ The(lists) = {} THEN Everywhere ELSE The(cidrs),
              prefixLists |-> The(lists),
              sslPolicy   |-> IF cfgs[1].protocol = "HTTPS" /\ The(policy) = "none"
                              THEN Defaults.sslPolicy ELSE The(policy),
              certs       |-> IF certs = <<>> THEN <<>> ELSE <<certs[1]>> \o Dedup(Tail(certs)),
              mtls        |-> The(mtls)]}

\* What the load balancer's own security group lets in; 0 marks a prefix list.
buildManagedSecurityGroupIngressPermissions(ports, ipAddressType) ==
    UNION {{<<p, c>> : c \in {x \in ports[p].cidrs : x[1] = 4 \/ isIPv6Supported(ipAddressType)}}
           \cup {<<p, <<0, l>>>> : l \in ports[p].prefixLists} : p \in DOMAIN ports}

NoRedirect == 0
Malformed == -1

\* A malformed port in the class parameters turns the redirection off.
buildSSLRedirectConfig(g, ports) ==
    LET asked == ExplicitIn(g, "sslRedirect")
    IN CASE asked = {} \/ \E m \in Members(g) : "sslRedirect" \in DOMAIN m.params
                                                /\ m.params["sslRedirect"] = Malformed -> {NoRedirect}
         [] Cardinality(asked) > 1 -> {}
         [] OTHER -> {p \in asked \cap DOMAIN ports : ports[p].protocol = "HTTPS"}

-------------------------------------------------------------------------------
(* The Network Load Balancer in front (model_build_frontend_nlb.go)             *)

HealthFields == {"IntervalSeconds", "TimeoutSeconds", "HealthyThresholdCount",
                 "UnhealthyThresholdCount", "Protocol", "Path", "Matcher", "Port"}

buildEnableFrontendNlbViaAnnotation(g) == Agreed(AnnotatedIn(g, "nlbEnabled"), FALSE)

buildFrontendNlbScheme(g) ==
    OneOf(AnnotatedIn(g, "nlbScheme"), {"internal", "internet-facing"}, Defaults.scheme)

validateAndResolveSubnets(g) == Agreed(AnnotatedIn(g, "nlbSubnets"), Defaults.subnets)

validateEIPAllocations(g, scheme) ==
    IF AnnotatedIn(g, "nlbEips") # {} /\ scheme # "internet-facing" THEN {}
    ELSE Agreed(AnnotatedIn(g, "nlbEips"), {})

\* Addresses and subnets are paired one to one.
buildFrontendNlbSubnetMappings(g, scheme) ==
    {[subnets |-> s, eips |-> e] : <<s, e>> \in
        {x \in validateAndResolveSubnets(g) \X validateEIPAllocations(g, scheme) :
            x[2] = {} \/ Cardinality(x[2]) = Cardinality(x[1])}}

buildFrontendNlbSecurityGroups(g, albGroups) == Agreed(AnnotatedIn(g, "nlbSecurityGroups"), albGroups)

\* The first member that has attributes binds those after it, also the silent ones.
getFrontendNlbAttributes(g) ==
    LET first == {k \in DOMAIN g : Annotated(g[k], "nlbAttributes") # {}}
    IN IF first = {} THEN {{}}
       ELSE IF \A k \in Min(first)..Len(g) : Annotated(g[k], "nlbAttributes") = Annotated(g[Min(first)], "nlbAttributes")
            THEN {a \in AnnotatedIn(g, "nlbAttributes") : <<"dns_record.client_routing_policy", "invalid">> \notin a}
            ELSE {}

buildFrontendNlbTags(g) ==
    IF AnnotatedIn(g, "nlbTags") = {} THEN buildLoadBalancerTags(g)
    ELSE Agreed(AnnotatedIn(g, "nlbTags"), {})

buildFrontendNlbSpec(g, albGroups) ==
    LET scheme == buildFrontendNlbScheme(g)
    IN [scheme |-> scheme,
        mappings |-> buildFrontendNlbSubnetMappings(g, IF scheme = {} THEN "none" ELSE The(scheme)),
        securityGroups |-> buildFrontendNlbSecurityGroups(g, albGroups),
        tags |-> buildFrontendNlbTags(g), attributes |-> getFrontendNlbAttributes(g)]

\* The listeners one member asks for: those it maps to ports of its own, else
\* one for each of its ports.
buildFrontendNlbListenerConfigByPortForIngress(m, ports) ==
    LET mapping == IF "nlbPorts" \in DOMAIN m.ann THEN m.ann["nlbPorts"] ELSE <<>>
        target == IF mapping # <<>> THEN [p \in {q \in DOMAIN mapping : mapping[q] \in ports} |-> mapping[p]]
                  ELSE [p \in ports |-> p]
    IN [p \in DOMAIN target |->
            [target |-> target[p], health |-> [f \in HealthFields \cap DOMAIN m.ann |-> m.ann[f]]]]

\* The success codes are compared by address: two members that set them conflict.
mergeHealthCheckField(cfgs, f) ==
    LET explicit == {k \in DOMAIN cfgs : f \in DOMAIN cfgs[k].health}
    IN IF f = "Matcher" /\ Cardinality(explicit) > 1 THEN {}
       ELSE Agreed({cfgs[k].health[f] : k \in explicit}, "default")

mergeFrontendNlbListenPortConfigs(cfgs) ==
    IF Cardinality({cfgs[k].target : k \in DOMAIN cfgs}) # 1
       \/ \E f \in HealthFields : mergeHealthCheckField(cfgs, f) = {}
    THEN {}
    ELSE {[target |-> cfgs[1].target, health |-> [f \in HealthFields |-> The(mergeHealthCheckField(cfgs, f))]]}

\* Every NLB listener forwards to a target group that holds the ALB's port.
buildFrontendNlbListeners(g, portsOf) ==
    LET asked == [k \in DOMAIN g |-> buildFrontendNlbListenerConfigByPortForIngress(g[k], portsOf[k])]
        cfgs(p) == LET who == SelectSeq([k \in DOMAIN g |-> k], LAMBDA k : p \in DOMAIN asked[k])
                   IN [i \in DOMAIN who |-> asked[who[i]][p]]
        all == UNION {DOMAIN asked[k] : k \in DOMAIN g}
        merged == [p \in all |-> mergeFrontendNlbListenPortConfigs(cfgs(p))]
    IN IF Failed(merged) THEN {} ELSE {[p \in all |-> The(merged[p])]}

==============================================================================
