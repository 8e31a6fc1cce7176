------------------------------ MODULE IngressBuild ------------------------------
(* The model the controller builds of one Ingress group (pkg/ingress):          *)
(* listeners, rules, target groups and their bindings, add-ons and the Network   *)
(* Load Balancer in front.  One step builds one listener or one rule; between    *)
(* two steps the Services the builder reads may change.                          *)
(*                                                                              *)
(* A path is [segs, slash, glob]: its segments, whether it ends in a slash and   *)
(* whether "*" follows.  A name is a sequence of its dash-separated parts.  A    *)
(* port reference or a port that may be named is <<"int", n>> or <<"name", s>>.  *)
EXTENDS IngressSettings

CONSTANTS
    HostLanguage,  \* for every host pattern, the hosts it matches
    Worlds         \* the groups, Services and edits a build may meet

VARIABLES
    world,     \* [members, inactive, existing, edits]: what this build is asked for
    services,  \* the Services in the cluster, by name
    stage,     \* where the build is; "done" and "failed" end it
    task,      \* [services, tgs, secrets]: what the build has read and made so far
    stack,     \* [ports, portsOf, lb, sslRedirect, listeners, rules, addons, nlb]
    left,      \* the ports whose listener is not built yet
    work,      \* the port in progress with its remaining paths and its rules so far
    edits      \* the changes of Services still to come

vars == <<world, services, stage, task, stack, left, work, edits>>

Ann(a, s, default) == IF s \in DOMAIN a THEN a[s] ELSE default

-------------------------------------------------------------------------------
(* Backends (enhanced_backend_builder.go, auth_config_builder.go)               *)

Response(code) == [type |-> "fixed-response", code |-> code]
build503ResponseAction == Response("503")

NoWeight == -1

\* Condition of an annotation: host and path take values or expressions.
RuleConditionValidate(c) ==
    IF c.field \in {"host-header", "path-pattern", "http-header"}
    THEN (c.values = {}) # (c.regexValues = {})
    ELSE c.values # {}
TransformValidate(x) == x.type \in {"url-rewrite", "host-header-rewrite"} /\ x.rewrites # <<>>

TargetGroupTupleValidate(t) == t.kind = "service" => t.port # <<"none", 0>>
ActionValidate(a) ==
    CASE a.type = "fixed-response" -> a.code # ""
      [] a.type = "redirect" -> a.code # ""
      [] a.type = "forward" -> /\ \A k \in DOMAIN a.targets : TargetGroupTupleValidate(a.targets[k])
                               /\ Len(a.targets) > 1 => \A k \in DOMAIN a.targets : a.targets[k].weight # NoWeight
      [] OTHER -> FALSE

buildConditions(m, svc) ==
    LET cs == Ann(m.conditions, svc, <<>>)
    IN IF \A k \in DOMAIN cs : RuleConditionValidate(cs[k]) THEN {cs} ELSE {}
buildTransforms(m, svc) ==
    LET ts == Ann(m.transforms, svc, <<>>)
    IN IF \A k \in DOMAIN ts : TransformValidate(ts[k]) THEN {ts} ELSE {}

buildActionViaAnnotation(m, svc) ==
    IF svc \notin DOMAIN m.actions THEN IF Flags.tolerate THEN {build503ResponseAction} ELSE {}
    ELSE {a \in {m.actions[svc]} : ActionValidate(a)}
buildActionViaServiceAndServicePort(svc, port) ==
    [type |-> "forward", targets |-> <<[kind |-> "service", name |-> svc, port |-> port, weight |-> NoWeight]>>]

serviceNames(a) == IF a.type # "forward" THEN {}
                   ELSE {a.targets[k].name : k \in {j \in DOMAIN a.targets : a.targets[j].kind = "service"}}
forwardsToOne(a) == a.type = "forward" /\ Len(a.targets) = 1 /\ serviceNames(a) # {}

loadBackendServices_again(t, a, live) ==
    IF serviceNames(a) \subseteq DOMAIN live
    THEN {[action |-> a, task |-> [t EXCEPT !.services = [s \in serviceNames(a) |-> live[s]] @@ @]]}
    ELSE IF Flags.tolerate /\ forwardsToOne(a) THEN {[action |-> build503ResponseAction, task |-> t]}
    ELSE {}

\* Services are read once per build.  One missing Service alone is answered 503,
\* and is looked for again at the next path.
loadBackendServices(t, a, live) ==
    LET new == serviceNames(a) \ DOMAIN t.services
    IN IF new \subseteq DOMAIN live
       THEN {[action |-> a, task |-> [t EXCEPT !.services = @ @@ [s \in new |-> live[s]]]]}
       ELSE IF Flags.tolerate /\ forwardsToOne(a) THEN {[action |-> build503ResponseAction, task |-> t]}
       ELSE {}

buildAuthType(a) == {Ann(a, "auth-type", "none")} \cap {"none", "cognito", "oidc"}
AuthConfigBuild(a) ==
    {[type |-> ty, idp |-> Ann(a, IF ty = "oidc" THEN "auth-idp-oidc" ELSE "auth-idp-cognito", "missing"),
      onUnauthenticated |-> Ann(a, "auth-on-unauthenticated", "authenticate"),
      timeout |-> Ann(a, "auth-session-timeout", 604800)] : ty \in buildAuthType(a)}

\* The annotations of a single Service come before those of the Ingress.
buildAuthConfig(t, m, a) ==
    AuthConfigBuild(IF forwardsToOne(a) THEN t.services[a.targets[1].name].ann @@ m.ann ELSE m.ann)

buildJwtValidationConfig(m) ==
    IF "jwt" \notin DOMAIN m.ann THEN {"none"} ELSE {m.ann["jwt"]} \ {"incomplete"}

EnhancedBackendBuild(t, m, b, live) ==
    LET action == IF b.port = <<"name", "use-annotation">> THEN buildActionViaAnnotation(m, b.service)
                  ELSE {buildActionViaServiceAndServicePort(b.service, b.port)}
        loaded == UNION {loadBackendServices(t, a, live) : a \in action}
    IN UNION {{[task |-> l.task, action |-> l.action, conditions |-> cs, transforms |-> ts,
                auth |-> au, jwt |-> j] :
                 cs \in buildConditions(m, b.service), ts \in buildTransforms(m, b.service),
                 au \in buildAuthConfig(l.task, m, l.action), j \in buildJwtValidationConfig(m)}
              : l \in loaded}

-------------------------------------------------------------------------------
(* Target groups and their bindings (model_build_target_group.go)               *)

LookupServicePort(svc, ref) ==
    {p \in svc.ports : ref = <<"int", p.port>> \/ ref = <<"name", p.name>>}

buildTargetGroupResourceID(m, name, port) == <<m.name \o name, port>>

buildTargetGroupTargetType(a, m) ==
    {ty \in {Ann(m.params, "target-type", Ann(a, "target-type", Defaults.targetType))} \cap {"instance", "ip"} :
        ty = "ip" => Flags.ipTargets}

buildTargetGroupPort(type, p) ==
    IF type = "instance" THEN p.nodePort ELSE IF p.targetPort[1] = "int" THEN p.targetPort[2] ELSE 1

buildTargetGroupIPAddressType(svc, lbType) ==
    IF ~svc.ipv6 THEN {"ipv4"} ELSE IF isIPv6Supported(lbType) THEN {"ipv6"} ELSE {}

TrafficPort == <<"name", "traffic-port">>
buildTargetGroupHealthCheckPort(svc, a, type) ==
    LET raw == Ann(a, "healthcheck-port", TrafficPort)
    IN IF raw = TrafficPort \/ raw[1] = "int" THEN {raw}
       ELSE {hp \in {IF type = "instance" THEN <<"int", p.nodePort>> ELSE p.targetPort : p \in LookupServicePort(svc, raw)} :
                hp[1] = "int"}

buildTargetGroupProtocol(a) == {Ann(a, "backend-protocol", "HTTP")} \cap {"HTTP", "HTTPS"}
buildTargetGroupProtocolVersion(a) == {Ann(a, "backend-protocol-version", "HTTP1")} \cap {"HTTP1", "HTTP2", "GRPC"}
buildTargetGroupHealthCheckProtocol(a, protocol) == {Ann(a, "healthcheck-protocol", protocol)} \cap {"HTTP", "HTTPS"}
buildTargetGroupHealthCheckPath(a, version) ==
    Ann(a, "healthcheck-path", IF version = "GRPC" THEN "/AWS.ALB/healthcheck" ELSE "/")
buildTargetGroupHealthCheckMatcher(a, version) ==
    IF version = "GRPC" THEN [grpc |-> Ann(a, "success-codes", "12")] ELSE [http |-> Ann(a, "success-codes", "200")]
HealthNumbers == [interval |-> 15, timeout |-> 5, healthyThreshold |-> 2, unhealthyThreshold |-> 2]
buildTargetGroupHealthCheckNumbers(a) == [f \in DOMAIN HealthNumbers |-> Ann(a, f, HealthNumbers[f])]

buildTargetGroupHealthCheckConfig(svc, a, type, protocol, version) ==
    {[port |-> hp, protocol |-> pr, path |-> buildTargetGroupHealthCheckPath(a, version),
      matcher |-> buildTargetGroupHealthCheckMatcher(a, version), numbers |-> buildTargetGroupHealthCheckNumbers(a)] :
        hp \in buildTargetGroupHealthCheckPort(svc, a, type), pr \in buildTargetGroupHealthCheckProtocol(a, protocol)}

NoPort == 0
buildTargetGroupTargetControlPort(a, name, ref) == Ann(Ann(a, "target-control-port", <<>>), <<name, ref>>, NoPort)

buildTargetGroupTags(m, svc) == withDefaultTags(buildIngressBackendResourceTags(m, svc.ann))

buildTargetGroupSpec(m, svc, name, ref, p, lbType) ==
    LET a == svc.ann @@ m.ann
        control == buildTargetGroupTargetControlPort(a, name, ref)
    IN UNION {{[type |-> ty, port |-> buildTargetGroupPort(ty, p), control |-> control, protocol |-> pr,
                version |-> v, ipAddressType |-> ip, health |-> hc, tags |-> tags,
                attributes |-> Ann(a, "target-group-attributes", {})] :
                  ip \in buildTargetGroupIPAddressType(svc, lbType), tags \in buildTargetGroupTags(m, svc),
                  hc \in buildTargetGroupHealthCheckConfig(svc, a, ty, pr, v)} :
              ty \in {x \in buildTargetGroupTargetType(a, m) :
                        buildTargetGroupPort(x, p) # NoPort /\ (x = "instance" => control = NoPort)},
              pr \in buildTargetGroupProtocol(a), v \in buildTargetGroupProtocolVersion(a)}

\* The ports the nodes let the backend security group reach.
buildTargetGroupBindingNetworking(backend, target, health, control) ==
    IF backend = "none" THEN {}
    ELSE IF ~Flags.restricted THEN {<<backend, <<"name", "all">>>>}
    ELSE {<<backend, x>> : x \in {target} \cup ({health} \ {TrafficPort})
                                 \cup (IF control = NoPort THEN {} ELSE {<<"int", control>>})}

buildTargetGroupBindingNodeSelector(m, svc, type) ==
    IF type = "instance" THEN Ann(svc.ann @@ m.ann, "target-node-labels", {}) ELSE {}
buildTargetGroupBindingMultiClusterFlag(m, svc) ==
    Ann(m.ann, "multi-cluster", FALSE) \/ Ann(svc.ann, "multi-cluster", FALSE)

buildTargetGroupBinding(m, svc, p, spec, backend) ==
    LET target == IF spec.type = "instance" THEN <<"int", p.nodePort>> ELSE p.targetPort
    IN [target |-> target, nodes |-> buildTargetGroupBindingNodeSelector(m, svc, spec.type),
        multiCluster |-> buildTargetGroupBindingMultiClusterFlag(m, svc),
        networking |-> buildTargetGroupBindingNetworking(backend, target, spec.health.port, spec.control)]

\* A target group that was built before under the same identifier is taken again.
buildTargetGroup(t, m, name, ref, lb) ==
    LET id == buildTargetGroupResourceID(m, name, ref)
        svc == t.services[name]
    IN IF id \in DOMAIN t.tgs THEN {[task |-> t, id |-> id]}
       ELSE UNION {{[id |-> id,
                     task |-> [t EXCEPT !.tgs = @ @@ (id :>
                        [ingress |-> m.name, service |-> name, version |-> svc.version, spec |-> spec,
                         binding |-> buildTargetGroupBinding(m, svc, p, spec, lb.backend)])]] :
                     spec \in buildTargetGroupSpec(m, svc, name, ref, p, lb.ipAddressType)}
                   : p \in LookupServicePort(svc, ref)}

-------------------------------------------------------------------------------
(* Actions (model_build_actions.go)                                             *)

buildForwardAction(t, m, a, lb) ==
    LET add(acc, tgt) ==
            IF tgt.kind # "service"    \* an ARN, or a name that is looked up (external)
            THEN {[x EXCEPT !.to = Append(@, [arn |-> tgt.name, weight |-> tgt.weight])] :
                    x \in {y \in acc : tgt.name # "unknown"}}
            ELSE UNION {{[task |-> b.task, to |-> Append(x.to, [tg |-> b.id, weight |-> tgt.weight])] :
                            b \in buildTargetGroup(x.task, m, tgt.name, tgt.port, lb)} : x \in acc}
    IN {[task |-> x.task, action |-> [type |-> "forward", to |-> x.to]] :
            x \in FoldLeft(add, {[task |-> t, to |-> <<>>]}, a.targets)}

buildBackendAction(t, m, a, lb) ==
    IF a.type = "forward" THEN buildForwardAction(t, m, a, lb) ELSE {[task |-> t, action |-> a]}

\* {<<>>} without authentication, {} when its configuration is incomplete.
buildAuthAction(eb) ==
    CASE eb.auth.type = "none" -> {<<>>}
      [] eb.auth.idp = "missing" -> {}
      [] eb.auth.type = "oidc" /\ eb.auth.idp \notin Defaults.secrets -> {}
      [] OTHER -> {<<[type |-> "authenticate", auth |-> eb.auth]>>}
buildJwtValidationAction(eb) == IF eb.jwt = "none" THEN <<>> ELSE <<[type |-> "jwt", jwt |-> eb.jwt]>>

\* Only HTTPS authenticates, by a provider or by token.
buildActions(protocol, m, eb, lb) ==
    LET auth == IF protocol = "HTTPS" THEN buildAuthAction(eb) ELSE {<<>>}
        jwt == IF protocol = "HTTPS" THEN buildJwtValidationAction(eb) ELSE <<>>
    IN {[task |-> b.task, actions |-> x \o jwt \o <<b.action>>] :
            x \in {y \in auth : y = <<>> \/ jwt = <<>>}, b \in buildBackendAction(eb.task, m, eb.action, lb)}

build404Action == Response("404")
Redirect(host, path, port, protocol, query) ==
    [type |-> "redirect", code |-> "HTTP_301", host |-> host, path |-> path, port |-> port,
     protocol |-> protocol, query |-> query]
buildSSLRedirectAction(port) == Redirect({}, {}, {port}, {"HTTPS"}, {})

-------------------------------------------------------------------------------
(* Rules (model_build_listener_rules.go)                                        *)

\* Longer prefixes first; the number of segments and the slash stand for the length.
pathLength(path) == 2 * Len(path.segs) + (IF path.slash THEN 1 ELSE 0)

sortIngressPaths_asWritten(paths) ==
    LET of(type) == SelectSeq(paths, LAMBDA x : x.type = type)
    IN of("Exact") \o of("Prefix") \o of("ImplementationSpecific")

sortIngressPaths(paths) ==
    LET of(type) == SelectSeq(paths, LAMBDA x : x.type = type)
    IN of("Exact") \o SortSeq(of("Prefix"), LAMBDA x, y : pathLength(x.path) > pathLength(y.path))
       \o of("ImplementationSpecific")

Exactly(path) == [segs |-> path.segs, slash |-> path.slash, glob |-> FALSE]
Below(path) == [segs |-> path.segs, slash |-> TRUE, glob |-> TRUE]
AllPaths == Below([segs |-> <<>>])

buildPathPatternsForExactPathType(path) == IF path.glob THEN {} ELSE {{Exactly(path)}}
buildPathPatternsForPrefixPathType(path) ==
    CASE path.glob -> {}
      [] path.segs = <<>> -> {{AllPaths}}
      [] OTHER -> {{Exactly([path EXCEPT !.slash = FALSE]), Below(path)}}
\* {<<values, expressions>>}
buildPathPatterns(m, x) ==
    CASE x.path.segs = <<>> /\ ~x.path.slash -> {<<{}, {}>>}
      [] x.type = "Exact" -> buildPathPatternsForExactPathType(x.path) \X {{}}
      [] x.type = "Prefix" -> buildPathPatternsForPrefixPathType(x.path) \X {{}}
      [] Ann(m.ann, "use-regex-path-match", FALSE) -> {<<{}, {x.path}>>}
      [] OTHER -> {<<{x.path}, {}>>}

\* Host and path are either values or expressions; with no condition at all
\* every path matches.
buildRuleConditions(m, host, x, conditions) ==
    LET given(field) == SelectSeq(conditions, LAMBDA c : c.field = field)
        values(field) == UNION {given(field)[k].values : k \in DOMAIN given(field)}
        regexes(field) == UNION {given(field)[k].regexValues : k \in DOMAIN given(field)}
        other == SelectSeq(conditions, LAMBDA c : c.field \notin {"host-header", "path-pattern"})
        cond(pp) ==
            LET hosts == ({host} \ {""}) \cup values("host-header")
                paths == pp[1] \cup values("path-pattern")
                regex == pp[2] \cup regexes("path-pattern")
            IN [hosts |-> hosts, hostRegex |-> regexes("host-header"), pathRegex |-> regex, other |-> other,
                paths |-> IF hosts \cup regexes("host-header") = {} /\ paths \cup regex = {} /\ other = <<>>
                          THEN {AllPaths} ELSE paths]
    IN {c \in {cond(pp) : pp \in buildPathPatterns(m, x)} :
            ~(c.hosts # {} /\ c.hostRegex # {}) /\ ~(c.paths # {} /\ c.pathRegex # {})}

buildListenerRule(t, protocol, m, host, x, live, lb) ==
    UNION {{[task |-> a.task,
             rule |-> [conditions |-> c, actions |-> a.actions, transforms |-> eb.transforms, tags |-> tags]] :
              c \in buildRuleConditions(m, host, x, eb.conditions), a \in buildActions(protocol, m, eb, lb),
              tags \in withDefaultTags(buildIngressResourceTags(m))} :
           eb \in EnhancedBackendBuild(t, m, x.backend, live)}

-------------------------------------------------------------------------------
(* The rule optimizer (rule_optimizer.go)                                       *)

findRedirectActionConfig(actions) == {a \in ToSet(actions) : a.type = "redirect"}

\* A redirection to where the request already went; {} keeps a part as it is.
isInfiniteRedirectRule(port, protocol, rule) ==
    \E r \in findRedirectActionConfig(rule.actions) :
        /\ rule.conditions.pathRegex = {}
        /\ r.host \subseteq rule.conditions.hosts
        /\ r.path \subseteq rule.conditions.paths
        /\ r.port \subseteq {port}
        /\ r.protocol \subseteq {protocol}
        /\ r.query = {}

\* Expressions for hosts are not looked at.
isSupersetConditions(lhs, rhs) ==
    LET lp == lhs.paths \cup lhs.pathRegex
        rp == rhs.paths \cup rhs.pathRegex
    IN /\ lhs.other = <<>>
       /\ lhs.hosts = {} \/ (rhs.hosts # {} /\ rhs.hosts \subseteq lhs.hosts)
       /\ lp = {} \/ AllPaths \in lp \/ (rp # {} /\ rp \subseteq lp)

omitInfiniteRedirectRules(port, protocol, rules) ==
    SelectSeq(rules, LAMBDA r : ~isInfiniteRedirectRule(port, protocol, r))

omitOvershadowedRulesAfterRedirectRules(rules) ==
    LET keep(kept, r) ==
            IF \E e \in ToSet(kept) : findRedirectActionConfig(e.actions) # {}
                                      /\ isSupersetConditions(e.conditions, r.conditions)
            THEN kept ELSE Append(kept, r)
    IN FoldLeft(keep, <<>>, rules)

Optimize(port, protocol, rules) ==
    omitOvershadowedRulesAfterRedirectRules(omitInfiniteRedirectRules(port, protocol, rules))

-------------------------------------------------------------------------------
(* The steps of a build (model_builder.go, run)                                 *)

EmptyStack == [ports |-> <<>>, portsOf |-> <<>>, lb |-> <<>>, sslRedirect |-> NoRedirect,
               listeners |-> <<>>, rules |-> <<>>, addons |-> <<>>, nlb |-> <<>>]
Idle == [port |-> 0, paths |-> <<>>, rules |-> <<>>]

Init ==
    /\ \E w \in Worlds : world = w /\ services = w.services /\ edits = w.edits
    /\ stage = "start"
    /\ task = [services |-> <<>>, tgs |-> <<>>]
    /\ stack = EmptyStack
    /\ left = {}
    /\ work = Idle

Fail == /\ stage' = "failed"
        /\ stack' = EmptyStack
        /\ UNCHANGED <<task, left, work>>

\* An Ingress that is being deleted may be protected; a group without members
\* has an empty model.
Start ==
    /\ stage = "start"
    /\ IF \E i \in world.inactive : i.deleting /\ i.protected
       THEN Fail
       ELSE /\ stage' = IF world.members = <<>> THEN "done" ELSE "loadbalancer"
            /\ UNCHANGED <<task, stack, left, work>>
    /\ UNCHANGED <<world, services, edits>>

\* The listen ports of every member, and for every port what they come to.
portConfigs(g) == [k \in DOMAIN g |-> computeIngressListenPortConfigByPort(g[k])]
mergedPorts(g) ==
    LET cfgs == portConfigs(g)
        has(p) == SelectSeq([k \in DOMAIN g |-> k], LAMBDA k : p \in DOMAIN The(cfgs[k]))
    IN [p \in UNION {DOMAIN The(cfgs[k]) : k \in DOMAIN g} |->
            mergeListenPortConfigs([i \in DOMAIN has(p) |-> The(cfgs[has(p)[i]])[p]])]
Values(results) == [f \in DOMAIN results |-> The(results[f])]

membersOn(p) == SelectSeq(world.members, LAMBDA m : p \in stack.portsOf[m.name])

\* The ports of all members, merged; the load balancer; the redirection to HTTPS.
LoadBalancerFails(g, existing) ==
    \/ Failed(portConfigs(g))
    \/ Failed(mergedPorts(g))
    \/ Failed(buildLoadBalancerSpec(g, existing))
    \/ buildSSLRedirectConfig(g, Values(mergedPorts(g))) = {}

BuildLoadBalancer ==
    LET g == world.members
        ports == Values(mergedPorts(g))
        lb == Values(buildLoadBalancerSpec(g, world.existing))
    IN /\ stage = "loadbalancer"
       /\ IF LoadBalancerFails(g, world.existing) THEN Fail
          ELSE /\ stack' = [stack EXCEPT !.ports = ports, !.sslRedirect = The(buildSSLRedirectConfig(g, ports)),
                              !.portsOf = [n \in {m.name : m \in Members(g)} |->
                                  UNION {DOMAIN The(portConfigs(g)[k]) : k \in {j \in DOMAIN g : g[j].name = n}}],
                              !.lb = lb @@ [sources |->
                                  buildManagedSecurityGroupIngressPermissions(ports, lb.ipAddressType)]]
               /\ left' = DOMAIN ports
               /\ stage' = "listeners"
               /\ UNCHANGED <<task, work>>
       /\ UNCHANGED <<world, services, edits>>

Redirected(p) == stack.sslRedirect # NoRedirect /\ stack.ports[p].protocol = "HTTP"
LB == [backend |-> stack.lb.securityGroups.backend, ipAddressType |-> stack.lb.ipAddressType]

\* The members' paths on a port, in the order in which their rules are built.
pathsOf(m) == FlattenSeq([k \in DOMAIN m.rules |->
                 LET sorted == sortIngressPaths(m.rules[k].paths)
                 IN [i \in DOMAIN sorted |-> [member |-> m, host |-> m.rules[k].host, x |-> sorted[i]]]])
pathsOn(p) == LET ms == membersOn(p) IN FlattenSeq([k \in DOMAIN ms |-> pathsOf(ms[k])])

buildListenerDefaultActions(p) ==
    LET asked == SelectSeq(membersOn(p), LAMBDA m : m.dflt # <<>>)
    IN CASE Redirected(p) -> {[task |-> task, actions |-> <<buildSSLRedirectAction(stack.sslRedirect)>>]}
         [] asked = <<>> -> {[task |-> task, actions |-> <<build404Action>>]}
         [] Len(asked) > 1 -> {}
         [] OTHER -> UNION {buildActions(stack.ports[p].protocol, asked[1], eb, LB) :
                              eb \in EnhancedBackendBuild(task, asked[1], asked[1].dflt[1], services)}

buildListenerSpec(p) ==
    {[task |-> d.task, actions |-> d.actions, tags |-> tags, attributes |-> at] :
        d \in buildListenerDefaultActions(p), tags \in withDefaultTags(buildIngressGroupResourceTags(membersOn(p))),
        at \in buildIngressGroupListenerAttributes(membersOn(p), <<stack.ports[p].protocol, p>>)}

\* The ports come in any order: the code walks a map.
BuildListener(p) ==
    /\ stage = "listeners" /\ work = Idle /\ p \in left
    /\ IF buildListenerSpec(p) = {} THEN Fail
       ELSE \E l \in buildListenerSpec(p) :
              /\ task' = l.task
              /\ stack' = [stack EXCEPT !.listeners = @ @@ (p :> [actions |-> l.actions, tags |-> l.tags, attributes |-> l.attributes])]
              /\ work' = [port |-> p, paths |-> IF Redirected(p) THEN <<>> ELSE pathsOn(p), rules |-> <<>>]
              /\ left' = left \ {p}
              /\ UNCHANGED stage
    /\ UNCHANGED <<world, services, edits>>

BuildRule ==
    LET i == work.paths[1]
        built == buildListenerRule(task, stack.ports[work.port].protocol, i.member, i.host, i.x, services, LB)
    IN /\ work.paths # <<>> /\ stage = "listeners"
       /\ IF built = {} THEN Fail
          ELSE \E b \in built : /\ task' = b.task
                                /\ work' = [work EXCEPT !.paths = Tail(@), !.rules = Append(@, b.rule)]
                                /\ UNCHANGED <<stage, stack, left>>
       /\ UNCHANGED <<world, services, edits>>

\* A rule's priority is its place among the rules that are kept.
FinishListener ==
    /\ stage = "listeners" /\ work.port # 0 /\ work.paths = <<>>
    /\ stack' = [stack EXCEPT !.rules = @ @@ (work.port :> Optimize(work.port, stack.ports[work.port].protocol, work.rules))]
    /\ work' = Idle
    /\ stage' = IF left = {} THEN "addons" ELSE "listeners"
    /\ UNCHANGED <<world, services, edits, task, left>>

BuildAddOns ==
    LET addons == buildLoadBalancerAddOns(world.members)
    IN /\ stage = "addons"
       /\ IF Failed(addons) THEN Fail
          ELSE /\ stack' = [stack EXCEPT !.addons = Values(addons)]
               /\ stage' = "frontend"
               /\ UNCHANGED <<task, left, work>>
       /\ UNCHANGED <<world, services, edits>>

FrontendFails(g, groups, portsOf) ==
    LET enabled == buildEnableFrontendNlbViaAnnotation(g)
    IN enabled = {} \/ (enabled = {TRUE} /\ (Failed(buildFrontendNlbSpec(g, groups))
                                             \/ buildFrontendNlbListeners(g, portsOf) = {}))

buildFrontendNlbModel ==
    LET g == world.members
        groups == stack.lb.securityGroups.groups
        portsOf == [k \in DOMAIN g |-> stack.portsOf[g[k].name]]
    IN /\ stage = "frontend"
       /\ IF FrontendFails(g, groups, portsOf) THEN Fail
          ELSE /\ stack' = IF buildEnableFrontendNlbViaAnnotation(g) = {TRUE}
                           THEN [stack EXCEPT !.nlb = Values(buildFrontendNlbSpec(g, groups))
                                   @@ [listeners |-> The(buildFrontendNlbListeners(g, portsOf))]]
                           ELSE stack
               /\ stage' = "done"
               /\ UNCHANGED <<task, left, work>>
       /\ UNCHANGED <<world, services, edits>>

\* Somebody creates, changes or deletes a Service while the build runs.
EditService ==
    /\ edits # <<>> /\ stage \notin {"done", "failed"}
    /\ services' = IF edits[1].to = {} THEN [s \in DOMAIN services \ {edits[1].name} |-> services[s]]
                   ELSE (edits[1].name :> The(edits[1].to)) @@ services
    /\ edits' = Tail(edits)
    /\ UNCHANGED <<world, stage, task, stack, left, work>>

Next ==
    \/ Start
    \/ BuildLoadBalancer
    \/ \E p \in left : BuildListener(p)
    \/ BuildRule
    \/ FinishListener
    \/ BuildAddOns
    \/ buildFrontendNlbModel
    \/ EditService

Spec == Init /\ [][Next]_vars
-------------------------------------------------------------------------------
(* What a load balancer does with a request (external) and what the Ingresses    *)
(* declare                                                                       *)

MatchesPattern(p, path) ==
    IF p.glob THEN IsPrefix(p.segs, path.segs) /\ (Len(path.segs) > Len(p.segs) \/ path.slash)
    ELSE path.segs = p.segs /\ path.slash = p.slash
MatchesRegex(p, path) == \E k \in 0..Len(path.segs) : IsPrefix(p.segs, SubSeq(path.segs, k + 1, Len(path.segs)))

Matches(c, r) ==
    /\ c.hosts \cup c.hostRegex = {} \/ \E h \in c.hosts \cup c.hostRegex : r.host \in HostLanguage[h]
    /\ \/ c.paths \cup c.pathRegex = {}
       \/ \E p \in c.paths : MatchesPattern(p, r.path)
       \/ \E p \in c.pathRegex : MatchesRegex(p, r.path)
    /\ \A k \in DOMAIN c.other : r.attrs[c.other[k].field] \in c.other[k].values

\* The actions that answer request r on port p.
Answer(p, r) ==
    LET hits == {k \in DOMAIN stack.rules[p] : Matches(stack.rules[p][k].conditions, r)}
    IN IF hits = {} THEN stack.listeners[p].actions ELSE stack.rules[p][Min(hits)].actions

\* A path as declared: member, rule and place in it.
Declared(p) == UNION {UNION {{[m |-> m, r |-> r, k |-> k] : k \in DOMAIN world.members[m].rules[r].paths} :
                             r \in DOMAIN world.members[m].rules} :
                      m \in {j \in DOMAIN world.members : p \in stack.portsOf[world.members[j].name]}}
At(d) == world.members[d.m].rules[d.r].paths[d.k]
TypeRank(type) == CASE type = "Exact" -> 1 [] type = "Prefix" -> 2 [] OTHER -> 3

Precedes(d, e) ==
    \/ d.m < e.m
    \/ d.m = e.m /\ d.r < e.r
    \/ d.m = e.m /\ d.r = e.r /\
         \/ TypeRank(At(d).type) < TypeRank(At(e).type)
         \/ At(d).type = At(e).type /\ At(d).type = "Prefix" /\ pathLength(At(d).path) > pathLength(At(e).path)
         \/ At(d).type = At(e).type /\ d.k < e.k
              /\ (At(d).type = "Prefix" => pathLength(At(d).path) = pathLength(At(e).path))

\* Does the path, with the conditions annotated for its backend, take the request?
Takes(d, r) ==
    LET m == world.members[d.m]
        host == m.rules[d.r].host
        x == At(d)
        cs == Ann(m.conditions, x.backend.service, <<>>)
        of(f) == {k \in DOMAIN cs : cs[k].field = f}
        own == CASE x.type = "Exact" -> x.path.segs = r.path.segs /\ x.path.slash = r.path.slash
                 [] x.type = "Prefix" -> IsPrefix(x.path.segs, r.path.segs)
                 [] Ann(m.ann, "use-regex-path-match", FALSE) -> MatchesRegex(x.path, r.path)
                 [] OTHER -> MatchesPattern(x.path, r.path)
    IN /\ \/ host = "" /\ of("host-header") = {}
          \/ host # "" /\ r.host \in HostLanguage[host]
          \/ \E k \in of("host-header") : \E h \in cs[k].values \cup cs[k].regexValues : r.host \in HostLanguage[h]
       /\ \/ own
          \/ \E k \in of("path-pattern") : \E p \in cs[k].values : MatchesPattern(p, r.path)
       /\ \A k \in DOMAIN cs \ (of("host-header") \cup of("path-pattern")) : r.attrs[cs[k].field] \in cs[k].values

\* The redirection sends some request it takes to that very request.
Loops(d, p, requests) ==
    LET m == world.members[d.m]
        svc == At(d).backend.service
    IN /\ At(d).backend.port = <<"name", "use-annotation">> /\ svc \in DOMAIN m.actions
       /\ m.actions[svc].type = "redirect"
       /\ m.actions[svc].port \subseteq {p} /\ m.actions[svc].query = {}
       /\ m.actions[svc].protocol \subseteq {stack.ports[p].protocol}
       /\ \E r \in requests : /\ Takes(d, r)
                              /\ m.actions[svc].host \subseteq {r.host}
                              /\ m.actions[svc].path \subseteq {Exactly(r.path)}

\* Where the actions lead: target groups by the Ingress, Service and port they serve.
Resolved(actions) ==
    [k \in DOMAIN actions |->
        IF actions[k].type # "forward" THEN actions[k]
        ELSE [type |-> "forward",
              targets |-> [j \in DOMAIN actions[k].to |->
                  LET to == actions[k].to[j]
                  IN IF "arn" \in DOMAIN to THEN [kind |-> "arn", name |-> to.arn, weight |-> to.weight]
                     ELSE [kind |-> "service", ingress |-> task.tgs[to.tg].ingress, name |-> task.tgs[to.tg].service,
                           port |-> to.tg[2], weight |-> to.weight]]]]

\* What member m asks for a backend on a listener.  A single Service that was
\* missing at some time may be answered 503.
AskedFor(m, b, protocol) ==
    LET a == IF b.port = <<"name", "use-annotation">>
             THEN IF b.service \in DOMAIN m.actions THEN m.actions[b.service] ELSE Response("503")
             ELSE [type |-> "forward", targets |-> <<[kind |-> "service", name |-> b.service, port |-> b.port, weight |-> NoWeight]>>]
        single == a.type = "forward" /\ Len(a.targets) = 1 /\ a.targets[1].kind = "service"
        svc == a.targets[1].name
        auth(c) == IF protocol = "HTTPS" /\ Ann(c, "auth-type", "none") # "none"
                   THEN <<[type |-> "authenticate", auth |-> The(AuthConfigBuild(c))]>> ELSE <<>>
        jwt == IF protocol = "HTTPS" /\ "jwt" \in DOMAIN m.ann THEN <<[type |-> "jwt", jwt |-> m.ann["jwt"]]>> ELSE <<>>
        forward == [type |-> "forward",
                    targets |-> [k \in DOMAIN a.targets |->
                        IF a.targets[k].kind = "arn" THEN [kind |-> "arn", name |-> a.targets[k].name, weight |-> a.targets[k].weight]
                        ELSE a.targets[k] @@ [ingress |-> m.name]]]
    IN (IF a.type # "forward" THEN {auth(m.ann) \o jwt \o <<a>>} ELSE {})
       \cup (IF single /\ svc \in DOMAIN task.services
             THEN {auth(task.services[svc].ann @@ m.ann) \o jwt \o <<forward>>} ELSE {})
       \cup (IF single /\ svc \notin DOMAIN world.services \cap DOMAIN task.services
             THEN {auth(m.ann) \o jwt \o <<Response("503")>>} ELSE {})
       \cup (IF a.type = "forward" /\ ~single THEN {auth(m.ann) \o jwt \o <<forward>>} ELSE {})

\* What nobody's path takes: the redirection to HTTPS, the one default backend, or 404.
AskedForRest(p) ==
    LET dflts == {k \in DOMAIN world.members : p \in stack.portsOf[world.members[k].name] /\ world.members[k].dflt # <<>>}
    IN IF dflts = {} THEN {<<Response("404")>>}
       ELSE UNION {AskedFor(world.members[k], world.members[k].dflt[1], stack.ports[p].protocol) : k \in dflts}

-------------------------------------------------------------------------------
(* Properties                                                                   *)

\* Every request on every listener is answered as the Ingresses declare it: by the
\* first path that takes it, in the order of the members, of their rules and of
\* the path types, with that path's own Service and authentication.  A path is
\* passed over only if it would redirect some request to itself.  Listeners for
\* HTTP redirect everything when the redirection to HTTPS is on (buildListenerRules,
\* the rule optimizer and the target groups shared by identifier).
RoutedAsDeclared ==
    stage = "done" => \A p \in DOMAIN stack.listeners : \A r \in world.requests :
        LET answer == Resolved(Answer(p, r))
            takers == {d \in Declared(p) : Takes(d, r)}
            skipped(d) == \A e \in takers : Precedes(e, d) => Loops(e, p, world.requests)
        IN IF Redirected(p) THEN answer = <<buildSSLRedirectAction(stack.sslRedirect)>>
           ELSE \/ \E d \in takers : /\ skipped(d)
                                     /\ answer \in AskedFor(world.members[d.m], At(d).backend, stack.ports[p].protocol)
                \/ /\ \A d \in takers : Loops(d, p, world.requests)
                   /\ answer \in AskedForRest(p)

\* One build works with one version of every Service, also when the Service is
\* changed or deleted between two of its listeners or rules (backendServices).
OneServiceVersion ==
    \A i \in DOMAIN task.tgs : /\ task.tgs[i].service \in DOMAIN task.services
                               /\ task.tgs[i].version = task.services[task.tgs[i].service].version

\* The nodes let in what the load balancer sends: the traffic, the health checks
\* and the control traffic of every target group, whatever mixture of node ports,
\* named ports and annotations they come from (buildTargetGroupBindingNetworking).
TargetsReachable ==
    \A i \in DOMAIN task.tgs :
        LET tg == task.tgs[i]
            port == CHOOSE p \in task.services[tg.service].ports : i[2] \in {<<"int", p.port>>, <<"name", p.name>>}
            traffic == IF tg.spec.type = "instance" THEN <<"int", port.nodePort>> ELSE port.targetPort
            needed == {traffic, IF tg.spec.health.port = TrafficPort THEN traffic ELSE tg.spec.health.port}
                      \cup (IF tg.spec.control = NoPort THEN {} ELSE {<<"int", tg.spec.control>>})
        IN /\ tg.binding.target = traffic
           /\ stack.lb # <<>> /\ LB.backend # "none" =>
                 \/ <<LB.backend, <<"name", "all">>>> \in tg.binding.networking
                 \/ \A x \in needed : <<LB.backend, x>> \in tg.binding.networking

\* What is in effect of a setting that has one value for the group.
InEffect(s) ==
    CASE s \in {"scheme", "ipAddressType", "subnets", "coipv4Pool"} -> {stack.lb[s]}
      [] s = "name" -> {stack.lb.name[2]}
      [] s = "shield" -> {stack.addons.shield = "enabled"}
      [] s = "wafAclId" -> {stack.addons.waf}
      [] s = "wafv2Arn" -> IF stack.addons.wafv2[1] = "ACL" THEN {stack.addons.wafv2[2]} ELSE {}
      [] s = "wafv2Name" -> IF stack.addons.wafv2[1] = "ACL named" THEN {stack.addons.wafv2[2]} ELSE {}
      [] s = "nlbScheme" -> {stack.nlb.scheme}
      [] s = "nlbTags" -> {stack.nlb.tags}
      [] s = "nlbSecurityGroups" -> {stack.nlb.securityGroups}
      [] s = "nlbSubnets" -> {stack.nlb.mappings.subnets}
      [] s = "nlbEips" -> {stack.nlb.mappings.eips}
      [] s = "nlbAttributes" -> {stack.nlb.attributes}
GroupSettings == {"scheme", "ipAddressType", "subnets", "coipv4Pool", "name", "shield", "wafAclId",
                  "wafv2Arn", "wafv2Name", "nlbScheme", "nlbTags", "nlbSecurityGroups", "nlbSubnets", "nlbEips", "nlbAttributes"}

\* A group that is built gives every member what it asked for: no member's
\* explicit setting is lost to another member's, except the attributes, the
\* capacity and the address pool that the class of the first member decides.
SettingsRespected ==
    stage = "done" => \A k \in DOMAIN world.members :
        LET m == world.members[k]
            cfg == The(portConfigs(world.members)[k])
        IN /\ \A s \in GroupSettings : \A v \in Explicit(m, s) : InEffect(s) = {v}
           /\ \A v \in Explicit(m, "sslRedirect") : stack.sslRedirect = v \/ Malformed \in ExplicitIn(world.members, "sslRedirect")
           /\ \A v \in Annotated(m, "securityGroups") : IsPrefix(v, stack.lb.securityGroups.groups)
           /\ \A x \in UNION buildIngressResourceTags(m) : x \in stack.lb.tags
                                            \/ (~Flags.defaultTagsLow /\ x[1] \in Keys(Defaults.tags))
           /\ \A x \in UNION Annotated(m, "lbAttributes") :
                  x \in stack.lb.lbAttributes \/ x[1] \in Keys(UNION classOfFirst(world.members, "lbAttributes"))
           /\ \A p \in DOMAIN cfg :
                  /\ p \in DOMAIN stack.listeners /\ stack.ports[p].protocol = cfg[p].protocol
                  /\ ToSet(cfg[p].certs) \subseteq ToSet(stack.ports[p].certs)
                  /\ cfg[p].cidrs # {} => stack.ports[p].cidrs = cfg[p].cidrs
                  /\ cfg[p].prefixLists # {} => stack.ports[p].prefixLists = cfg[p].prefixLists
                  /\ cfg[p].sslPolicy \in {"none", stack.ports[p].sslPolicy}
                  /\ cfg[p].mtls \in {"none", stack.ports[p].mtls}
           /\ stack.nlb # <<>> =>
                 \A p \in DOMAIN buildFrontendNlbListenerConfigByPortForIngress(m, DOMAIN cfg) :
                     \A f \in HealthFields \cap DOMAIN m.ann : stack.nlb.listeners[p].health[f] = m.ann[f]

\* A listener is open to everybody only if no member restricts its sources, and
\* the Network Load Balancer in front sends to ports that have a listener
\* (mergeListenPortConfigs, buildFrontendNlbListeners).
ReachedAsAsked ==
    stage = "done" =>
        /\ \A p \in DOMAIN stack.listeners :
              (\E c \in Everywhere : <<p, c>> \in stack.lb.sources) =>
                  \A m \in Members(membersOn(p)) :
                      /\ computeIngressExplicitPrefixListIDs(m) = {}
                      /\ computeIngressExplicitInboundCIDRs(m) \in {{}} \cup {S \in SUBSET Everywhere : S # {}}
        /\ stack.nlb # <<>> => \A p \in DOMAIN stack.nlb.listeners :
                                   stack.nlb.listeners[p].target \in DOMAIN stack.listeners

\* The members make no setting differently, and use no port in different ways.
Agree(g) ==
    LET cfg(k) == The(portConfigs(g)[k])
        nlb(k) == buildFrontendNlbListenerConfigByPortForIngress(g[k], DOMAIN cfg(k))
    IN \A i, j \in DOMAIN g :
         /\ \A s \in world.settings : Explicit(g[i], s) = {} \/ Explicit(g[j], s) = {} \/ Explicit(g[i], s) = Explicit(g[j], s)
         /\ \A p \in DOMAIN cfg(i) \cap DOMAIN cfg(j) : cfg(i)[p].protocol = cfg(j)[p].protocol
         /\ \A p \in DOMAIN nlb(i) \cap DOMAIN nlb(j) : nlb(i)[p].target = nlb(j)[p].target
Accepted(g) ==
    /\ ~LoadBalancerFails(g, world.existing)
    /\ ~Failed(buildLoadBalancerAddOns(g))
    /\ ~FrontendFails(g, The(buildLoadBalancerSecurityGroups(g)).groups,
                      [k \in DOMAIN g |-> DOMAIN The(portConfigs(g)[k])])

\* Refused without a conflict: success codes that two members give for one port of
\* the Network Load Balancer, and attributes of it that a later member leaves open.
RefusedAnyway(g) ==
    LET nlbPorts(k) == DOMAIN buildFrontendNlbListenerConfigByPortForIngress(g[k], DOMAIN The(portConfigs(g)[k]))
    IN \E i, j \in DOMAIN g : i < j /\
         \/ Annotated(g[i], "Matcher") # {} /\ Annotated(g[j], "Matcher") # {} /\ nlbPorts(i) \cap nlbPorts(j) # {}
         \/ Annotated(g[i], "nlbAttributes") # {} /\ Annotated(g[j], "nlbAttributes") = {}

\* Members that agree, and that each would be accepted on its own, are accepted
\* together: what mergeListenPortConfigs and the other merges refuse is a conflict.
\* The two settings of RefusedAnyway are the exception.
AgreedIsAccepted ==
    stage = "failed" /\ world.settings # {} =>
        ~(/\ \A m \in Members(world.members) : Accepted(<<m>>)
          /\ Agree(world.members) /\ ~RefusedAnyway(world.members))
=============================================================================
