--------------------------- MODULE GatewayRoutes ---------------------------
(***************************************************************************)
(* One reconcile of a Gateway, from its listeners and routes to the        *)
(* listeners and rules of the load balancer: which ListenerSets and which  *)
(* listeners are accepted, which routes attach to them and for which       *)
(* hostnames, what their backends resolve to, in which order the rules of  *)
(* an ALB listener are tried and what they do, which route an NLB listener *)
(* forwards to, and the statuses that tell of it all.                      *)
(*                                                                         *)
(* A hostname is the sequence of its labels, the first one "*" in a        *)
(* wildcard.  A path is its segments and whether it ends in a slash.  A    *)
(* route and a ListenerSet are named by a number, the rank of their        *)
(* namespace/name in alphabetic order.                                     *)
(***************************************************************************)
EXTENDS Integers, Sequences, FiniteSets, SequencesExt, FiniteSetsExt, TLC

CONSTANTS
    Worlds,     \* Gateways with what refers to them; see the fields in MCGatewayRoutes
    Requests,   \* requests a client may send
    HostOrder,  \* the hostnames in alphabetic order
    Length      \* of the texts that labels, segments and names stand for

VARIABLES
    world,      \* the objects, as this reconcile reads them
    phase,
    sets,       \* ListenerSets by the outcome of the handshake
    valid,      \* for each listener the reason of its Accepted condition
    mapped,     \* for each route what mapListenersAndRoutes found out
    loaded,     \* for each route loaded so far its rules with their backends
    statuses,   \* the status updates, in the order of routeStatusUpdates
    built       \* the listeners of the load balancer

vars == <<world, phase, sets, valid, mapped, loaded, statuses, built>>

NoHost == <<>>
IsWildcard(h) == h # NoHost /\ h[1] = "*"
Concat(ss) == FoldLeft(LAMBDA a, s : a \o s, <<>>, ss)

\* s in the order of Before, a strict total order on the elements.
Ordered(S, Before(_, _)) ==
  [i \in 1..Cardinality(S) |->
     CHOOSE x \in S : Cardinality({y \in S : Before(y, x)}) = i - 1]

-----------------------------------------------------------------------------
(***************************************************************************)
(* ListenerSets and listeners.                                             *)
(***************************************************************************)
doesResourceAllowNamespace(from, resourceNs, parentNs) ==
  CASE from = "Same" -> resourceNs = parentNs
    [] from = "All" -> TRUE
    [] from = "Selector" -> resourceNs \in world.selected
    [] OTHER -> FALSE

listenerSetGatewayHandshake(s) ==
  IF ~s.wants THEN "irrelevant"
  ELSE IF doesResourceAllowNamespace(world.allowedListeners, s.ns, world.ns)
  THEN "accepted" ELSE "rejected"

\* By creation time, then by name.
arrangeListenerSetsForValidation_byName(acc) == Ordered(acc, LAMBDA s, t : s.nn < t.nn)
arrangeListenerSetsForValidation(acc) ==
  Ordered(acc, LAMBDA s, t : IF s.created = t.created THEN s.nn < t.nn
                             ELSE s.created < t.created)

Owned(owner, listeners) == [i \in DOMAIN listeners |->
                              [owner |-> owner, name |-> listeners[i].name, l |-> listeners[i]]]
Gw == 0
GatewayListeners == Owned(Gw, world.listeners)
Accepted == {s \in world.sets : sets[s.nn] = "accepted"}

\* All listeners, first come first served.
ByPriority ==
  LET order == arrangeListenerSetsForValidation(Accepted)
  IN  GatewayListeners \o Concat([i \in DOMAIN order |-> Owned(order[i].nn, order[i].listeners)])

L7Kinds == {"HTTPRoute", "GRPCRoute"}
L4Kinds == {"TCPRoute", "UDPRoute", "TLSRoute"}
ControllerKinds == IF world.controller = "alb" THEN L7Kinds ELSE L4Kinds
DefaultProtocolToRouteKindMap ==
  [HTTP |-> {"HTTPRoute"}, HTTPS |-> L7Kinds, TCP |-> {"TCPRoute"}, UDP |-> {"UDPRoute"},
   TLS |-> {"TLSRoute", "TCPRoute"}]
ControllerProtocols ==
  IF world.controller = "alb" THEN {"HTTP", "HTTPS"} ELSE {"TCP", "UDP", "TLS"}

getSupportedKinds(l) == l.kinds \subseteq ControllerKinds

validateListener(st, e) ==
  LET l == e.l
      first == st.proto[l.port]
      clash == first \notin {"", l.protocol} /\ {first, l.protocol} # {"TCP", "UDP"}
      taken == l.hostname # NoHost /\ <<l.port, l.hostname>> \in st.hosts
      refuse(reason) == [st EXCEPT !.result = Append(@, reason)]
  IN  CASE ~getSupportedKinds(l) -> refuse("InvalidRouteKinds")
        [] l.port \notin 1..65535 -> refuse("PortUnavailable")
        [] l.protocol \notin ControllerProtocols -> refuse("UnsupportedProtocol")
        [] OTHER ->
             [proto |-> [st.proto EXCEPT ![l.port] = IF first = "" THEN l.protocol ELSE first],
              hosts |-> st.hosts \cup (IF l.hostname = NoHost THEN {}
                                       ELSE {<<l.port, l.hostname>>}),
              result |-> Append(st.result, IF taken THEN "HostnameConflict"
                                           ELSE IF clash THEN "ProtocolConflict"
                                           ELSE "Accepted")]

validateListeners ==
  LET ports == {ByPriority[i].l.port : i \in DOMAIN ByPriority}
      start == [proto |-> [p \in ports |-> ""], hosts |-> {}, result |-> <<>>]
  IN  FoldLeft(validateListener, start, ByPriority).result

IsValid(i) == valid[i] = "Accepted"

-----------------------------------------------------------------------------
(***************************************************************************)
(* Routes as the loader reads them, and which listeners they attach to.    *)
(***************************************************************************)
\* A ListenerRuleConfiguration is an ExtensionRef filter, which L4 rules do not have.
Unfiltered(rules) == [i \in DOMAIN rules |-> [rules[i] EXCEPT !.filters = <<>>, !.lrc = "none"]]
convertHTTPRoute(o) == o
convertGRPCRoute(o) == o
convertTLSRoute(o) == [o EXCEPT !.rules = Unfiltered(@)]
convertTCPRoute(o) == [o EXCEPT !.hostnames = {}, !.rules = Unfiltered(@)]
convertUDPRoute(o) == [o EXCEPT !.hostnames = {}, !.rules = Unfiltered(@)]
allRoutes(o) ==
  CASE o.kind = "HTTPRoute" -> convertHTTPRoute(o)
    [] o.kind = "GRPCRoute" -> convertGRPCRoute(o)
    [] o.kind = "TLSRoute" -> convertTLSRoute(o)
    [] o.kind = "TCPRoute" -> convertTCPRoute(o)
    [] OTHER -> convertUDPRoute(o)
IsApplicable(kind) == kind \in ControllerKinds
Routes == {allRoutes(o) : o \in {x \in world.routes : IsApplicable(x.kind)}}

namespaceCheck(l, r, parentNs) == doesResourceAllowNamespace(l.from, r.ns, parentNs)

kindCheck(l, r) ==
  r.kind \in (IF l.kinds = {} THEN DefaultProtocolToRouteKindMap[l.protocol] ELSE l.kinds)

\* An IP address or a label that is too long passes the CRD's pattern.
IsHostNameInValidFormat(h) ==
  h \notin world.addresses /\ \A i \in DOMAIN h : Length[h[i]] \in 1..63

Covers(wild, h) == IsWildcard(wild) /\ IsSuffix(Tail(wild), h) /\ Len(h) >= Len(wild)

\* The more specific of two hostnames that overlap, or none.
getCompatibleHostname(h1, h2) ==
  CASE h1 = h2 -> {h1}
    [] Covers(h1, h2) -> {h2}
    [] Covers(h2, h1) -> {h1}
    [] OTHER -> {}

hostnameCheck_routeHost(l, r) ==
  [ok |-> \E h \in r.hostnames : getCompatibleHostname(h, l.hostname) # {},
   hosts |-> r.hostnames, err |-> FALSE]
hostnameCheck(l, r) ==
  LET both == UNION {getCompatibleHostname(h, l.hostname) :
                       h \in {x \in r.hostnames : IsHostNameInValidFormat(x)}}
      result(ok, hosts) == [ok |-> ok, hosts |-> hosts, err |-> FALSE]
  IN  CASE r.hostnames = {} ->
             result(TRUE, IF l.hostname = NoHost THEN {} ELSE {l.hostname})
        [] l.hostname = NoHost -> result(TRUE, {})
        [] ~IsHostNameInValidFormat(l.hostname) ->
             [ok |-> FALSE, hosts |-> {}, err |-> TRUE]
        [] OTHER -> result(both # {}, both)

\* Why the listener refuses the route, or "" with the hostnames it may have there.
listenerAllowsAttachment(l, r, parentNs) ==
  LET check == hostnameCheck(l, r)
      refuse(why) == [why |-> why, hosts |-> {}, err |-> FALSE]
  IN  CASE ~namespaceCheck(l, r, parentNs) -> refuse("NotAllowedByListeners")
        [] ~kindCheck(l, r) -> refuse("NotAllowedByListeners")
        [] r.kind \notin {"HTTPRoute", "GRPCRoute", "TLSRoute"} -> refuse("")
        [] check.err -> [why |-> "", hosts |-> {}, err |-> TRUE]
        [] ~check.ok -> refuse("NoMatchingListenerHostname")
        [] OTHER -> [why |-> "", hosts |-> check.hosts, err |-> FALSE]

\* The listeners, by their index in ByPriority, of the parent that ref names.
resolveParentRef(ref) == {i \in DOMAIN ByPriority : ByPriority[i].owner = ref.parent}
Resolves(ref) == ref.parent = Gw \/ \E s \in Accepted : s.nn = ref.parent
ParentNs(ref) ==
  IF ref.parent = Gw THEN world.ns ELSE (CHOOSE s \in Accepted : s.nn = ref.parent).ns

\* One parentRef: the listeners it attaches to, or the first failure.
attemptListenerRouteAttachment(r, ref) ==
  LET tried == {i \in resolveParentRef(ref) :
                  /\ ref.section \in {"", ByPriority[i].name}
                  /\ ref.port \in {0, ByPriority[i].l.port}}
      outcome == [i \in tried |-> listenerAllowsAttachment(ByPriority[i].l, r, ParentNs(ref))]
      to == {i \in tried : outcome[i].why = ""}
      first == CHOOSE i \in tried : \A j \in tried : i <= j
  IN  [ref |-> ref,
       err |-> \E i \in tried : outcome[i].err,
       to |-> [i \in to |-> outcome[i].hosts],
       why |-> CASE to # {} -> ""
                 [] tried = {} -> "NoMatchingParent"
                 [] OTHER -> outcome[first].why]

\* All parentRefs of a route that concern this Gateway.
mapListenersAndRoutes(r) ==
  LET refs == SelectSeq(r.parents, Resolves)
  IN  [i \in DOMAIN refs |-> attemptListenerRouteAttachment(r, refs[i])]

AttachedTo(r) == UNION {DOMAIN mapped[r][i].to : i \in DOMAIN mapped[r]}
matchedParentRefs(r) == SelectSeq(mapped[r], LAMBDA a : a.why = "")

\* Routes reach a port through valid listeners only; hostnames come from every listener.
generateRoutePerPortSet(port) ==
  {r \in Routes : \E i \in AttachedTo(r) : IsValid(i) /\ ByPriority[i].l.port = port}
compatibleHostnames(r, port) ==
  UNION {UNION {mapped[r][a].to[i] : i \in {x \in DOMAIN mapped[r][a].to :
                                              ByPriority[x].l.port = port}} :
         a \in DOMAIN mapped[r]}
attachedListeners == {i \in DOMAIN ByPriority : IsValid(i)}
Ports == {ByPriority[i].l.port : i \in DOMAIN ByPriority}

-----------------------------------------------------------------------------
(***************************************************************************)
(* Loading what the rules refer to.  A result is a reason, "" for success, *)
(* and whether it ends the reconcile.                                      *)
(***************************************************************************)
Result(reason, fatal) == [reason |-> reason, fatal |-> fatal]
Ok == Result("", FALSE)
IsError(e) == e # Ok

listenerRuleConfigLoader(rule) ==
  CASE rule.lrc = "error" -> Result("", TRUE)
    [] rule.lrc \in {"several", "missing", "refused"} -> Result("IncompatibleFilters", FALSE)
    [] OTHER -> Ok

\* What a Service and a Gateway as backends have in common.
Reference(b) ==
  CASE ~b.port -> Result("UnsupportedValue", FALSE)
    [] b.cross /\ b.grant = "error" -> Result("", TRUE)
    [] b.cross /\ b.grant = "no" -> Result("RefNotPermitted", FALSE)
    [] b.found = "no" -> Result("BackendNotFound", FALSE)
    [] b.found = "error" -> Result("", TRUE)
    [] OTHER -> Ok
serviceLoader(b) ==
  IF IsError(Reference(b)) THEN Reference(b)
  ELSE IF ~b.listens THEN Result("BackendNotFound", FALSE) ELSE Ok

\* The ARN is in the message of the Programmed condition.
validateGatewayARN(b) == b.lb = "app"
gatewayLoader(b) ==
  IF IsError(Reference(b)) THEN Reference(b)
  ELSE IF b.lb = "" THEN Result("BackendNotFound", TRUE)
  ELSE IF validateGatewayARN(b) THEN Ok ELSE Result("BackendNotFound", FALSE)

MaxWeight == 999
Weight(b) == IF b.weight = -1 THEN 1 ELSE b.weight
commonBackendLoader(b) ==
  LET found == CASE b.kind = "Service" -> serviceLoader(b)
                 [] b.kind = "Gateway" -> gatewayLoader(b)
                 [] b.kind = "TargetGroupName" -> Ok
                 [] OTHER -> Result("InvalidKind", FALSE)
  IN  IF ~IsError(found) /\ Weight(b) > MaxWeight THEN Result("", TRUE) ELSE found

\* Without its ListenerRuleConfiguration a rule has no backends.
RuleErrors(rule) ==
  LET lrc == listenerRuleConfigLoader(rule)
  IN  SelectSeq(<<lrc>> \o (IF IsError(lrc) THEN <<>>
                            ELSE [i \in DOMAIN rule.backends |->
                                    commonBackendLoader(rule.backends[i])]),
                IsError)
LoadedBackends(rule) ==
  IF IsError(listenerRuleConfigLoader(rule)) THEN <<>>
  ELSE SelectSeq(rule.backends, LAMBDA b : ~IsError(commonBackendLoader(b)))

\* The errors up to the first fatal one, and the rules if there is none.
accumulateRules(r) ==
  LET all == Concat([i \in DOMAIN r.rules |-> RuleErrors(r.rules[i])])
      fatal == {i \in DOMAIN all : all[i].fatal}
      cut == IF fatal = {} THEN Len(all) ELSE CHOOSE i \in fatal : \A j \in fatal : i <= j
  IN  [errors |-> SubSeq(all, 1, cut),
       fatal |-> fatal # {},
       backends |-> [i \in DOMAIN r.rules |-> LoadedBackends(r.rules[i])]]

\* Which condition of the route a reason belongs to.
Categorize(reason) ==
  [accepted |-> reason \in {"RefNotPermitted", "InvalidKind", "BackendNotFound",
                            "UnsupportedProtocol"},
   resolved |-> reason \in {"NotAllowedByListeners", "NoMatchingListenerHostname",
                            "NoMatchingParent", "UnsupportedValue", "Pending",
                            "IncompatibleFilters"}]
GenerateRouteData(r, ref, accepted, resolved, reason) ==
  [route |-> r, ref |-> ref, accepted |-> accepted, resolved |-> resolved, reason |-> reason]

MapFailures(r) ==
  LET bad == SelectSeq(mapped[r], LAMBDA a : a.why # "")
  IN  [i \in DOMAIN bad |-> GenerateRouteData(r, bad[i].ref, FALSE, TRUE, bad[i].why)]
LoadFailures(r, errors) ==
  LET refs == matchedParentRefs(r)
      shown == SelectSeq(errors, LAMBDA e : e.reason # "")
      one(e) == [i \in DOMAIN refs |->
                   LET c == Categorize(e.reason)
                   IN  GenerateRouteData(r, refs[i].ref, c.accepted, c.resolved, e.reason)]
  IN  Concat([i \in DOMAIN shown |-> one(shown[i])])
Successes(r) ==
  LET refs == matchedParentRefs(r)
  IN  [i \in DOMAIN refs |-> GenerateRouteData(r, refs[i].ref, TRUE, TRUE, "Accepted")]

\* The first update of each route and parent is queued, the others are dropped.
Enqueued_last ==
  {statuses[i] : i \in {k \in DOMAIN statuses : \A j \in DOMAIN statuses :
     statuses[j].route = statuses[k].route /\ statuses[j].ref = statuses[k].ref => j <= k}}
Enqueued ==
  {statuses[i] : i \in {k \in DOMAIN statuses : \A j \in DOMAIN statuses :
     statuses[j].route = statuses[k].route /\ statuses[j].ref = statuses[k].ref => k <= j}}

-----------------------------------------------------------------------------
(***************************************************************************)
(* The rules of an ALB listener: one for each match and hostname.          *)
(***************************************************************************)
getRouteHostnames(r, port) ==
  LET both == compatibleHostnames(r, port) IN IF both = {} THEN r.hostnames ELSE both
splitHostnamesForPrecedence(hosts) == IF hosts = {} THEN {NoHost} ELSE hosts

\* Match 0 stands for a rule without matches.
MatchIndexes(rule) == IF rule.matches = <<>> THEN {0} ELSE DOMAIN rule.matches
Units(port) ==
  UNION {UNION {{[r |-> r, rule |-> i, match |-> m, host |-> h, port |-> port] :
                   m \in MatchIndexes(r.rules[i]),
                   h \in splitHostnamesForPrecedence(getRouteHostnames(r, port))} :
                i \in DOMAIN r.rules} :
         r \in generateRoutePerPortSet(port)}
Rule(u) == u.r.rules[u.rule]
Match(u) == Rule(u).matches[u.match]

TextLength(texts) == FoldLeft(LAMBDA n, t : n + 1 + Length[t], 0, texts)
PathText(p) == TextLength(p.segs) + (IF p.slash THEN 1 ELSE 0)
Optional(t) == IF t = "" THEN 0 ELSE Length[t]

\* The negated specificity of a match, most significant first.
getHttpMatchPrecedenceInfo(m) ==
  <<-(CASE m.path.type = "Exact" -> 3 [] m.path.type = "Prefix" -> 2 [] OTHER -> 1),
    -PathText(m.path), 0, IF m.method = "" THEN 0 ELSE -1,
    -Cardinality(m.headers), -Cardinality(m.query)>>
getGrpcMatchPrecedenceInfo(m) ==
  <<-(CASE m.type = "Exact" -> 3 [] m.type = "Regex" -> 1 [] OTHER -> 0),
    -Optional(m.service), -Optional(m.method), 0, -Cardinality(m.headers), 0>>
PrecedenceFactor(u) ==
  CASE u.match = 0 -> <<0, 0, 0, 0, 0, 0>>
    [] u.r.kind = "HTTPRoute" -> getHttpMatchPrecedenceInfo(Match(u))
    [] OTHER -> getGrpcMatchPrecedenceInfo(Match(u))

getHostnamePrecedenceOrder(h) ==
  <<IF h = NoHost THEN 2 ELSE IF IsWildcard(h) THEN 1 ELSE 0, -Len(h), -TextLength(h)>>

MaxInt == 1000
compareCommonTieBreakers(u) ==
  <<u.r.created, u.r.nn, u.rule, IF u.match = 0 THEN MaxInt ELSE u.match,
    IF u.host = NoHost THEN 0 ELSE CHOOSE i \in DOMAIN HostOrder : HostOrder[i] = u.host>>

LexLess(a, b) == \E i \in DOMAIN a : a[i] < b[i] /\ \A j \in 1..(i - 1) : a[j] = b[j]
PrecedenceKey(u) ==
  getHostnamePrecedenceOrder(u.host) \o PrecedenceFactor(u) \o compareCommonTieBreakers(u)
compareRulePrecedenceUnified(u, v) == LexLess(PrecedenceKey(u), PrecedenceKey(v))

\* The place of a rule; where the order leaves two rules equal, so are their places.
Priority(us, u) == 1 + Cardinality({v \in us : compareRulePrecedenceUnified(v, u)})

\* A condition: the field of the request, and the values of which it must have one.
Cond(field, values) == {<<field, values>>}
Field(c) == c[1][1]
Values(c) == c[2]
Is(p) == [glob |-> "is", segs |-> p.segs, slash |-> p.slash]
Under(segs) == [glob |-> "under", segs |-> segs, slash |-> FALSE]
buildHttpPathCondition(p) ==
  Cond(<<"path">>,
       CASE p.type = "Exact" -> {Is(p)}
         [] p.type = "Regex" -> p.language
         [] p.segs = <<>> -> {Under(<<>>)}
         [] OTHER -> {Is([p EXCEPT !.slash = FALSE]), Under(p.segs)})
buildGrpcMethodCondition(m) ==
  Cond(<<"path">>,
       CASE m.type = "" -> {Under(<<>>)}
         [] m.service # "" /\ m.method # "" -> {Is([segs |-> <<m.service, m.method>>,
                                                   slash |-> FALSE])}
         [] m.service # "" -> {Under(<<m.service>>)}
         [] OTHER -> {[glob |-> "ends", segs |-> <<m.method>>, slash |-> FALSE]})
HeaderConditions(headers) == UNION {Cond(<<"header", h.name>>, h.values) : h \in headers}

BuildHttpRuleConditions(m) ==
  buildHttpPathCondition(m.path) \cup HeaderConditions(m.headers)
    \cup UNION {Cond(<<"query">>, {q}) : q \in m.query}
    \cup (IF m.method = "" THEN {} ELSE Cond(<<"method">>, {m.method}))
BuildGrpcRuleConditions(m) == buildGrpcMethodCondition(m) \cup HeaderConditions(m.headers)

\* Source addresses of the ListenerRuleConfiguration, for some of the rule's matches.
BuildSourceIpInCondition(u) ==
  IF Rule(u).lrc # "ok" THEN {}
  ELSE UNION {Cond(<<"ip">>, c.values) :
                c \in {x \in Rule(u).config.ips : x.matches = {} \/ u.match \in x.matches}}

Conditions(u) ==
  (IF u.host = NoHost THEN {} ELSE Cond(<<"host">>, {u.host}))
    \cup (CASE u.match = 0 -> IF u.r.kind = "HTTPRoute" THEN {} ELSE Cond(<<"path">>, {Under(<<>>)})
            [] u.r.kind = "HTTPRoute" -> BuildHttpRuleConditions(Match(u))
            [] OTHER -> BuildGrpcRuleConditions(Match(u)))
    \cup BuildSourceIpInCondition(u)
ConditionError(u) ==
  /\ u.match # 0 /\ u.r.kind = "HTTPRoute"
  /\ Match(u).path.type = "Prefix" /\ Match(u).path.wild

-----------------------------------------------------------------------------
(***************************************************************************)
(* What a rule does with a request.  No action is a failed build.          *)
(***************************************************************************)
Filters(u) == Rule(u).filters
Action(u) == IF Rule(u).lrc = "ok" THEN Rule(u).config.act ELSE ""
TargetGroups(u) == LET bs == loaded[u.r].backends[u.rule]
                   IN  [i \in DOMAIN bs |-> [backend |-> bs[i].name, weight |-> Weight(bs[i])]]
shouldProvisionActions(tgs) == \E i \in DOMAIN tgs : tgs[i].weight # 0

\* The first filter that is neither a rewrite nor a ListenerRuleConfiguration.
Deciding(u) == SelectSeq(Filters(u), LAMBDA f : f.type \notin {"ext", "rewrite"})

buildHttpRedirectAction(f) ==
  [type |-> "redirect", protocol |-> f.scheme,
   port |-> CASE f.port # 0 -> f.port
              [] f.scheme = "HTTP" -> 80 [] f.scheme = "HTTPS" -> 443 [] OTHER -> 0]
RedirectError(f) == f.scheme = "other" \/ f.wild

buildRedirectRoutingAction(u) ==
  LET d == Deciding(u)
      error == {[type |-> "error"]}
  IN  CASE u.r.kind = "GRPCRoute" ->
             IF \E i \in DOMAIN Filters(u) : Filters(u)[i].type # "ext" THEN error ELSE {}
        [] Len(Filters(u)) = 1 /\ Filters(u)[1].type = "ext" /\ Action(u) = "redirect" -> error
        [] d = <<>> -> {}
        [] d[1].type # "redirect" \/ RedirectError(d[1]) -> error
        [] OTHER -> {buildHttpRedirectAction(d[1])}
buildForwardRoutingAction(u) ==
  IF shouldProvisionActions(TargetGroups(u))
  THEN {[type |-> "forward", to |-> TargetGroups(u)]} ELSE {}
buildL7ListenerNoBackendActions == [type |-> "fixed", code |-> 500]

BuildRuleRoutingAction(u) ==
  LET redirect == buildRedirectRoutingAction(u)
      forward == buildForwardRoutingAction(u)
  IN  CASE Action(u) = "fixed" -> {[type |-> "fixed", code |-> 200]}
        [] redirect # {} -> redirect
        [] forward # {} -> forward
        [] OTHER -> {buildL7ListenerNoBackendActions}

\* Authentication, on HTTPS only; OIDC needs a secret with a client in it.
getPreRoutingAction(u, protocol) ==
  IF protocol = "HTTPS" /\ Rule(u).lrc = "ok" THEN Rule(u).config.pre ELSE ""
BuildRulePreRoutingAction(u, protocol) ==
  CASE getPreRoutingAction(u, protocol) = "" -> {}
    [] getPreRoutingAction(u, protocol) = "oidc" /\ ~Rule(u).config.secret ->
         {[type |-> "error"]}
    [] OTHER -> {[type |-> getPreRoutingAction(u, protocol)]}

\* A URL rewrite puts rep in the place of the prefix v and of the slash after it; $2
\* stands for that slash.  Without a slash between them, the last segment of rep and
\* the rest run together.
generatePrefixReplacementRegex(v, rep, p) ==
  LET rest == SubSeq(p.segs, Len(v.segs) + 1, Len(p.segs))
      more == rest # <<>> \/ p.slash
      slash == rep.slash \/ (~v.slash /\ more)
  IN  IF ~IsPrefix(v.segs, p.segs) \/ (v.slash /\ ~more)
      THEN [segs |-> p.segs, slash |-> p.slash, glued |-> FALSE]
      ELSE [segs |-> rep.segs \o rest,
            slash |-> IF rest = <<>> THEN slash ELSE p.slash,
            glued |-> rest # <<>> /\ ~slash]
\* The path a request has after the rewrites of the rule.
buildHTTPRuleTransforms(u, p) ==
  LET paths == SelectSeq(Filters(u), LAMBDA f : f.prefix # {})
      Rewritten(f) == generatePrefixReplacementRegex(
                        Match(u).path, CHOOSE rep \in f.prefix : TRUE, p)
  IN  IF u.r.kind # "HTTPRoute" \/ paths = <<>>
      THEN [segs |-> p.segs, slash |-> p.slash, glued |-> FALSE]
      ELSE Rewritten(paths[1])

-----------------------------------------------------------------------------
(***************************************************************************)
(* The listeners of the load balancer.                                     *)
(***************************************************************************)
\* Passthrough TLS is TCP to the load balancer.
ListenerProtocol(l) == IF l.protocol = "TLS" /\ l.passthrough THEN "TCP" ELSE l.protocol
ValidOn(port) == {i \in attachedListeners : ByPriority[i].l.port = port}
mergeProtocols(ps) ==
  CASE Cardinality(ps) = 1 -> ps [] ps = {"TCP", "UDP"} -> {"TCP_UDP"}
    [] ps = {"TCP", "QUIC"} -> {"TCP_QUIC"} [] OTHER -> {}
\* The protocol of a port, or nothing if its listeners do not agree.
mapGatewayListenerConfigsByPort(port) ==
  mergeProtocols({ListenerProtocol(ByPriority[i].l) : i \in ValidOn(port)})

isSecureProtocol(p) == p \in {"HTTPS", "TLS"}
ListenerHostnames(port) ==
  ({ByPriority[i].l.hostname : i \in ValidOn(port)} \ {NoHost})
    \cup UNION {getRouteHostnames(r, port) : r \in generateRoutePerPortSet(port)}
\* Explicit certificates, or discovered ones for every hostname.
CertificateError(port, protocol) ==
  /\ isSecureProtocol(protocol) /\ port \notin world.certs
  /\ \/ ListenerHostnames(port) = {}
     \/ ~(ListenerHostnames(port) \subseteq world.discoverable)

\* The protocol after the upgrade to QUIC that the configuration may ask for.
QuicUpgrade(port, protocol) ==
  CASE port \notin world.quic -> {protocol}
    [] protocol = "UDP" -> {"QUIC"} [] protocol = "TCP_UDP" -> {"TCP_QUIC"} [] OTHER -> {}

\* The oldest route, then the first by name.
pickOneL4Route(rs) ==
  CHOOSE r \in rs : \A s \in rs : \/ r.created < s.created
                                  \/ r.created = s.created /\ r.nn <= s.nn
buildL4TargetGroupTuples(port, protocol) ==
  LET r == pickOneL4Route(generateRoutePerPortSet(port))
      bs == Concat(loaded[r].backends)
      tuples == [i \in DOMAIN bs |->
                   [backend |-> bs[i].name,
                    weight |-> IF protocol \in {"QUIC", "TCP_QUIC"} THEN -1 ELSE Weight(bs[i])]]
  IN  IF generateRoutePerPortSet(port) = {} THEN <<>>
      ELSE IF \A i \in DOMAIN bs : Weight(bs[i]) = 0 THEN <<>> ELSE tuples

\* A listener of an ALB with its rules, or of an NLB if it has somewhere to forward to.
buildListenerRules(port, protocol) ==
  LET us == Units(port)
  IN  {[u |-> u, priority |-> Priority(us, u), conds |-> Conditions(u),
        pre |-> BuildRulePreRoutingAction(u, protocol),
        action |-> BuildRuleRoutingAction(u)] : u \in us}
RuleError(rule) ==
  ConditionError(rule.u) \/ [type |-> "error"] \in rule.pre \cup rule.action
buildListener(port) ==
  LET merged == mapGatewayListenerConfigsByPort(port)
      upgraded == UNION {QuicUpgrade(port, p) : p \in merged}
      protocol == CHOOSE p \in upgraded : TRUE
      rules == buildListenerRules(port, protocol)
      l4 == buildL4TargetGroupTuples(port, protocol)
      error == [err |-> TRUE, listener |-> {}]
      ok(ls) == [err |-> FALSE, listener |-> ls]
  IN  CASE upgraded = {} -> error
        [] CertificateError(port, CHOOSE p \in merged : TRUE) -> error
        [] world.controller = "alb" ->
             IF \E rule \in rules : RuleError(rule) THEN error
             ELSE ok({[protocol |-> protocol, rules |-> rules, forward |-> <<>>]})
        [] l4 = <<>> -> ok({})
        [] OTHER -> ok({[protocol |-> protocol, rules |-> {}, forward |-> l4]})

-----------------------------------------------------------------------------
(***************************************************************************)
(* One reconcile.                                                          *)
(***************************************************************************)
Init ==
  /\ world \in Worlds
  /\ phase = "sets"
  /\ sets = <<>> /\ valid = <<>> /\ mapped = <<>> /\ loaded = <<>>
  /\ statuses = <<>>
  /\ built = <<>>

\* The ListenerSets of the cluster; a failing list call ends the reconcile.
retrieveListenersFromListenerSets ==
  /\ phase = "sets"
  /\ \/ /\ phase' = "validate"
        /\ sets' = [n \in {s.nn : s \in world.sets} |->
                      listenerSetGatewayHandshake(CHOOSE s \in world.sets : s.nn = n)]
     \/ phase' = "failed" /\ UNCHANGED sets
  /\ UNCHANGED <<world, valid, mapped, loaded, statuses, built>>

Validate ==
  /\ phase = "validate"
  /\ valid' = validateListeners
  /\ phase' = "map"
  /\ UNCHANGED <<world, sets, mapped, loaded, statuses, built>>

\* An error leaves no statuses behind.
MapRoutes ==
  /\ phase = "map"
  /\ mapped' = [r \in Routes |-> mapListenersAndRoutes(r)]
  /\ phase' = IF \E r \in Routes : \E a \in DOMAIN mapped'[r] : mapped'[r][a].err
              THEN "failed" ELSE "failures"
  /\ UNCHANGED <<world, sets, valid, loaded, statuses, built>>

RecordMapFailures ==
  /\ phase = "failures"
  /\ statuses' = FoldSet(LAMBDA r, all : all \o MapFailures(r), <<>>, Routes)
  /\ phase' = "load"
  /\ UNCHANGED <<world, sets, valid, mapped, loaded, built>>

\* The routes of the ports, in the order of Go's map iteration.
ToLoad == {r \in Routes : \E port \in Ports : r \in generateRoutePerPortSet(port)}
loadChildResources(r) ==
  LET found == accumulateRules(r)
  IN  /\ phase = "load"
      /\ r \in ToLoad \ DOMAIN loaded
      /\ statuses' = statuses \o LoadFailures(r, found.errors)
      /\ IF found.fatal THEN phase' = "failed" /\ UNCHANGED loaded
         ELSE phase' = phase /\ loaded' = (r :> found) @@ loaded
      /\ UNCHANGED <<world, sets, valid, mapped, built>>

AcceptLoaded ==
  /\ phase = "load" /\ ToLoad \subseteq DOMAIN loaded
  /\ statuses' = statuses \o FoldSet(LAMBDA r, all : all \o Successes(r), <<>>, ToLoad)
  /\ phase' = "build"
  /\ UNCHANGED <<world, sets, valid, mapped, loaded, built>>

\* Every port with a valid listener and a route, or nothing at all.
buildListeners ==
  LET gwLsPorts == {ByPriority[i].l.port : i \in attachedListeners}
      ports == {p \in gwLsPorts : generateRoutePerPortSet(p) # {}}
  IN  /\ phase = "build"
      /\ IF (\E p \in gwLsPorts : mapGatewayListenerConfigsByPort(p) = {}) \/ \E p \in ports : buildListener(p).err
         THEN phase' = "failed" /\ UNCHANGED built
         ELSE phase' = "done" /\ built' = [p \in ports |-> buildListener(p).listener]
      /\ UNCHANGED <<world, sets, valid, mapped, loaded, statuses>>

Next ==
  \/ retrieveListenersFromListenerSets \/ Validate \/ MapRoutes \/ RecordMapFailures
  \/ \E r \in Routes : loadChildResources(r)
  \/ AcceptLoaded \/ buildListeners

Spec == Init /\ [][Next]_vars

-----------------------------------------------------------------------------
(***************************************************************************)
(* What an ALB does with its rules: the first whose conditions all hold.   *)
(***************************************************************************)
HostMatches(h, host) == h \in {NoHost, host} \/ Covers(h, host)
Globs(g, p) ==
  CASE g.glob = "is" -> g.segs = p.segs /\ g.slash = p.slash
    [] g.glob = "under" -> /\ IsPrefix(g.segs, p.segs)
                           /\ Len(p.segs) > Len(g.segs) \/ p.slash
    [] OTHER -> Len(p.segs) >= 2 /\ ~p.slash /\ Last(p.segs) = g.segs[1]
Satisfies(c, q) ==
  CASE Field(c) = "host" -> \E h \in Values(c) : HostMatches(h, q.host)
    [] Field(c) = "path" -> \E g \in Values(c) : Globs(g, q.path)
    [] Field(c) = "header" -> \E v \in Values(c) : <<c[1][2], v>> \in q.headers
    [] Field(c) = "query" -> Values(c) \subseteq q.query
    [] Field(c) = "method" -> q.method \in Values(c)
    [] OTHER -> q.ip \in Values(c)
Taken(rules, q) ==
  LET hit == {x \in rules : \A c \in x.conds : Satisfies(c, q)}
  IN  {x \in hit : \A y \in hit : x.priority <= y.priority}

(***************************************************************************)
(* What the Gateway API says of a match.                                   *)
(***************************************************************************)
PathMatches(path, p) ==
  CASE path.type = "Exact" -> path.segs = p.segs /\ path.slash = p.slash
    [] path.type = "Prefix" -> IsPrefix(path.segs, p.segs)
    [] OTHER -> \E g \in path.language : Globs(g, p)
HeadersMatch(m, q) == \A h \in m.headers : \E v \in h.values : <<h.name, v>> \in q.headers
Serves(u, q) ==
  /\ HostMatches(u.host, q.host)
  /\ \A c \in BuildSourceIpInCondition(u) : q.ip \in Values(c)
  /\ CASE u.match = 0 -> TRUE
       [] u.r.kind = "HTTPRoute" ->
            /\ PathMatches(Match(u).path, q.path)
            /\ Match(u).method \in {"", q.method}
            /\ HeadersMatch(Match(u), q)
            /\ Match(u).query \subseteq q.query
       [] OTHER ->
            /\ Match(u).service \in {"", q.path.segs[1]}
            /\ Match(u).method \in {"", Last(q.path.segs)}
            /\ HeadersMatch(Match(u), q)

\* A gRPC call has the path /service/method.
IsCall(q) == Len(q.path.segs) = 2 /\ ~q.path.slash

\* The candidates of C for which Measure is largest.
Most(C, Measure(_)) == {u \in C : \A v \in C : Measure(v) <= Measure(u)}
HostRank(u) == CASE u.host = NoHost -> 0 [] IsWildcard(u.host) -> Len(u.host)
                 [] OTHER -> 100
HttpRank(C) ==
  LET P(u) == CASE u.match = 0 -> 0
                [] Match(u).path.type = "Exact" -> 1000
                [] Match(u).path.type = "Regex" -> 1   \* left to the implementation
                [] OTHER -> 1 + PathText(Match(u).path)
      M(u) == IF u.match # 0 /\ Match(u).method # "" THEN 1 ELSE 0
      H(u) == IF u.match # 0 THEN Cardinality(Match(u).headers) ELSE 0
      Q(u) == IF u.match # 0 THEN Cardinality(Match(u).query) ELSE 0
  IN  Most(Most(Most(Most(C, P), M), H), Q)
GrpcRank(C) ==
  LET S(u) == IF u.match = 0 THEN 0 ELSE Optional(Match(u).service)
      M(u) == IF u.match = 0 THEN 0 ELSE Optional(Match(u).method)
      H(u) == IF u.match = 0 THEN 0 ELSE Cardinality(Match(u).headers)
  IN  Most(Most(Most(C, S), M), H)
\* The rules the Gateway API prefers, then the oldest route, the name, the order.
Preferred(C, kind) ==
  LET ranked == IF kind = "HTTPRoute" THEN HttpRank(Most(C, HostRank))
                ELSE GrpcRank(Most(C, HostRank))
  IN  Most(Most(Most(ranked, LAMBDA u : -u.r.created), LAMBDA u : -u.r.nn),
           LAMBDA u : -u.rule)

-----------------------------------------------------------------------------
(***************************************************************************)
(* Properties.                                                             *)
(***************************************************************************)
Before(i, j) ==
  LET Age(k) == (CHOOSE s \in world.sets : s.nn = ByPriority[k].owner).created
      a == ByPriority[i].owner
      b == ByPriority[j].owner
  IN  CASE a = b -> i < j
        [] a = Gw -> TRUE
        [] b = Gw -> FALSE
        [] Age(i) = Age(j) -> a < b
        [] OTHER -> Age(i) < Age(j)
Conflict(l, m) ==
  /\ l.port = m.port
  /\ \/ l.protocol # m.protocol /\ {l.protocol, m.protocol} # {"TCP", "UDP"}
     \/ l.hostname = m.hostname /\ l.hostname # NoHost

\* Listeners that validateListeners accepts do not conflict with each other, and one it
\* refuses for a conflict had an earlier claimant: a listener of the Gateway, of an older
\* ListenerSet, or above it in its own object.
ListenerPrecedence ==
  valid # <<>> =>
    \A j \in DOMAIN ByPriority :
      /\ IsValid(j) => \A i \in attachedListeners \ {j} :
                         ~Conflict(ByPriority[i].l, ByPriority[j].l)
      /\ valid[j] \in {"HostnameConflict", "ProtocolConflict"} =>
           \E i \in DOMAIN ByPriority \ {j} :
             Before(i, j) /\ Conflict(ByPriority[i].l, ByPriority[j].l)

L7Ports == IF phase = "done" /\ world.controller = "alb"
           THEN {p \in DOMAIN built : built[p] # {}} ELSE {}
RulesOn(p) == (CHOOSE l \in built[p] : TRUE).rules

\* The ALB rule that takes a request is one the Gateway API prefers among all the rules
\* of the attached routes that match it, by hostname, path, method, headers and query,
\* then by age, name and order; it has one routing action.  The conditions, the split by
\* hostname and the order of the rules together decide it, with a rule per hostname whose
\* first match wins.  Routes of two kinds for one hostname are left open, and so is what
\* a GRPCRoute does with a request that is no gRPC call.
RulesFollowPrecedence ==
  \A p \in L7Ports :
   \A q \in {x \in Requests : IsCall(x) \/ \A u \in Units(p) : u.r.kind = "HTTPRoute"} :
    LET C == {u \in Units(p) : Serves(u, q)}
        taken == Taken(RulesOn(p), q)
    IN  /\ (taken = {}) = (C = {})
        /\ \A x \in taken : Cardinality(x.action) = 1
        /\ \A kind \in L7Kinds :
             C # {} /\ (\A u \in C : u.r.kind = kind) =>
               \A x \in taken : x.u \in Preferred(C, kind)

\* Whether a client of this host should reach r: a valid listener of the port and the
\* route both want the host.
Entitled(r, p, host) ==
  \E i \in AttachedTo(r) :
    /\ IsValid(i) /\ ByPriority[i].l.port = p
    /\ HostMatches(ByPriority[i].l.hostname, host)
    /\ r.hostnames = {} \/ \E h \in r.hostnames : HostMatches(h, host)
\* A route on a listener with and on one without a hostname, or on a refused one, may
\* get the wrong hostnames (compatibleHostnames adds up what the listeners say).
Blurred(r, p) ==
  LET on == {i \in AttachedTo(r) : ByPriority[i].l.port = p}
  IN  \/ \E i \in on : ~IsValid(i)
      \/ \E i, j \in on : ByPriority[i].l.hostname = NoHost /\ ByPriority[j].l.hostname # NoHost

\* A request reaches the rules of a route exactly if a listener of the port and the
\* route agree on its host: no hostname is lost, and none is served that the listener
\* does not allow.
HostsServed ==
  \A p \in L7Ports : \A q \in Requests :
    \A r \in {x \in generateRoutePerPortSet(p) : ~Blurred(x, p)} :
      Entitled(r, p, q.host) <=> \E u \in Units(p) : u.r = r /\ HostMatches(u.host, q.host)

\* The statuses that the loader queues agree with the rules that the builder writes, in
\* whatever order the routes are loaded.  A route told it is accepted with all its
\* references resolved is attached through that parent, and none of its rules lacks a
\* backend; a route with rules is told so or told why not, once for each parent.
StatusTellsTruth ==
  phase = "done" =>
    /\ \A s \in Enqueued : s.accepted /\ s.resolved =>
         /\ \E a \in DOMAIN mapped[s.route] :
              mapped[s.route][a].ref = s.ref /\ DOMAIN mapped[s.route][a].to # {}
         /\ \A i \in DOMAIN s.route.rules :
              Len(loaded[s.route].backends[i]) = Len(s.route.rules[i].backends)
    /\ \A r \in ToLoad : \A a \in DOMAIN mapped[r] :
         Cardinality({s \in Enqueued : s.route = r /\ s.ref = mapped[r][a].ref}) = 1

\* ReplacePrefixMatch puts the replacement in the place of the matched prefix and keeps
\* the rest of the path, segment by segment.
PrefixReplaced ==
  \A p \in L7Ports : \A q \in Requests : \A x \in Taken(RulesOn(p), q) :
    \A i \in DOMAIN Filters(x.u) : \A rep \in Filters(x.u)[i].prefix :
      LET v == Match(x.u).path
          after == buildHTTPRuleTransforms(x.u, q.path)
      IN  /\ ~after.glued
          /\ after.segs = rep.segs \o SubSeq(q.path.segs, Len(v.segs) + 1, Len(q.path.segs))

============================================================================
