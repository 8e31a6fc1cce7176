---------------------------- MODULE MCIngressBuild ----------------------------
(* Groups of Ingresses to build.                                                *)
EXTENDS IngressBuild

MCDefaults ==
    [tags |-> {<<"cluster", "c1">>}, scheme |-> "internal", ipAddressType |-> "ipv4", subnets |-> {"s1", "s2"},
     sslPolicy |-> "default", targetType |-> "instance", secrets |-> {"idp"},
     domains |-> (<<"arn", "found">> :> {"x.com"})]
MCFlags == [backendSG |-> TRUE, manageRules |-> FALSE, ipTargets |-> TRUE, restricted |-> TRUE, acm |-> TRUE,
            tolerate |-> TRUE, defaultTagsLow |-> FALSE, capacityReservation |-> TRUE]

\* "~re" is an expression for the host x.com.
MCHostLanguage == ("a.com" :> {"a.com"}) @@ ("x.com" :> {"x.com"}) @@ ("*.com" :> {"a.com", "x.com"}) @@ ("~re" :> {"x.com"})

None == <<>>
Path(segs, slash) == [segs |-> segs, slash |-> slash, glob |-> FALSE]
Get(host, segs, slash) == [host |-> host, path |-> Path(segs, slash), attrs |-> ("http-request-method" :> "GET")]
MCRequests == {Get(h, s, sl) : h \in {"a.com", "x.com"}, s \in {<<"p">>, <<"p", "q">>, <<"q">>}, sl \in BOOLEAN}
              \cup {Get("a.com", <<>>, TRUE), [Get("a.com", <<"p">>, FALSE) EXCEPT !.attrs = ("http-request-method" :> "POST")]}

\* Service version 2 listens elsewhere and authenticates.
SvcPort(n) == [name |-> "http", port |-> 80, targetPort |-> IF n = 1 THEN <<"int", 8080>> ELSE <<"name", "web">>, nodePort |-> 30000 + n]
Svc(v) == [version |-> v, ann |-> IF v = 1 THEN None ELSE ("auth-type" :> "oidc") @@ ("auth-idp-oidc" :> "idp"),
           ports |-> {SvcPort(v)}, ipv6 |-> FALSE]

Backend(s) == [service |-> <<s>>, port |-> <<"int", 80>>]
ByAnnotation(s) == [service |-> <<s>>, port |-> <<"name", "use-annotation">>]
Item(type, path, b) == [type |-> type, path |-> path, backend |-> b]
Ingress(name, rules) ==
    [name |-> name, params |-> None, ann |-> None, rules |-> rules, dflt |-> <<>>, tlsHosts |-> {},
     conditions |-> None, actions |-> None, transforms |-> None]
Rule(host, paths) == [host |-> host, paths |-> paths]

World(members) ==
    [members |-> members, inactive |-> {}, existing |-> [scheme |-> "none", subnets |-> {}],
     services |-> (<<"s">> :> Svc(1)) @@ (<<"t">> :> Svc(1)), edits |-> <<>>, requests |-> {}, settings |-> {}]

-------------------------------------------------------------------------------
\* One setting at a time, in the annotations or in the class parameters of two
\* members of a group.
Vals ==
    ("scheme" :> {"internal", "internet-facing"}) @@ ("ipAddressType" :> {"ipv4", "dualstack"})
    @@ ("name" :> {"lb1", "lb2", "too long"}) @@ ("subnets" :> {{"s1"}, {"s3", "s4"}}) @@ ("coipv4Pool" :> {"p1", ""})
    @@ ("shield" :> BOOLEAN) @@ ("wafAclId" :> {"w1", "w2"}) @@ ("wafv2Arn" :> {"a1", "none"}) @@ ("wafv2Name" :> {"n1", "unknown"})
    @@ ("tags" :> {{<<"k", "1">>}, {<<"k", "2">>}, {<<"cluster", "x">>}, {<<"external", "1">>}})
    @@ ("lbAttributes" :> {{<<"idle", "1">>}, {<<"idle", "2">>}}) @@ ("capacity" :> {{<<"CapacityUnits", 1>>}, {<<"Other", 1>>}})
    @@ ("ipam" :> {"pool1", "pool2"}) @@ ("securityGroups" :> {<<"sg1">>, <<"sg1", "sg2">>})
    @@ ("listenPorts" :> {<<<<"HTTP", 80>>>>, <<<<"HTTPS", 80>>>>, <<<<"HTTP", 80>>, <<"HTTPS", 443>>>>, <<<<"HTTP", 65536>>>>})
    @@ ("certs" :> {<<<<"arn", "c1">>>>, <<<<"arn", "c2">>, <<"arn", "c1">>>>}) @@ ("createCert" :> BOOLEAN)
    @@ ("inboundCIDRs" :> {{<<4, "10/8">>}, {<<4, "10/8">>, <<6, "fd/8">>}}) @@ ("prefixLists" :> {{"pl1"}, {"pl2"}})
    @@ ("sslPolicy" :> {"strict", "lax"}) @@ ("sslRedirect" :> {443, 80}) @@ ("mtls" :> {443 :> "verify", 443 :> "off"})
    @@ ("nlbScheme" :> {"internal", "internet-facing"}) @@ ("nlbTags" :> {{<<"k", "1">>}, {<<"k", "2">>}})
    @@ ("nlbSecurityGroups" :> {<<"sg1">>, <<"sg2">>}) @@ ("nlbSubnets" :> {{"s1"}, {"s2"}}) @@ ("nlbEips" :> {{"e1", "e2"}, {"e3"}})
    @@ ("nlbEnabled" :> BOOLEAN) @@ ("nlbPorts" :> {80 :> 80, 8080 :> 80, 8080 :> 9090}) @@ ("Path" :> {"/h", "/i"}) @@ ("Matcher" :> {"200", "404"})
    @@ ("nlbAttributes" :> {{<<"cross", "1">>}, {<<"cross", "2">>}}) @@ ("manageRules" :> BOOLEAN)
\* Settings that IngressClassParams have, too.
ClassSettings == {"scheme", "ipAddressType", "name", "subnets", "wafv2Arn", "wafv2Name", "tags", "lbAttributes",
                  "capacity", "ipam", "certs", "inboundCIDRs", "prefixLists", "sslPolicy", "sslRedirect"}
Made(s, name) ==
    {Ingress(name, <<>>)} \cup {[Ingress(name, <<>>) EXCEPT !.ann = (s :> v)] : v \in Vals[s]}
    \cup (IF s \in ClassSettings THEN {[Ingress(name, <<>>) EXCEPT !.params = (s :> v)] : v \in IF s = "sslRedirect" THEN {443, Malformed} ELSE Vals[s]} ELSE {})
\* What makes the setting matter: listeners for HTTPS, or the NLB in front.
Context(s) ==
    CASE s \in {"nlbScheme", "nlbTags", "nlbSecurityGroups", "nlbSubnets", "nlbPorts", "Path", "Matcher", "nlbAttributes"} -> ("nlbEnabled" :> TRUE)
      [] s = "nlbEips" -> ("nlbEnabled" :> TRUE) @@ ("nlbScheme" :> "internet-facing")
      [] s \in {"sslPolicy", "mtls"} -> ("certs" :> <<<<"arn", "c1">>>>)
      [] s = "sslRedirect" -> ("certs" :> <<<<"arn", "c1">>>>) @@ ("listenPorts" :> <<<<"HTTP", 80>>, <<"HTTPS", 443>>>>)
      [] s = "manageRules" -> ("securityGroups" :> <<"sg1">>)
      [] OTHER -> None
\* Not a disagreement on one setting: class and annotation may not mix subnets.
Mixed(s, g) == s = "subnets" /\ \E m, n \in Members(g) : "subnets" \in DOMAIN m.params /\ "subnets" \in DOMAIN n.ann
SettingsWorlds ==
    UNION {{[World(<<[m EXCEPT !.ann = @ @@ Context(s)], [n EXCEPT !.ann = @ @@ Context(s)]>>) EXCEPT !.settings = IF Mixed(s, <<m, n>>) THEN {} ELSE {s}] :
              m \in Made(s, <<"a">>), n \in Made(s, <<"b">>)} : s \in DOMAIN Vals}

-------------------------------------------------------------------------------
\* Paths, conditions and annotated actions on two members.
ToRedirect(host, path) == Redirect(host, path, {}, {}, {})
P1 == {Item("Exact", Path(<<"p">>, FALSE), Backend("s")), Item("Prefix", Path(<<"p">>, TRUE), Backend("t")),
       Item("Prefix", Path(<<"p", "q">>, FALSE), Backend("s")), Item("Prefix", Path(<<>>, TRUE), ByAnnotation("r")),
       Item("ImplementationSpecific", [segs |-> <<"p">>, slash |-> TRUE, glob |-> TRUE], Backend("t")),
       Item("ImplementationSpecific", Path(<<"q">>, FALSE), ByAnnotation("r")), Item("Prefix", Path(<<"q">>, FALSE), Backend("u"))}
P3 == {Item("Prefix", Path(<<"p">>, FALSE), Backend("s")), Item("Exact", Path(<<"q">>, TRUE), Backend("u"))}
Acts == {Redirect({}, {}, {443}, {"HTTPS"}, {}), ToRedirect({}, {Path(<<"q">>, FALSE)}), ToRedirect({"a.com"}, {}),
         [type |-> "forward", targets |-> <<[kind |-> "service", name |-> <<"s">>, port |-> <<"name", "http">>, weight |-> 0],
                                            [kind |-> "arn", name |-> "tg-arn", port |-> <<"none", 0>>, weight |-> 2]>>]}
Conds == {<<>>, <<[field |-> "http-request-method", values |-> {"GET"}, regexValues |-> {}]>>,
          <<[field |-> "host-header", values |-> {"x.com"}, regexValues |-> {}]>>}
RoutingWorlds ==
    {[World(<<[Ingress(<<"a">>, <<Rule(h, <<x, y>>)>>) EXCEPT !.actions = (<<"r">> :> a), !.conditions = (<<"r">> :> c)],
              [Ingress(<<"b">>, <<Rule("a.com", <<z>>)>>) EXCEPT !.ann = ("auth-type" :> "cognito") @@ ("auth-idp-cognito" :> "pool")
                                                                   @@ ("certs" :> <<<<"arn", "c1">>>>) @@ ("listenPorts" :> <<<<"HTTPS", 443>>, <<"HTTP", 80>>>>)]>>)
        EXCEPT !.requests = MCRequests] : h \in {"", "a.com", "*.com"}, x \in P1, y \in P1, z \in P3, a \in Acts, c \in Conds}


-------------------------------------------------------------------------------
\* Services that come, change and go while two listeners are built.
Both == ("certs" :> <<<<"arn", "c1">>>>) @@ ("listenPorts" :> <<<<"HTTPS", 443>>, <<"HTTP", 80>>>>)
Edit(name, to) == [name |-> <<name>>, to |-> to]
EditWorlds ==
    {[World(<<[Ingress(<<"a">>, <<Rule("", <<x, y>>)>>) EXCEPT !.ann = Both]>>) EXCEPT !.edits = e, !.requests = MCRequests] :
        x \in {Item("Prefix", Path(<<"p">>, FALSE), Backend("s")), Item("Exact", Path(<<"q">>, FALSE), Backend("u"))},
        y \in {Item("Prefix", Path(<<"p", "q">>, FALSE), Backend("s")), Item("Prefix", Path(<<>>, TRUE), Backend("u"))},
        e \in {<<Edit("s", {Svc(2)}), Edit("u", {Svc(1)})>>, <<Edit("u", {Svc(2)}), Edit("s", {})>>}}

\* Kinds of targets, health checks and control ports.
Annotations(s, V) == {None} \cup {(s :> v) : v \in V}
TargetWorlds ==
    {[World(<<[Ingress(<<"a">>, <<Rule("", <<Item("Prefix", Path(<<"p">>, FALSE), [service |-> <<"s">>, port |-> ref])>>)>>)
                 EXCEPT !.ann = t @@ h @@ c @@ g, !.dflt = d]>>)
        EXCEPT !.services = (<<"s">> :> [Svc(v) EXCEPT !.ports = @ \cup {[name |-> "hc", port |-> 81, targetPort |-> <<"int", 9090>>, nodePort |-> n]},
                                                       !.ipv6 = i]),
               !.requests = MCRequests] :
        t \in Annotations("target-type", {"ip", "lambda"}), h \in Annotations("healthcheck-port", {<<"int", 7000>>, <<"name", "hc">>, <<"name", "http">>}),
        c \in Annotations("target-control-port", {<<<<"s">>, <<"int", 80>>>> :> 3000}), g \in Annotations("securityGroups", {<<"sg1">>}),
        ref \in {<<"int", 80>>, <<"name", "hc">>, <<"int", 99>>}, v \in 1..2, n \in {0, 31000}, i \in BOOLEAN,
        d \in {<<>>, <<Backend("t")>>}}

\* Redirections to HTTPS, default backends, members on their way out.
OtherWorlds ==
    {[World(<<[Ingress(<<"a">>, <<Rule("", <<Item("Prefix", Path(<<>>, TRUE), Backend("s"))>>)>>) EXCEPT !.ann = Both @@ ("sslRedirect" :> 443)],
              [Ingress(<<"b">>, <<>>) EXCEPT !.dflt = d]>>) EXCEPT !.requests = MCRequests] : d \in {<<>>, <<Backend("t")>>}}
    \cup {[World(<<[Ingress(<<"a">>, <<>>) EXCEPT !.dflt = <<Backend("s")>>], [Ingress(<<"b">>, <<>>) EXCEPT !.dflt = d]>>)
             EXCEPT !.requests = MCRequests] : d \in {<<>>, <<Backend("t")>>, <<Backend("u")>>}}
    \cup {[World(<<>>) EXCEPT !.inactive = {[deleting |-> TRUE, protected |-> b]}] : b \in BOOLEAN}

\* A redirection for the hosts of an expression, before a rule for another host.
RegexWorlds ==
    {[World(<<[Ingress(<<"a">>, <<Rule("", <<Item("Prefix", Path(<<>>, TRUE), ByAnnotation("r"))>>), Rule("a.com", <<x>>)>>)
                 EXCEPT !.actions = (<<"r">> :> Redirect({}, {}, {443}, {"HTTPS"}, {})),
                        !.conditions = (<<"r">> :> <<[field |-> "host-header", values |-> {}, regexValues |-> {"~re"}]>>)]>>)
        EXCEPT !.requests = MCRequests] : x \in P1}

MCWorlds == SettingsWorlds \cup RoutingWorlds \cup EditWorlds \cup TargetWorlds \cup OtherWorlds
==============================================================================
