------------------------------- MODULE MCBuilds -------------------------------
(* The four builds of a reconcile in one state space: `which` says whether the  *)
(* controller builds the stack of an Ingress group, of a Service or of a        *)
(* Gateway, or works out the rules and the statuses of a Gateway's routes.      *)
(* They keep their state in the same variables, and a build uses only its own.  *)
EXTENDS MCNetwork

VARIABLES
    which,
    world, services, stage, task, stack, left, work, edits,         \* Ingress, Service
    config, routes,                                                 \* Gateway
    phase, sets, valid, mapped, loaded, statuses, built             \* routes

ingressVars == <<work>>
serviceVars == <<services, edits>>
stackVars == <<stage, task, stack, left>>
gatewayVars == <<config, routes>>
routesVars == <<phase, sets, valid, mapped, loaded, statuses, built>>

OfIngress ==
    INSTANCE MCIngressBuild WITH Defaults <- <<>>, Flags <- <<>>, HostLanguage <- <<>>, Worlds <- <<>>
OfService ==
    INSTANCE MCServiceBuild WITH Block <- MCBlock, V6 <- MCV6, Canonical <- MCCanonical, Worlds <- <<>>
OfGateway ==
    INSTANCE MCGatewayBuild WITH Block <- MCBlock, V6 <- MCV6, Canonical <- MCCanonical, Worlds <- <<>>
OfRoutes ==
    INSTANCE MCGatewayRoutes WITH Worlds <- <<>>, Requests <- <<>>, HostOrder <- <<>>, Length <- <<>>

IngressDefaults == OfIngress!MCDefaults
IngressFlags == OfIngress!MCFlags
IngressHosts == OfIngress!MCHostLanguage
RouteRequests == OfRoutes!MCRequests
RouteHostOrder == OfRoutes!MCHostOrder
RouteLength == OfRoutes!MCLength

Ing ==
    INSTANCE IngressBuild WITH Defaults <- IngressDefaults, Flags <- IngressFlags,
                               HostLanguage <- IngressHosts, Worlds <- OfIngress!MCWorlds
Svc ==
    INSTANCE ServiceBuild WITH Block <- MCBlock, V6 <- MCV6, Canonical <- MCCanonical, Worlds <- OfService!MCWorlds
Gw ==
    INSTANCE GatewayBuild WITH Block <- MCBlock, V6 <- MCV6, Canonical <- MCCanonical, Worlds <- OfGateway!MCWorlds
Rts ==
    INSTANCE GatewayRoutes WITH Worlds <- OfRoutes!MCWorlds, Requests <- RouteRequests,
                                HostOrder <- RouteHostOrder, Length <- RouteLength

NoStack == stage = <<>> /\ task = <<>> /\ stack = <<>> /\ left = <<>>
NoServices == services = <<>> /\ edits = <<>>
NoWork == work = <<>>
NoConfig == config = <<>> /\ routes = <<>>
NoRoutes == phase = <<>> /\ sets = <<>> /\ valid = <<>> /\ mapped = <<>> /\ loaded = <<>> /\ statuses = <<>> /\ built = <<>>

Init ==
    \/ which = "ingress" /\ Ing!Init /\ NoConfig /\ NoRoutes
    \/ which = "service" /\ Svc!Init /\ NoWork /\ NoConfig /\ NoRoutes
    \/ which = "gateway" /\ Gw!Init /\ NoWork /\ NoServices /\ NoRoutes
    \/ which = "routes" /\ Rts!Init /\ NoWork /\ NoServices /\ NoStack /\ NoConfig

BuildIngress == which = "ingress" /\ Ing!Next /\ UNCHANGED <<which, gatewayVars, routesVars>>
BuildService == which = "service" /\ Svc!Next /\ UNCHANGED <<which, ingressVars, gatewayVars, routesVars>>
BuildGateway == which = "gateway" /\ Gw!Next /\ UNCHANGED <<which, ingressVars, serviceVars, routesVars>>
MapRoutes == which = "routes" /\ Rts!Next /\ UNCHANGED <<which, ingressVars, serviceVars, stackVars, gatewayVars>>

Next == BuildIngress \/ BuildService \/ BuildGateway \/ MapRoutes

vars == <<which, world, ingressVars, serviceVars, stackVars, gatewayVars, routesVars>>
Spec == Init /\ [][Next]_vars

-------------------------------------------------------------------------------
(* Properties; the builders' own modules say what each means for its objects    *)

InIngress(P) == which = "ingress" => P
InService(P) == which = "service" => P
InGateway(P) == which = "gateway" => P
InRoutes(P) == which = "routes" => P

\* The nodes and pods admit exactly what the load balancer will send them: the
\* traffic, the health checks and the control traffic of every target group, from
\* wherever it will come (buildTargetGroupBindingNetworking of the three builders).
\* Left out: a Service's load balancer without security groups whose TCP_UDP or QUIC
\* target groups are checked from where the rules of the traffic do not reach
\* (UncheckedWorlds).
TargetsReachable == InIngress(Ing!TargetsReachable) /\ InService(Svc!TargetsReachable) /\ InGateway(Gw!TargetsReachable)

\* Every declared port is served, by a listener of its protocols that sends to
\* target groups of the same transport, encrypted exactly when that is asked for;
\* and the load balancer is open to exactly the declared sources (buildListeners,
\* buildManagedSecurityGroupIngressPermissions, mergeListenPortConfigs).
ServedAsDeclared == InIngress(Ing!ReachedAsAsked) /\ InService(Svc!ServedAsDeclared) /\ InGateway(Gw!ServedAsDeclared)

\* However the subnets were found, they are ones AWS accepts for this load
\* balancer, and every address that was asked for is in the subnet it belongs to.
Placed == InService(Svc!Placed) /\ InGateway(Gw!Placed)

\* One build works with one version of every Service, also when the Service is
\* changed or deleted between two of its listeners or rules (backendServices).
OneServiceVersion == InIngress(Ing!OneServiceVersion) /\ InService(Svc!OneServiceVersion)

\* Every setting comes from the one who may decide it: no member of an Ingress
\* group loses one to another member's, and members that agree are accepted, except
\* on success codes and attributes of the Network Load Balancer in front; for a
\* Gateway it is that of the strongest configuration that gives it.
SettingsRespected ==
    InIngress(Ing!SettingsRespected /\ Ing!AgreedIsAccepted) /\ InGateway(Gw!SettingsRespected)

\* The first rule of the load balancer that takes a request is the one that is to
\* have it: the first path of the Ingress group by members, rules and path types,
\* and the rule the Gateway API prefers among those of the attached routes.
RoutedAsDeclared == InIngress(Ing!RoutedAsDeclared) /\ InRoutes(Rts!RulesFollowPrecedence)

\* An existing load balancer of a Service keeps what AWS cannot change in place
\* and nobody asked to change: scheme, subnets, whether it has security groups.
KeepsWhatAWSFixes == InService(Svc!KeepsWhatAWSFixes)

\* Accepted listeners do not conflict, and one that is refused for a conflict had
\* an earlier claimant: the Gateway, an older ListenerSet, one above it
\* (validateListeners).
ListenerPrecedence == InRoutes(Rts!ListenerPrecedence)

\* A request reaches the rules of a route exactly if a listener of the port and
\* the route agree on its host (mapListenersAndRoutes), unless the route is on
\* listeners of one port with and without a hostname, or on a refused one (Blurred).
HostsServed == InRoutes(Rts!HostsServed)

\* The statuses that the loader queues agree with the rules that the builder
\* writes, in whatever order the routes are loaded (loadChildResources).
StatusTellsTruth == InRoutes(Rts!StatusTellsTruth)
=============================================================================
