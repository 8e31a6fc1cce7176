# AWS Load Balancer Controller: TLA+ specifications

These modules specify the parts of the controller whose correctness depends on
order (reconcile loops that run concurrently, share state in memory and in AWS,
fail between two calls, and start again with an empty memory) and the builders
that turn Kubernetes objects into load balancers, whose correctness depends on how
many settings meet. TLC checks them on small instances; for the controllers that
share state (backend security group, Gateways, Ingress groups, TargetGroupBindings,
networking), for the rules of a listener and for the creation of accelerators TLAPS
proves safety properties for instances of every size.

Paths are relative to the root of the repository (`src/` in `PROJECT.json`).
`PROJECT.json` maps definitions to the lines they model; a helper whose lines lie
within those of the function it helps to model is covered by that function's entry.

## 1. The system

Kubernetes objects (Ingress, Service, Gateway, TargetGroupBinding,
GlobalAccelerator) go through work queues to controllers. A controller builds a
*stack*, a list of desired AWS resources, and deploys it with *synthesizers* that
list what exists, match it with what is wanted, and issue the calls that make up
the difference. At most one worker reconciles an object; different objects are
reconciled concurrently. A failed run is put back in the queue. Nothing in memory
survives a restart: what has to survive is kept in finalizers, annotations, config
maps and AWS tags.

| Component | State | What makes it hard | Module |
|---|---|---|---|
| Backend security group provider (`pkg/networking/backend_sg_provider.go`) | `objectsMap`, `autoGeneratedSG`, a mutex; one SG for the cluster in EC2 | one reconcile releases while another allocates; the map is empty after a restart | BackendSG |
| TargetGroupBinding manager (`pkg/targetgroupbinding`, `controllers/elbv2`) | checkpoint annotation, targets cache, config map of owned targets, deferred queue | runs that are skipped, chunks that fail half way, lost responses, shared target groups | TargetGroupBinding |
| Gateway controllers (`controllers/gateway`, `pkg/gateway/referencecounter`) | finalizer, add-on annotations, reference counter, LBC and TGC finalizers | three controllers decide over each other's objects; the counter is lost on restart | Gateway |
| Gateway events and statuses (`controllers/gateway/eventhandlers`, `route_reconciler.go`, `listenerset_status_reconciler.go`) | informer caches, queues of verdicts, secret reflectors | a handler sees one version of an object; verdicts overtake each other; patches from stale reads | GatewayEvents |
| Gateway routes (`pkg/gateway/routeutils`) | none; listeners, routes, statuses of one reconcile | conflicts of listeners, hostnames and matches; partial failures that must be reported | GatewayRoutes |
| Gateway model builder (`pkg/gateway/model`, `pkg/gateway`) | the stack being built | configurations of class, Gateway, Service and Route in one another's way | GatewayBuild, Reachability, SubnetResolver |
| Ingress groups (`controllers/ingress`, `pkg/ingress/group_loader.go`, `finalizer.go`, class loading) | group finalizers, status, informer cache | an Ingress moves between groups that are reconciled side by side | IngressGroups, IngressServing |
| Ingress model builder (`pkg/ingress/model_build_*`, rule optimizer, backend builder) | the stack being built, Services read so far | settings of several Ingresses in one load balancer; Services that change meanwhile | IngressBuild, IngressSettings |
| Service model builder (`pkg/service`) | the same | what AWS cannot change on an existing load balancer; health-check and traffic rules | ServiceBuild, Reachability, SubnetResolver |
| Stack deployment (`pkg/deploy`) | SGs, LBs, listeners, target groups, TGBs | references restrict the order; retries find half of the work done | StackDeploy |
| Listener rules (`pkg/deploy/elbv2/listener_rule_*`) | rules of a listener with unique priorities and a limit | the listener serves traffic; every call may be the last of the run | ListenerRules |
| ACM certificates (`pkg/deploy/acm`) | certificates, validation records | asynchronous issue, records shared between certificates, deletion refused while in use | Certificates |
| Networking manager (`pkg/networking/networking_manager.go`, `security_group_*`) | permissions of each TGB, tracked SGs, SG cache, a mutex | all TGBs share the rules of an SG; a cache stands in front of EC2 | Networking |
| Global Accelerator (`controllers/aga`, `pkg/deploy/aga`, `pkg/aga`) | ARN in the status, accelerator, listeners, endpoint groups | port ranges that conflict, an ARN stored late | GlobalAccelerator |
| QUIC server ids, webhooks, injectors, association caches, throttle, tools | little or none | see section 7 and `components` in `PROJECT.json` | none |

What each should guarantee, in the order of what a failure would cost: no traffic
is cut (SG, rules and targets in use stay); nothing of others is touched; nothing
is left behind when an object is gone; what the user asked for is eventually so.
`PROJECT.json` lists the places where the code is exposed (`hazards`), with the
property that would notice.

## 2. Modules

Each `MC` module gives the constants of one or several modules; a `.cfg` file names
the constants, the properties and the bounds of one run. Several modules take a set
`Settings` or `Worlds` of environments (which features are on, which objects exist,
how many failures): `Init` picks one, so that one run covers many. `MCDeploy` and
`MCBuilds` put several components into one state space: `which` says whose
behaviour it is, and the properties that the components have in common are stated
once.

### BackendSG (`MCBackendSG`, `BackendSGProofs`, `BackendSGUseProofs`)

`pkg/networking/backend_sg_provider.go` with the loops that call it. A *group* is
a reconcile key (an Ingress group, a Service or a Gateway), an *object* an entry
of `objectsMap`. `Load`, `AddFinalizers`, `allocateBackendSG`/`adoptSG`/`createSG`,
`readSG`, `Deploy`, `releaseMark`, `releaseCheck`, `releaseLock`, `deleteSG` and
`releaseUntrack` are the steps between which another worker may run. Groups in
`FinalizerFirst` add the finalizer before they build (Ingress), the others after
(Service, Gateway).

* `HeldSGExists`: the id `Get` returned is not deleted before it is deployed. The one
  exception is a group EC2 had deleted before without the response getting through
  (`lost`): the provider hands its id out until a later `Release` clears it.
* `DeleteOnlyUnused`: a delete is only issued when no load balancer uses the group.
* `AtMostOneSG`: retries after lost responses adopt the group and create no second.
* `EventuallyServed`: a load balancer that keeps asking gets the group.

### TargetGroupBinding (`MCTargetGroupBinding`, `TargetGroupBindingProofs`)

One binding: resource manager, targets cache, multi-cluster config map, readiness
gates, controller and deferred reconciler. Two pods may share a target (a reused
address), which the checkpoint tells apart and ELB does not. The target group may be
deleted under the binding (`tg`), and ELB may refuse the calls of a clean-up as
invalid, which `cleanupTargets` takes for success (`CleanNotFound`, `CleanRefused`;
`left` remembers what then stays).

* `CheckpointSound`: where the checkpoint would let a run be skipped, the target group
  is right. Stale reads, Services that vanish and calls that take effect and report an
  error are left out (section 3).
* `ForeignUntouched`: in a shared target group only our targets are deregistered.
* `CleanedUp`: nothing of ours is left once the finalizer is gone but what a refused
  clean-up left (`left`), and the config map of a shared target group names every target
  of ours in it. Calls that take effect and report an error are left out (section 3).
* `EventuallySettled`: endpoints end up registered, as many as the limit allows and
  never more, gates true, others deregistered, also in a target group that another
  cluster has filled beyond the limit; a binding in deletion goes, also without its
  target group.

### Gateway (`MCGateway`, `GatewayProofs`)

The Gateway loop with dry run and add-ons, the service reference counter, and the
TGC (TargetGroupConfiguration) and LBC (LoadBalancerConfiguration) controllers.
Services may be deleted (`DeleteService`): the TGC controller then lets their TGCs go
without asking the counter.

* `RefCountExact`: the counts are those of the relations, for any interleaving.
* `NoOrphanAddon`: what is attached in AWS is recorded in an annotation.
* `FinalizerProtects`: a load balancer never outlives its Gateway, nor the LBC without
  which the Gateway could not be deleted; a dry-run plan is only left where there is
  no load balancer.
* `TGCKept`: no TGC of an existing Service in use loses its finalizer.
* `EventuallyDeleted`: deletion of Gateways and TGCs comes to an end.

### GatewayEvents (`MCGatewayEvents`)

The event handlers of `controllers/gateway/eventhandlers`, the GatewayClass
annotation, the reflectors of referenced Secrets, and the two status queues. Every
object is a record of one shape; `cache` and `feed` are the informer and what it has
not delivered. A reconcile is abstracted to the objects it read, with their
generations: a load balancer is stale when it was built from others.

* `StaleOnlyIfUnannounced`: when nothing is under way, every load balancer is built
  from the current objects, except after the three changes nobody announces
  (section 3).
* `StatusCurrent`: when the queues are idle, Routes and ListenerSets show the verdicts
  of their current generation, whatever was lost, retried or overtaken.
* `EventuallyQuiet`: the circle of status patches, events and reconciles ends.

### IngressGroups and IngressServing (`MCIngressGroups`, `IngressGroupsProofs`)

The Ingress group controller with the informer that lags behind, the classes and
their parameters, the group loader, finalizers, the plan annotations and the status.
`IngressServing` is the abstract specification: load balancers are only given
Ingresses that exist, and an Ingress does not vanish while it is served.
IngressGroups implements it under the mapping `present <- {i : api[i].there}`,
`served <- Served(g)`, both built from the variables of the model.

* `ServesOnlyWhatExists`: that refinement, for users who do not bring an Ingress back to
  a group that is letting go of it (`returns = FALSE`): its reconcile found the Ingress
  inactive, or a version not yet worked through is not of the group, or the cache still
  shows a finalizer that was removed (`Returns`).
* `WithdrawnOnPurpose`: only an Ingress that a reconcile found inactive leaves its load
  balancer, and a class that became invalid makes none inactive. One exception: where the
  cache did not show the finalizer yet (`unseen`), an Ingress of an invalid class is
  forgotten, which run `ingress_class` shows.
* `EventuallySettled`: every Ingress ends up served by its own group alone, finalized
  by it, with its status and its plan.

### IngressBuild and IngressSettings (`MCIngressBuild`, `MCBuilds`)

The stack of one Ingress group: how settings of members and classes become one
setting (`IngressSettings`), then ports, certificates, actions, conditions, rules in
the order of path types, the rule optimizer, target groups, bindings, authentication,
add-ons, frontend NLB. One step builds one listener or one rule; between two steps a
Service may change. Requests are evaluated against the rules built, and against the
order the members declare.

### ServiceBuild, GatewayBuild, SubnetResolver, Reachability (`MCServiceBuild`, `MCGatewayBuild`, `MCNetwork`, `MCBuilds`)

The network load balancer of a Service, and the load balancer of a Gateway under the
configurations of class, Gateway, Service and Route. `SubnetResolver` finds subnets by
discovery, selector, name or id; `Reachability` says, independently of the builders,
what AWS will send to targets (traffic, health checks, with or without the client's
address) and what the rules of a binding let through.

### GatewayRoutes (`MCGatewayRoutes`, `MCBuilds`)

One reconcile of a Gateway from its listeners and routes to rules and statuses:
acceptance of ListenerSets and listeners, attachment and hostnames, loading of
backends with their errors, precedence of rules, filters and rewrites.

Properties of the builders, stated once in `MCBuilds`:

* `TargetsReachable`: nodes and pods admit exactly what the load balancer sends them.
* `ServedAsDeclared`: each declared port has a listener of its protocols, encrypted when
  asked for, open to exactly the declared sources.
* `Placed`: the subnets are ones AWS accepts for this load balancer, and each address
  asked for is in its subnet.
* `OneServiceVersion`: one build works with one version of each Service.
* `SettingsRespected`: a setting comes from the one who may decide it; no member of a
  group loses one to another, and members that agree are accepted. Left out: what
  section 3 lists.
* `RoutedAsDeclared`: the first rule that takes a request is the one that is to have it.
* `KeepsWhatAWSFixes`: an existing load balancer keeps what cannot be changed in place.
* `ListenerPrecedence`, `HostsServed`, `StatusTellsTruth`: conflicts are decided for the
  older claimant; a request reaches a route exactly if a listener and the route agree
  on its host; the statuses agree with the rules that are built.

### StackDeploy, ListenerRules, Certificates, Networking (`MCDeploy`, `ListenerRulesProofs`, `NetworkingProofs`)

*StackDeploy*: each synthesizer plans the calls it will issue; `calls` holds what is
left, and between two calls the user edits the object. PostSynthesize runs in the
reverse order. *ListenerRules*: one listener; a rule is its settings at a priority.
*Certificates*: requests, validation records, waiting, replacement, deletion after the
listener was deployed; ACM issues a certificate once its records are there. *Networking*:
TGBs and their endpoint SGs; the critical section is stepwise, because descriptions of
SGs are fetched and cached outside the mutex. Every call may fail, or take effect and
lose its response.

* `RulesAccepted`: no call asks for a priority that is taken, and a run gives up only if
  more rules are wanted than there is room for.
* `Converged`: what ends without an error is done, and nothing else is left: the stack,
  the rules, the certificates of the listener, the rules of the SGs (those of the user
  are kept).
* `NoDanglingReference`: nothing refers to what is gone or is another's: no target group
  on two load balancers; no target group, SG or certificate deleted that is in use.
* `WantedStays`: a listener, a target group, a binding or a rule that stays wanted is not
  taken away.
* `CoverageKept`: a port granted and still needed stays granted, except in the retry at
  the rule limit.
* `EventuallyDeployed`: the last edit is deployed, and the create and delete cycle of
  the rules ends.

### GlobalAccelerator (`MCGlobalAccelerator`, `GlobalAcceleratorProofs`)

One GlobalAccelerator object, the informer's copy of it, the controller, and the
accelerator with its listeners, endpoint groups and endpoints in AWS. `Start` to
`UpdateStatusSuccess` are the stages of a run (finalizer, load and build,
accelerator, listeners, conflicting overrides, endpoint groups, status), `Disable`
to `RemoveFinalizers` the clean-up. A stage lists what exists and plans its calls;
`Issue` sends one at a time, and AWS (`Accepts`) refuses overlapping ports, port
overrides in use, and endpoints over the limit. Port ranges are sets of ports. Pairs
of equal similarity are matched in any order, as the code's sort is not stable.

* `OneAccelerator`: lost answers, crashes and stale copies never lead to a second one.
* `OrderedCalls`: the order of deletions, override changes, updates and creations keeps
  AWS from refusing any of them, except matched listeners that trade ports.
* `DoneExactly`: a run without an error leaves exactly what was wanted, and a clean-up
  that reaches the finalizer has removed the accelerator it knew of with all its parts.
* `WantedListenersStay`: a listener wanted as it is stays during a deployment.
* `EventuallySettled`: the object is finally gone, or deployed and shown ready, or its
  spec cannot be built (or its listeners trade ports).

### Composition

`MCBuilds` and `MCDeploy` share variables but do not run two components in one
behaviour. Otherwise the modules meet at states that one leaves and another takes as
given: BackendSG deploys in one step what StackDeploy does in many; StackDeploy creates
and deletes TGBs and waits for their finalizer (`TGBGone`), which TargetGroupBinding's
`CleanedUp` and `EventuallySettled` justify; TargetGroupBinding calls Networking before
it changes targets; Gateway, GatewayEvents and IngressGroups deploy in one step or half
of one; what they deploy is what the builders build. Within a module controllers that
share state do interleave: the loops of the backend SG, the three Gateway controllers,
the groups an Ingress moves between, the status queues and the Gateways they report on,
the TGBs of one SG.

## 3. Runs

| Run | Instance and bounds | Result |
|---|---|---|
| `backendsg` | 2 groups (an Ingress group and a Service), 1 object each, 5 user changes, 2 faults, 5 SGs | holds |
| `tgb` | up to 3 pods on 2 addresses, 2 changes, 1 or 2 faults; 6 settings: IP targets; a target group shared with another cluster, with a Service that vanishes and refused clean-ups; instances with room for one new target; a shared target group already over its limit; a target group that is deleted first; lost responses with stale reads and a Service that vanishes | holds |
| `gateway_safety` | 2 Gateways, 1 service, 1 LBC, 2 add-ons; 5 settings; 3 changes | holds |
| `gateway_live` | 1 Gateway, 1 service, 1 add-on, 3 changes | holds |
| `events` | 8 worlds of Gateways, routes, ListenerSets, configurations, Services and Secrets; 1 retry, informers 2 versions behind, 3 route verdicts queued | holds |
| `ingress` | 2 Ingresses, 1 explicit group and their own; 5 settings: membership (two), classes, plans, plans that fail; 2 edits, at most 1 fault, at most 1 deployment that is done before the informer has caught up (`lags`) | holds |
| `ingress_return` | the same with users that come back to a group | `ServedIsFinalized` violated |
| `ingress_class` | the same with a class that becomes invalid | `NeverByAccident` violated |
| `builds` | worlds of Ingress groups, Services, Gateways and routes over 4 subnets in 3 zones and 4 VPCs; 578,000 states | holds |
| `deploy` | stacks of 4 shapes and the deleted one, 2 LBs, 4 target groups, 2 ports, 2 edits, 2 faults; 8 configurations of up to 4 rules with room for 3, 3 runs, 2 faults; 2 TGBs, 2 SGs, 3 ports, 4 settings, 2 changes; 5 stacks with certificates, 2 edits, 1 fault | holds |
| `networking_race` | the networking part with lookups outside the mutex | `DesiredGranted` violated |
| `aga` | 2 endpoints, 2 regions, 2 listeners, 4 ports; 3 settings with one edit each; 1 fault | holds |

Why the bounds suffice for the cases in question: every race in this code is
between two holders of a shared thing (two groups, two Gateways of a service, two
TGBs of an SG, two groups of an Ingress) or between a run and what an aborted run
left, so two actors and one or two faults reach it. Two or three changes allow "set,
unset, set again" or "leave and come back". The limits that the code counts against
(rules of a listener, targets of a group, rules of an SG, retries) are set small
enough to be reached. The builders are functions of their inputs: their worlds are
chosen so that each branch, and each pair of settings that the code relates, occurs;
the requests are all combinations of hosts, paths, methods and headers that the rules
of the worlds tell apart. Every bound is a constant named `Max...` or a field of a setting.
Runs whose systems come to rest when edits are used up do not check deadlock.

### What the properties except

* `StaleOnlyIfUnannounced` excepts a route whose `parentRef` is removed before its
  status entry was written, a `targetReference` that moves away (only the new target is
  announced), and a Secret that changes before its reflector has listed it.
* `StatusCurrent` excepts ListenerSets whose last update was given up after `maxRetries`.
* `EventuallySettled` of IngressGroups excepts Ingresses that came back to a group that
  was letting go of them, or changed in the middle of a reconcile that worked with them
  (`missed`), and is about valid classes.
* `SettingsRespected` excepts, for Ingresses, attributes, capacity and address pool, which
  the class of the first member decides, and two settings of a frontend NLB for which
  members that agree are refused (`RefusedAnyway`): success codes that two members give for
  one port, and attributes that a later member leaves open; for Gateways the settings the
  builder does not apply (below).
* `TargetsReachable` and `ServedAsDeclared` leave out the worlds `UncheckedWorlds`,
  `UnopenedWorlds` and `Dropped` of the MC modules, where the rules or a listener are
  missing (below).
* `HostsServed` excepts routes attached on one port to a listener with and to one without a
  hostname, or to a refused listener (`Blurred`): `compatibleHostnames` adds up what the
  listeners say, and such a route may get the wrong hostnames.
* `CleanedUp` excepts the targets ELB refused to deregister as invalid. `CleanedUp` and
  `CheckpointSound` are checked where a call that reports an error had no
  effect. With a registration that takes effect and reports an error, a target of ours
  can stay: the cached listing does not show it, and once its pod is gone the next run
  saves a checkpoint that matches. `CheckpointSound` also leaves out informers that lag
  (`updateTGBCheckPoint` trusts the copy it read) and the clean-up for a missing Service.
* `EventuallyDeleted` excepts a Gateway gone with its services still counted (below).

### What the violations show

* `ingress_return`: `ingress_events.go:61` ignores Delete events because a finalizer is
  always attached first. `AddFinalizers` decides from the cache; an Ingress that returns
  while its old reconcile removes the finalizer is served without one, and its
  deletion goes unnoticed.
* `networking_race`: a description of an SG taken before a revocation and cached
  after it makes the next reconcile believe that a revoked rule is there.
* `ingress_class`: the comment at `group_loader.go:147` says an Ingress of the group is not
  removed because its class "might be accidentally modified". Whether it belonged to the
  group is read off the finalizers in the cache; when the class becomes invalid before
  the cache shows the finalizer, the next reconcile withdraws the Ingress.

### Disagreements that have no run of their own

Met while modelling. Where a definition is named, it is not in a run because it fails.

Controllers:

* The docs say deletion protection blocks replacement of a load balancer, but the
  deployer removes the protection when scheme or type change
  (`load_balancer_synthesizer.go:73`).
* The reference counter is updated before the Gateway's finalizer is added
  (`gateway_controller.go:335`). A Gateway deleted in between is never taken out, and
  the TGCs of its services cannot be deleted until the process restarts.
* `Release` drops its own `false` entries; the next `Release` of another group finds
  those resources with a finalizer but without an entry and keeps the SG, which the
  comment at `backend_sg_provider.go:121` says is deleted (`BackendSG!ReleasedWhenUnused`).
* Matched listeners of an accelerator are called conflict-free
  (`listener_synthesizer.go:137`), but two that trade ports ({1} and {2,3} to {1,2} and
  {3}) are updated in a fixed order: the first update is refused, and so is every
  retry (`OverlapsMatched`).
* The clean-up of a GlobalAccelerator takes the ARN from the informer's copy, where it
  arrives at the end of the first complete deployment; an object deleted before that
  loses its finalizer, and the accelerator stays (`globalaccelerator_controller.go:392`;
  `NoOrphans`).
* A certificate requested twice is never reduced to one (`certificate_synthesizer.go:204`;
  `OneCertificate`), and deleting a replaced certificate removes the validation record
  that the replacing one shares, so that it cannot be renewed (`RecordsKept`).
* A route that leaves a Gateway before its status entry was written is not noticed,
  against the comment at `gateway_utils.go:65` (`NoStaleLoadBalancer`). Labels of
  namespaces are not watched; a Gateway that moves to another controller's class, and
  a GatewayClass that is deleted, raise no reconcile.
* An Ingress with an invalid class that still has its finalizer blocks its group; one
  that leaves management keeps its old status; deletion protection on one deleted
  member blocks the group. Failures to patch a plan annotation are dropped.

Builders:

* Settings of Gateway configurations without effect: `targetControlPort` of a TGC
  (in the name of the target group, but not in the spec that `model_build_target_group.go:299`
  returns; `docs/guide/gateway/targetgroupconfig.md:407`)
  and its `ipAddressType` (`targetgroupconfig.md:292`). `minimumLoadBalancerCapacity`
  (`docs/guide/gateway/loadbalancerconfig.md:368`) is lost when the configurations of class
  and Gateway are merged (`lb_config_merger.go`).
* A port of a Gateway whose listeners have no routes gets no listener
  (`model_build_listener.go:59`), although the comment at `route_listener_mapper.go:131`
  says listeners without routes are materialized.
* An endpoint that several listeners of a GlobalAccelerator name with different weights
  gets the weight of the last one everywhere.
* A prefix rewrite glues what follows to the replacement (`route_rule_transform.go:93`
  against `docs/guide/gateway/l7gateway.md:223`; `PrefixReplaced` over `RewriteWorlds`).
* One unsupported filter, one TLS listener next to a passthrough listener on the same
  port, or one listener hostname that is an address fails the whole Gateway. A route
  whose only matching listener is invalid gets no status.
* The last tie-break between rules "never fires for distinct routes"
  (`route_rule_precedence.go:303`), but it does for an HTTPRoute and a GRPCRoute of one
  name and creation time.
* The rule optimizer does not look at regular expressions of hosts
  (`rule_optimizer.go:40`; `RegexWorlds`), and two paths can get target groups of one
  resource id.
* Attributes, capacity and address pool of an IngressClass are taken from the first
  member only, against `docs/guide/ingress/ingress_class.md:354`.
* An `actions.*` annotation of type forward without `forwardConfig` is dereferenced.
* The rules for the health checks of a Service are left out for TCP_UDP and QUIC target
  groups as if the traffic's rules covered them, although client addresses are preserved
  for these protocols whatever the attribute says (`model_build_target_group.go:861` against
  the comment at `:726`; `UncheckedWorlds`). A Gateway's TCP_UDP or TCP_QUIC target group
  whose health checks have a port of their own has its traffic port open for UDP only
  (`docs/guide/gateway/l4gateway.md:96`; `UnopenedWorlds`). Two ports of a Service with one
  number that are not joined get one listener (`Dropped`).
* Backend Services with local traffic policy are health-checked on the node port of the
  base Service (`pkg/service/model_builder.go:158`).
* Target groups of weighted backends are cached without their protocol; an NLB listener
  skipped because all weights are zero leaves its target groups in the stack.
* A Gateway with prefix lists but no source ranges is still open to everybody, a Service
  is not. A listener configuration for "UDP:80" is ignored when the listener is merged to
  TCP_UDP. The target group of a TLS route on a passthrough listener is TLS, the
  listener TCP. Only one of several L4 routes of a port is attached.

## 4. Fairness

Liveness is checked under weak fairness of the workers (a work queue hands out what
is in it, a run that can go on does), of informers that deliver what they have (IngressGroups,
GatewayEvents, GlobalAccelerator), of what AWS does by itself (health checks,
draining, provisioning, issue of a certificate whose records are there), and of timers (cache
expiry, delayed queues, resync, the age of a certificate). Edits, faults, stale
deliveries and restarts are bounded and never fair: a call fails a finite number of times. The
Gateway model takes strong fairness for three steps (status update of a
provisioned load balancer, removal of add-ons, hand-over of a TGC) that are retried for
ever but whose enabling comes and goes with the retries; the code's unbounded retries with
backoff justify that a call that is tried again and again succeeds at last.
GatewayEvents takes weak fairness of one action, `Progress`: something that can be
delivered, reconciled or patched is, without saying what.

## 5. Proofs

The proof modules extend the component they are about. They hold for every value of
the constants that the named assumptions allow, so for any number of objects, changes,
failures and restarts; TLC evaluates the assumptions on the instances of the runs. In
each the property is not inductive as it stands; the invariant that is was checked
with TLC first, and is kept action by action.

### BackendSGProofs, BackendSGUseProofs

From `GroupsAssumption`; all but the last if no object changes its group (`OneHomeEach`):

* `TypeCorrect`: `Spec => []TypeOK` (not repeated by a run);
* `HeldSGNeverDeleted`: `Spec => []HeldSGExists`;
* `DeletesOnlyUnused`: `Spec => []DeleteOnlyUnused`;
* `OneSG`: `Spec => []AtMostOneSG`, with objects that move too. A group is only created
  by who found none.

`HeldSGExists` says nothing of why a delete cannot be on its way. The invariant `Inv`
adds `Ownership` (a run only works on objects of its group), `Tracked` (between `Get` and
the end of the deployment the members' entries are true), `Locked` (who allocates or
deletes holds the mutex, and a deleter has seen no true entry since it took it) and
`Cached` (`autoGeneratedSG` exists, or was lost to a delete whose response did not come,
and is the id handed out). `DeletesOnlyUnused` adds `Use`: every member has its finalizer
before its load balancer is deployed (`Finalized`), an id is only held by who asked for
it (`Asked`), a load balancer with the SG is vouched for by an object with a finalizer
whose entry is not false (`Vouched`), and what a run that goes on to `Release` has
deployed (`Deployed`). `Vouched` is what makes the empty map of a restarted process safe:
without an entry for that object `isBackendSGRequired` answers yes.

The assumption that an object has one home is needed: `objectsMap` is keyed by
Ingress and not by group, so a group that lets go of an Ingress overwrites the
entry of the group it moved to.

### GatewayProofs

From `GatewayAssumption`: `CounterExact` (`RefCountExact`), `AddonsRecorded`
(`NoOrphanAddon`), `FinalizersProtect` (`FinalizerProtects`) and `TGCsKept` (`TGCKept`).
`Inv` says at which step of a run the annotations hold which add-ons (`Recorded`), from
where on the finalizer is there and the plan gone (`Finalized`), that an LBC a Gateway has
resolved cannot go while its controller sees a user (`ConfigKept`), and that whoever is
about to deploy is known to the counter (`Known`) or, where a restart emptied it, expected
by the TGC controller that is asking (`Expected`). That the count is the number of
relations rests on the cardinality of a set with one member more or less. `TGCsKept` is
about Services that exist: for one that was deleted the controller does not ask.

### IngressGroupsProofs

From `NamesAssumption` and `SettingsAssumption`, if no user brings an Ingress back to a
group that is letting go of it (`NoReturns`):

* `ImplementsServing`: IngressGroups implements IngressServing, the initial states by the
  initial states and every step by a step or a stutter of the abstract specification;
* `ServedFinalized`: `Spec => []ServedIsFinalized`, the property that `ingress_return`
  refutes without the assumption;
* `Withdrawals`: `Spec => WithdrawnOnPurpose`.

The refinement needs to know of the informer that the finalizers of undelivered
versions are never more than those at the API server (`Informed`), that a group that is
letting go does not get the Ingress back (`Gone`), what each stage of a reconcile works
through (`Staged`), that a member that shows the finalizer has it (`Held`), and that a
served Ingress has it in every version and is a member or an inactive Ingress of every
reconcile of its group (`Guarded`), so that nobody takes it for one to be forgotten.

### TargetGroupBindingProofs

From `BindingAssumption`:

* `OthersKept`: `Spec => ForeignUntouched`, if every target group with targets of others is
  declared as shared (`SharedOnly`); needs no more than that what is deregistered was
  filtered by the config map;
* `AllClean`: `Spec => []CleanedUp`, with refused clean-ups and a target group that is
  deleted first;
* `SkipsRight`: `Spec => []CheckpointSound`.

While the target group exists, and where a call that reports an error had no effect, `Inv`
says, of all targets but those a refused clean-up left, that only a binding with the
finalizer has targets (`Finalized`), that the cache leaves out no registered
target and calls healthy only what is registered (`CacheTrue`), what the run knows of
the target group at each step (`Worked`), that what is registered in a shared target
group was written to the config map before (`Owned`), and that a stored checkpoint tells
the truth also in the middle of a run (`Trusted`). Without the target group there is
nothing registered (`NoGroup`). The attempt to prove `CheckpointSound`
with lost responses failed, and TLC then showed why: it was false there, and now says so.

### NetworkingProofs

From `ConstantsAssumption` (of a security group no two rules with the same ports and
source, as in EC2):

* `UserRulesKept`: `Spec => []ForeignKept`, with outdated caches and lost responses too;
* `ServiceKept`: `Spec => [][KeepsCoverage]_vars`;
* `GroupsReconciled`: `Spec => []Reconciled`.

`ForeignKept` and `Reconciled` are part of `Converged` and `KeepsCoverage` is `CoverageKept`
of the `deploy` run. Rules are revoked by their ports, so the first theorem rests on
`Distinct`: no rule of ours with the ports of a user's rule, in EC2, in the cache, in a
description on its way or in the hands of the reconciler. The others rest on `Section` (the
critical section and the run that holds it), `InService` (what is remembered and computed
of a TGB in service is its need) and `Known` (where the cache is what EC2 has, the rules
in EC2 are those fetched with the grants and the revocations made since). `ServiceKept`
then follows: who revokes remembers every TGB, has granted all that is desired, and
revokes nothing that is; the ports a TGB needs are covered by the desired rules, the
least and the greatest port being in the set (`PortBounds`).

### ListenerRulesProofs

From `ConstantsAssumption` (the rules wanted and those a listener may have do not reach
the last priority, 50000), for any configurations and any number of failed runs:

* `PrioritiesNeverClash`: `Spec => []UniquePriorities`;
* `RefusedOnlyForWantOfRoom`: `Spec => []RefusedOnlyIfTooMany`; with the former this is
  `RulesAccepted` of the `deploy` run;
* `RunsConverge`: `Spec => []Converged`, the part of `Converged` about rules;
* `WantedRulesServe`: `Spec => []WantedRulesStay`, the part of `WantedStays` about rules.

`Inv` says that there is a matching `m` by settings (`Matched`: each rule once, as many as
possible) that the rest of the plan still fits: matched rules are there, and at their
place once they were moved (`Kept`); who is modified is at the priority it is modified
for (`ToModify`); a priority to be created at is free as soon as the matched rules have
moved (`ToCreate`); who is deleted is in nobody's way (`ToDelete`); and no rule and no
index is forgotten (`Covered`). The plan of a run that failed says nothing, so that the
next run starts from any listener with unique priorities. That the priorities of a
finite set of rules can be sorted at all (`Sortable`) is proved from the least
counterexample, and the counts of rules from injections between finite sets.

### GlobalAcceleratorProofs

* `OneForGood`: `Spec => []OneAccelerator`.

Creating an accelerator is guarded by the ARN in a copy of the object that may lack it,
so the guard alone does not keep a second one away. The invariant `Tokens` says that
every copy of the object has its UID (a patch carries only what differs from the copy it
starts from), that no call is left over from an earlier run, and that every accelerator
has the UID as its token: so the call that finds no accelerator with its token finds none.

### What stays with TLC

Liveness under fairness, and what recursive definitions compute, are out of the prover's
reach; so are the properties of the builders (`builds`), which are functions evaluated over
given worlds. Not proved for want of an invariant: `StaleOnlyIfUnannounced` and
`StatusCurrent` (the invariant would have to say of every object which events,
queue entries and reads still account for each difference), the properties of StackDeploy
and Certificates, and `OrderedCalls`, `DoneExactly` and `WantedListenersStay` of
GlobalAccelerator (the invariant would have to say of every plan what each call still in
it will find).

## 6. Plan

1. Proofs: the references of StackDeploy; `WantedListenersStay` of GlobalAccelerator.
2. An abstract specification of the backend SG (a resource with users) and of the
   reference counter, with refinement.
3. Frontend NLB targets in StackDeploy (registered last, deregistered first), the
   association caches of WAF and Shield, the reference tracker of Global Accelerator.
4. Uniqueness of QUIC server ids: the id returns modulo the largest
   (`quic_worker_id_generator.go:95`), and the time is not compared again after the
   sequence wraps (`quic_server_id_generator.go:94`).

## 7. What is not modelled

* Frontend NLB targets, the association caches of WAF and Shield, the caches of network
  interfaces, the reference tracker and watches of Global Accelerator: state in front of
  AWS calls, left to the plan above.
* QUIC server ids: rest on the clock and a random start.
* Webhooks and injectors: functions of one admission request (the target control
  injector reads its configuration at the first use).
* AWS client wrappers, throttling, configuration and feature gates, API types,
  generated code, logging, metrics, events, the texts of statuses and of errors.
* The status of a Service, and the event handlers of Services and bindings: the models
  take it that a change queues the object.
* The migration tool, which translates manifests once.

Parsing of annotations is abstracted to the parsed value or an error; generated names
stand for the tuple they hash; addresses and hosts are members of small sets with their
containment given. Time is only "expired or not". AWS is modelled by how the code uses
it: calls are atomic, may fail, and may lose their response; changes made behind the
controller's back are not considered, except rules in shared SGs, targets of other
clusters and an accelerator deleted by other means.
