---------------------------- MODULE GatewayEvents ----------------------------
(***************************************************************************)
(* How a change of a Kubernetes object reaches the Gateways it concerns,   *)
(* and how what a Gateway's reconcile found is reported on its Routes and  *)
(* ListenerSets: the event handlers of controllers/gateway/eventhandlers,  *)
(* the GatewayClass reconciler's annotation, the secret reflectors of      *)
(* pkg/k8s, the route status queue (route_reconciler.go) and the           *)
(* ListenerSet status queue (listenerset_status_reconciler.go).            *)
(*                                                                         *)
(* Every object is a record of one shape: live, ver (its generation),      *)
(* refs (what its spec names: parents, backends, parametersRef, ...), flag *)
(* (what the listeners of a Gateway or a ListenerSet allow) and st (what   *)
(* the controller writes back: route status, ListenerSet status, the       *)
(* GatewayClass annotation).  The informer's copy is cache[o]; feed[o] are *)
(* the versions the API server holds that the informer has not delivered.  *)
(* A reconcile is abstracted to what it deploys: the objects it read, each *)
(* with its generation.                                                    *)
(***************************************************************************)
EXTENDS Integers, FiniteSets, Sequences, SequencesExt

CONSTANTS Settings,    \* the worlds to explore: kinds, namespaces, first
                       \* versions, what users may write, budgets
          MaxRetries,  \* maxRetries of the ListenerSet status queue
          MaxLag,      \* bound: versions an informer may be behind
          MaxItems     \* bound: route status updates waiting

VARIABLES world,       \* the setting, constant in a behaviour
          cache, feed, \* the informers
          generic,     \* synthetic events in the handlers' channels
          watch,       \* secret |-> "off", "starting", "on": its reflector
          queue, busy, \* the Gateway workqueue; a running reconcile's result
          classQ,      \* the GatewayClass workqueue
          items, rworker,                  \* the route status queue
          lsq, lsLate, lworker, lsInfo,    \* the ListenerSet status queue
          deployed,    \* gateway |-> what its load balancer was built from
          silent,      \* history: <<o, g>>, a change of o was not announced to g
          dropped,     \* history: ListenerSets whose last update was given up
          budget       \* bounds: edits, faults and restarts left

vars == <<world, cache, feed, generic, watch, queue, busy, classQ, items,
          rworker, lsq, lsLate, lworker, lsInfo, deployed, silent, dropped,
          budget>>

None == [none |-> TRUE]

Obj == DOMAIN world.kind
K(o) == world.kind[o]
OfKind(k) == {o \in Obj : K(o) = k}
Gateways == OfKind("gw")
L7Routes == OfKind("http") \cup OfKind("grpc")
L4Routes == OfKind("tcp") \cup OfKind("udp") \cup OfKind("tls")
Routes == L7Routes \cup L4Routes

Api(o) == IF feed[o] = <<>> THEN cache[o] ELSE Last(feed[o])
ApiView == [o \in Obj |-> Api(o)]

-----------------------------------------------------------------------------
(* What a reconcile reads, from a view c of the objects.                   *)

Named(c, o, k) == {x \in c[o].refs \cap Obj : K(x) = k}
LiveNamed(c, o, k) == {x \in Named(c, o, k) : c[x].live}
Parents(rec) == {p \in rec.refs \cap Obj : K(p) \in {"gw", "ls"}}

IsGatewayManagedByLBController(c, g) ==
  c[g].live /\ LiveNamed(c, g, "class") # {}

ListenerSetsOf(c, g) ==
  {l \in OfKind("ls") : c[l].live /\ g \in c[l].refs}
AcceptedListenerSets(c, g) == {l \in ListenerSetsOf(c, g) : c[g].flag}

\* The parents of route r that belong to gateway g.
ParentsAt(c, r, g) ==
  Parents(c[r]) \cap ({g} \cup AcceptedListenerSets(c, g))

\* A backend in another namespace is read only under a ReferenceGrant there.
Granted(c, r, s) ==
  \/ world.ns[r] = world.ns[s]
  \/ \E n \in OfKind("grant") :
       c[n].live /\ world.ns[n] = world.ns[s] /\ world.ns[r] \in c[n].refs

Backends(c, r) == {s \in LiveNamed(c, r, "svc") : Granted(c, r, s)}

\* The conditions of route r for its parent p: Accepted and ResolvedRefs.
RouteInfo(c, r, p) ==
  [accepted |-> c[p].flag,
   resolved |-> c[p].flag => Backends(c, r) = Named(c, r, "svc")]

RoutesAt(c, g) ==
  {r \in Routes :
     c[r].live /\ \E p \in ParentsAt(c, r, g) : c[p].flag}

RouteReads(c, r) ==
  LET svcs == Backends(c, r)
      lrcs == LiveNamed(c, r, "lrc")
  IN  {r} \cup svcs \cup lrcs
        \cup {t \in OfKind("tgc") : c[t].live /\ c[t].refs \cap svcs # {}}
        \cup UNION {LiveNamed(c, l, "secret") : l \in lrcs}

ConfigReads(c, o) ==
  LET lbcs == LiveNamed(c, o, "lbc")
  IN  lbcs \cup UNION {LiveNamed(c, l, "tgc") : l \in lbcs}

\* LoadRoutesForGateway and the model built from it.
Reads(c, g) ==
  {g} \cup ConfigReads(c, g)
      \cup UNION {{k} \cup ConfigReads(c, k) : k \in LiveNamed(c, g, "class")}
      \cup AcceptedListenerSets(c, g)
      \cup UNION {RouteReads(c, r) : r \in RoutesAt(c, g)}

Built(c, g) ==
  IF IsGatewayManagedByLBController(c, g)
    THEN {<<o, c[o].ver>> : o \in Reads(c, g)} ELSE {}

-----------------------------------------------------------------------------
(* The event handlers: what an event about o enqueues, given the view c of *)
(* the informers once the event is in them.                                *)

NoEffect == [gws |-> {}, events |-> {}, classes |-> {}]

EventsFor(c, os) == {[obj |-> o, val |-> c[o]] : o \in os}

GatewayOf(c, p) ==
  IF K(p) = "gw" THEN {p}
                 ELSE IF c[p].live THEN Named(c, p, "gw") ELSE {}

GetImpactedGatewaysFromParentRefs(c, rec) ==
  {g \in UNION {GatewayOf(c, p) : p \in Parents(rec) \cup DOMAIN rec.st} :
     IsGatewayManagedByLBController(c, g)}

OnGateway(c, g) ==
  [NoEffect EXCEPT !.gws = {x \in {g} : IsGatewayManagedByLBController(c, x)}]

OnGatewayClass(c, k) ==
  [NoEffect EXCEPT
     !.gws = {g \in Gateways : k \in c[g].refs
                                 /\ IsGatewayManagedByLBController(c, g)},
     !.classes = {k}]

OnListenerSet_newOnly(c, old, new) ==
  [NoEffect EXCEPT
     !.gws = {g \in new.refs \cap Gateways : IsGatewayManagedByLBController(c, g)}]

OnListenerSet(c, old, new) ==
  [NoEffect EXCEPT
     !.gws = {g \in (old.refs \cup new.refs) \cap Gateways :
                IsGatewayManagedByLBController(c, g)}]

OnRoute(c, new) ==
  [NoEffect EXCEPT !.gws = GetImpactedGatewaysFromParentRefs(c, new)]

\* One handler for each kind of route, each with a channel of its own.
OnHTTPRoute(c, new) == OnRoute(c, new)
OnGRPCRoute(c, new) == OnRoute(c, new)
OnTCPRoute(c, new) == OnRoute(c, new)
OnUDPRoute(c, new) == OnRoute(c, new)
OnTLSRoute(c, new) == OnRoute(c, new)

\* FilterRoutesBySvc: the spec names the Service, granted or not.
FilterRoutesBySvc(c, rs, s) == {r \in rs : c[r].live /\ s \in c[r].refs}
L4RoutesOfService(c, s) == FilterRoutesBySvc(c, L4Routes, s)
L7RoutesOfService(c, s) == FilterRoutesBySvc(c, L7Routes, s)

OnService(c, s) ==
  [NoEffect EXCEPT
     !.events = EventsFor(c, L4RoutesOfService(c, s) \cup L7RoutesOfService(c, s))]

LBCsWithDefault(c, t) == {l \in OfKind("lbc") : c[l].live /\ t \in c[l].refs}

TargetReference(tgc) == {s \in tgc.refs \cap Obj : K(s) = "svc"}
OnTargetGroupConfiguration(c, t, new) ==
  LET targets == TargetReference(new)
  IN  [NoEffect EXCEPT
         !.events = IF targets = {} THEN EventsFor(c, LBCsWithDefault(c, t))
                    ELSE EventsFor(c, {s \in targets : c[s].live})]

\* The GatewayClass controller's handlers for the configurations.
ClassesOfLBC(c, l) == {k \in OfKind("class") : c[k].live /\ l \in c[k].refs}
ClassesOfTGC(c, t, new) ==
  IF TargetReference(new) # {} THEN {} ELSE UNION {ClassesOfLBC(c, l) : l \in LBCsWithDefault(c, t)}

GetImpactedGatewaysFromLbConfig(c, l) ==
  {g \in Gateways : l \in c[g].refs /\ IsGatewayManagedByLBController(c, g)}

OnLoadBalancerConfiguration(c, l) ==
  [NoEffect EXCEPT !.gws = GetImpactedGatewaysFromLbConfig(c, l),
                   !.classes = ClassesOfLBC(c, l)]

\* Only HTTP and gRPC routes refer to listener rule configurations.
OnListenerRuleConfiguration(c, l) ==
  [NoEffect EXCEPT
     !.events = EventsFor(c, {r \in L7Routes : c[r].live /\ l \in c[r].refs})]

OnSecret(c, s) ==
  [NoEffect EXCEPT
     !.events = EventsFor(c, {l \in OfKind("lrc") :
                                c[l].live /\ s \in c[l].refs})]

OnReferenceGrant(c, old, new) ==
  [NoEffect EXCEPT
     !.events = EventsFor(c, {r \in Routes :
                   c[r].live /\ world.ns[r] \in old.refs \cup new.refs})]

Effect(c, o, old, new) ==
  CASE K(o) = "gw"     -> OnGateway(c, o)
    [] K(o) = "class"  -> OnGatewayClass(c, o)
    [] K(o) = "ls"     -> OnListenerSet(c, old, new)
    [] K(o) = "http"   -> OnHTTPRoute(c, new)
    [] K(o) = "grpc"   -> OnGRPCRoute(c, new)
    [] K(o) = "tcp"    -> OnTCPRoute(c, new)
    [] K(o) = "udp"    -> OnUDPRoute(c, new)
    [] K(o) = "tls"    -> OnTLSRoute(c, new)
    [] K(o) = "svc"    -> OnService(c, o)
    [] K(o) = "tgc"    -> [OnTargetGroupConfiguration(c, o, new) EXCEPT
                             !.classes = ClassesOfTGC(c, o, new)]
    [] K(o) = "lbc"    -> OnLoadBalancerConfiguration(c, o)
    [] K(o) = "lrc"    -> OnListenerRuleConfiguration(c, o)
    [] K(o) = "secret" -> OnSecret(c, o)
    [] K(o) = "grant"  -> OnReferenceGrant(c, old, new)

Apply(e, others) ==
  /\ queue' = queue \cup e.gws
  /\ generic' = others \cup e.events
  /\ classQ' = classQ \cup e.classes

\* Gateway g is built, or being built, from a version of o before v.
UsesOlder(g, o, v) ==
  \E w \in 0..(v - 1) :
    <<o, w>> \in deployed[g] \cup (IF busy[g] = None THEN {} ELSE busy[g].built)

\* The gateways that use o as it was and that the handler does not reach.
Unannounced(c, o, old, new) ==
  CASE o \in Routes ->
         {g \in UNION {GatewayOf(c, p) : p \in Parents(old)} :
            g \notin Effect(c, o, old, new).gws}
    [] K(o) = "tgc" /\ old.refs # new.refs ->
         {g \in Gateways : UsesOlder(g, o, new.ver)}
    [] OTHER -> {}

\* One watch event reaches its handler (an informer's, or for a Secret its
\* reflector's once that has listed).
Deliver(o) ==
  LET new == Head(feed[o])
      c   == [cache EXCEPT ![o] = new]
  IN  /\ feed[o] # <<>>
      /\ K(o) = "secret" => watch[o] = "on"
      /\ cache' = c
      /\ feed' = [feed EXCEPT ![o] = Tail(@)]
      /\ Apply(Effect(c, o, cache[o], new), generic)
      /\ silent' = silent \cup ({o} \X Unannounced(c, o, cache[o], new))
      /\ UNCHANGED <<world, watch, busy, items, rworker, lsq, lsLate, lworker,
                     lsInfo, deployed, dropped, budget>>

\* A synthetic event is taken from its channel.
HandleGeneric(ev) ==
  /\ Apply(Effect(cache, ev.obj, ev.val, ev.val), generic \ {ev})
  /\ UNCHANGED <<world, cache, feed, watch, busy, items, rworker, lsq, lsLate,
                 lworker, lsInfo, deployed, silent, dropped, budget>>

\* A reflector lists: SecretsStore.Replace fills the store and sends no event.
\* It lists when it starts, and again after its watch was lost.
ReflectorList(s) ==
  /\ \/ watch[s] = "starting" /\ UNCHANGED budget
     \/ /\ watch[s] = "on" /\ budget.faults > 0
        /\ budget' = [budget EXCEPT !.faults = @ - 1]
  /\ cache' = [cache EXCEPT ![s] = Api(s)]
  /\ feed' = [feed EXCEPT ![s] = <<>>]
  /\ watch' = [watch EXCEPT ![s] = "on"]
  /\ silent' = silent \cup
       ({s} \X {g \in Gateways : UsesOlder(g, s, Api(s).ver)})
  /\ UNCHANGED <<world, generic, queue, busy, classQ, items, rworker, lsq,
                 lsLate, lworker, lsInfo, deployed, dropped>>

-----------------------------------------------------------------------------
(* The reconcilers.                                                        *)

\* What GetSecret returns: the reflector's store, or the API server.
View == [o \in Obj |-> IF K(o) = "secret" /\ watch[o] # "on"
                         THEN Api(o) ELSE cache[o]]

\* The status updates a load submits; failures go first.
StatusUpdates(c, g) ==
  {[route |-> r, parent |-> p, gen |-> c[r].ver, info |-> RouteInfo(c, r, p)] :
     <<r, p>> \in {x \in Routes \X Obj :
                     c[x[1]].live /\ x[2] \in ParentsAt(c, x[1], g)}}

InOrder(us) ==
  LET failed == {u \in us : ~u.info.accepted \/ ~u.info.resolved}
  IN  {a \o b : a \in SetToSeqs(failed), b \in SetToSeqs(us \ failed)}

\* What a reconcile of g reports of ListenerSet l's listeners: {} is nothing,
\* {rs} the routes attached.
NoInfo == {}
ListenerInfo(c, l, g) ==
  IF c[g].flag
    THEN {{r \in Routes :
             c[r].live /\ l \in ParentsAt(c, r, g) /\ c[l].flag}}
    ELSE NoInfo

\* A Gateway reconcile: the configuration and the routes are loaded and the
\* route status updates submitted.
Load(g) ==
  LET c == View
  IN  /\ g \in queue /\ busy[g] = None
      /\ queue' = queue \ {g}
      /\ silent' = {x \in silent : x[2] # g}
      /\ IF IsGatewayManagedByLBController(c, g)
           THEN /\ Len(items) + Cardinality(StatusUpdates(c, g)) <= MaxItems
                /\ \E s \in InOrder(StatusUpdates(c, g)) : items' = items \o s
                /\ busy' = [busy EXCEPT ![g] =
                     [built |-> Built(c, g),
                      secrets |-> {o \in Reads(c, g) : K(o) = "secret"},
                      ls |-> {[ls |-> l, gen |-> c[l].ver, accepted |-> c[g].flag,
                               retries |-> 0] : l \in ListenerSetsOf(c, g)},
                      n |-> [l \in ListenerSetsOf(c, g) |->
                               ListenerInfo(c, l, g)]]]
           ELSE UNCHANGED <<items, busy>>
      /\ UNCHANGED <<world, cache, feed, generic, watch, classQ, rworker, lsq,
                     lsLate, lworker, lsInfo, deployed, dropped, budget>>

\* MonitorSecrets for consumer g, as far as these secrets have no other one.
MonitorSecrets(g, secrets) ==
  watch' = [s \in DOMAIN watch |->
              IF s \in secrets
                THEN IF watch[s] = "off" THEN "starting" ELSE watch[s]
                ELSE IF \E h \in Gateways \ {g} :
                          \E v \in 0..Api(s).ver : <<s, v>> \in deployed[h]
                       THEN watch[s] ELSE "off"]

\* listenerSetStatusReconcilerImpl.Enqueue for each ListenerSet of the result.
EnqueueListenerSets(res) ==
  LET new == {i \in res.ls : \A k \in 1..Len(lsq) : lsq[k] # i}
  IN  /\ \E s \in SetToSeqs(new) : lsq' = lsq \o s
      /\ lsInfo' = [l \in DOMAIN lsInfo |->
                      IF l \in DOMAIN res.n THEN res.n[l] ELSE lsInfo[l]]
      /\ lworker' = IF lworker # None /\ lworker.item.ls \in DOMAIN res.n
                      THEN [lworker EXCEPT !.current = FALSE] ELSE lworker
      /\ dropped' = dropped \ DOMAIN res.n

\* The model is deployed and the status updated.
Deploy(g) ==
  /\ busy[g] # None
  /\ deployed' = [deployed EXCEPT ![g] = busy[g].built]
  /\ MonitorSecrets(g, busy[g].secrets)
  /\ EnqueueListenerSets(busy[g])
  /\ busy' = [busy EXCEPT ![g] = None]
  /\ UNCHANGED <<world, cache, feed, generic, queue, classQ, items, rworker,
                 lsLate, silent, budget>>

\* The reconcile fails on the way and is queued again.
DeployFails(g) ==
  /\ busy[g] # None /\ budget.faults > 0
  /\ budget' = [budget EXCEPT !.faults = @ - 1]
  /\ busy' = [busy EXCEPT ![g] = None]
  /\ queue' = queue \cup {g}
  /\ UNCHANGED <<world, cache, feed, generic, watch, classQ, items, rworker, lsq,
                 lsLate, lworker, lsInfo, deployed, silent, dropped>>

\* The GatewayClass reconcile notes on the class which versions of its
\* configuration it has seen: computeProcessedConfigVersion.
ProcessedConfig(c, k) == {<<o, c[o].ver>> : o \in ConfigReads(c, k)}

ClassReconcile(k) ==
  LET ann == ProcessedConfig(cache, k)
  IN  /\ k \in classQ
      /\ classQ' = classQ \ {k}
      /\ IF cache[k].live /\ cache[k].st # ann
           THEN /\ Len(feed[k]) < MaxLag
                /\ feed' = [feed EXCEPT ![k] =
                              Append(@, [Api(k) EXCEPT !.st = ann])]
           ELSE UNCHANGED feed
      /\ UNCHANGED <<world, cache, generic, watch, queue, busy, items, rworker,
                     lsq, lsLate, lworker, lsInfo, deployed, silent, dropped,
                     budget>>

-----------------------------------------------------------------------------
(* The route status queue.                                                 *)

MayWrite_newer(rec, item) ==
  item.parent \notin DOMAIN rec.st \/ rec.st[item.parent].gen < item.gen

\* No backward generation update.
MayWrite(rec, item) ==
  item.parent \notin DOMAIN rec.st \/ rec.st[item.parent].gen <= item.gen

UpdatedRouteStatus_ownOnly(rec, item) ==
  LET own == {item.parent} \cap Parents(rec)
  IN  [p \in own |-> IF MayWrite(rec, item)
                       THEN [gen |-> rec.ver, info |-> item.info]
                       ELSE rec.st[p]]

\* updateRouteStatus: the entries of the other parents are kept as read, those
\* of parents the spec no longer names are left out.
UpdatedRouteStatus(rec, item) ==
  LET own == {item.parent} \cap Parents(rec)
  IN  [p \in (DOMAIN rec.st \cap Parents(rec)) \cup own |->
         IF p \in own /\ MayWrite(rec, item)
           THEN [gen |-> rec.ver,
                 info |-> IF cache[p].live THEN item.info
                          ELSE [accepted |-> FALSE, resolved |-> TRUE]]
           ELSE rec.st[p]]

RouteGet ==
  LET item == Head(items)
      rec  == cache[item.route]
      st   == UpdatedRouteStatus(rec, item)
  IN  /\ items # <<>> /\ rworker = None
      /\ items' = Tail(items)
      /\ rworker' = IF rec.live /\ st # rec.st
                      THEN [item |-> item, st |-> st] ELSE None
      /\ UNCHANGED <<world, cache, feed, generic, watch, queue, busy, classQ,
                     lsq, lsLate, lworker, lsInfo, deployed, silent, dropped,
                     budget>>

RoutePatch ==
  LET r == rworker.item.route
  IN  /\ rworker # None
      /\ Len(feed[r]) < MaxLag
      /\ feed' = IF Api(r).live
                   THEN [feed EXCEPT ![r] =
                           Append(@, [Api(r) EXCEPT !.st = rworker.st])]
                   ELSE feed
      /\ rworker' = None
      /\ UNCHANGED <<world, cache, generic, watch, queue, busy, classQ, items,
                     lsq, lsLate, lworker, lsInfo, deployed, silent, dropped,
                     budget>>

\* handleItemError: the update goes to the back of the queue.
RoutePatchFails ==
  /\ rworker # None /\ budget.faults > 0
  /\ budget' = [budget EXCEPT !.faults = @ - 1]
  /\ items' = Append(items, rworker.item)
  /\ rworker' = None
  /\ UNCHANGED <<world, cache, feed, generic, watch, queue, busy, classQ, lsq,
                 lsLate, lworker, lsInfo, deployed, silent, dropped>>

-----------------------------------------------------------------------------
(* The ListenerSet status queue.                                           *)

Forget(l) == lsInfo' = [lsInfo EXCEPT ![l] = NoInfo]

\* isListenerSetStatusIdentical
Identical(old, new) == old = new

ListenerSetGet ==
  LET item == Head(lsq)
      rec  == cache[item.ls]
      st   == [accepted |-> item.accepted, gen |-> item.gen,
               routes |-> lsInfo[item.ls]]
  IN  /\ lsq # <<>> /\ lworker = None
      /\ lsq' = Tail(lsq)
      /\ IF ~rec.live THEN UNCHANGED <<lworker, lsInfo>>
         ELSE IF Identical(rec.st, st) THEN Forget(item.ls) /\ UNCHANGED lworker
         ELSE /\ lworker' = [item |-> item, st |-> st, current |-> TRUE,
                             withRoutes |-> rec.st = None \/ rec.st.routes # st.routes]
              /\ UNCHANGED lsInfo
      /\ UNCHANGED <<world, cache, feed, generic, watch, queue, busy, classQ,
                     items, rworker, lsLate, deployed, silent, dropped, budget>>

\* The merge patch carries the conditions always (their times are new) and the
\* listeners only where they differ from what was read.
ListenerSetPatch ==
  LET l  == lworker.item.ls
      st == IF lworker.withRoutes \/ Api(l).st = None THEN lworker.st
            ELSE [lworker.st EXCEPT !.routes = Api(l).st.routes]
  IN  /\ lworker # None
      /\ Len(feed[l]) < MaxLag
      /\ feed' = IF Api(l).live
                   THEN [feed EXCEPT ![l] = Append(@, [Api(l) EXCEPT !.st = st])]
                   ELSE feed
      /\ IF Api(l).live /\ lworker.current THEN Forget(l) ELSE UNCHANGED lsInfo
      /\ lworker' = None
      /\ UNCHANGED <<world, cache, generic, watch, queue, busy, classQ, items,
                     rworker, lsq, lsLate, deployed, silent, dropped, budget>>

\* handleItemError: retried later, given up after maxRetries.
ListenerSetPatchFails ==
  /\ lworker # None /\ budget.faults > 0
  /\ budget' = [budget EXCEPT !.faults = @ - 1]
  /\ IF lworker.item.retries >= MaxRetries
       THEN /\ dropped' = dropped \cup {lworker.item.ls}
            /\ UNCHANGED lsLate
       ELSE /\ lsLate' = lsLate \cup {[lworker.item EXCEPT !.retries = @ + 1]}
            /\ UNCHANGED dropped
  /\ lworker' = None
  /\ UNCHANGED <<world, cache, feed, generic, watch, queue, busy, classQ, items,
                 rworker, lsq, lsInfo, deployed, silent>>

ListenerSetRetry(i) ==
  /\ i \in lsLate
  /\ lsLate' = lsLate \ {i}
  /\ lsq' = IF \E k \in 1..Len(lsq) : lsq[k] = i THEN lsq ELSE Append(lsq, i)
  /\ UNCHANGED <<world, cache, feed, generic, watch, queue, busy, classQ, items,
                 rworker, lworker, lsInfo, deployed, silent, dropped, budget>>

-----------------------------------------------------------------------------
(* The users, and a restart of the controller.                             *)

Edit(o) ==
  \E v \in world.variants[o] :
    LET new == [Api(o) EXCEPT !.live = v.live, !.refs = v.refs, !.flag = v.flag,
                              !.ver = @ + 1,
                              !.st = IF ~Api(o).live THEN world.init[o].st ELSE @]
    IN  /\ budget.edits > 0 /\ Len(feed[o]) < MaxLag
        /\ budget' = [budget EXCEPT !.edits = @ - 1]
        /\ feed' = [feed EXCEPT ![o] = Append(@, new)]
        /\ UNCHANGED <<world, cache, generic, watch, queue, busy, classQ, items,
                       rworker, lsq, lsLate, lworker, lsInfo, deployed, silent,
                       dropped>>

\* After a restart the informers list everything; only Gateways (and, in the
\* GatewayClass controller, classes) are enqueued for the initial list.
Restart ==
  /\ budget.restarts > 0
  /\ budget' = [budget EXCEPT !.restarts = @ - 1]
  /\ cache' = ApiView
  /\ feed' = [o \in Obj |-> <<>>]
  /\ generic' = {} /\ items' = <<>> /\ lsq' = <<>> /\ lsLate' = {}
  /\ watch' = [s \in DOMAIN watch |-> "off"]
  /\ queue' = {g \in Gateways : IsGatewayManagedByLBController(ApiView, g)}
  /\ classQ' = {k \in OfKind("class") : Api(k).live}
  /\ busy' = [g \in Gateways |-> None]
  /\ rworker' = None /\ lworker' = None
  /\ lsInfo' = [l \in DOMAIN lsInfo |-> NoInfo]
  /\ silent' = {} /\ dropped' = {}
  /\ UNCHANGED <<world, deployed>>

\* The controller starts in a cluster that holds the setting's objects, or has
\* been running and is at rest (warm: the objects carry their statuses).
Init ==
  /\ world \in Settings
  /\ cache = world.init
  /\ feed = [o \in Obj |-> <<>>]
  /\ generic = {} /\ items = <<>> /\ lsq = <<>> /\ lsLate = {}
  /\ watch = [s \in OfKind("secret") |-> "off"]
  /\ queue = {g \in Gateways :
                ~world.warm /\ IsGatewayManagedByLBController(cache, g)}
  /\ classQ = {k \in OfKind("class") : ~world.warm /\ cache[k].live}
  /\ busy = [g \in Gateways |-> None]
  /\ rworker = None /\ lworker = None
  /\ lsInfo = [l \in OfKind("ls") |-> NoInfo]
  /\ deployed = [g \in Gateways |-> IF world.warm THEN Built(cache, g) ELSE {}]
  /\ silent = {} /\ dropped = {}
  /\ budget = world.budget

Next ==
  \/ \E o \in Obj : Deliver(o) \/ Edit(o)
  \/ \E ev \in generic : HandleGeneric(ev)
  \/ \E s \in OfKind("secret") : ReflectorList(s)
  \/ \E g \in Gateways : Load(g) \/ Deploy(g) \/ DeployFails(g)
  \/ \E k \in OfKind("class") : ClassReconcile(k)
  \/ RouteGet \/ RoutePatch \/ RoutePatchFails
  \/ ListenerSetGet \/ ListenerSetPatch \/ ListenerSetPatchFails
  \/ \E i \in lsLate : ListenerSetRetry(i)
  \/ Restart

\* Every informer, worker and channel makes progress; users and faults need not.
Progress ==
  \/ \E o \in Obj : Deliver(o)
  \/ \E ev \in generic : HandleGeneric(ev)
  \/ \E s \in OfKind("secret") : watch[s] = "starting" /\ ReflectorList(s)
  \/ \E g \in Gateways : Load(g) \/ Deploy(g)
  \/ \E k \in OfKind("class") : ClassReconcile(k)
  \/ RouteGet \/ RoutePatch \/ ListenerSetGet \/ ListenerSetPatch
  \/ \E i \in lsLate : ListenerSetRetry(i)

Spec == Init /\ [][Next]_vars /\ WF_vars(Progress)

-----------------------------------------------------------------------------
(* Properties.                                                             *)

\* Nothing that could still change a load balancer is under way.
Settled ==
  /\ \A o \in Obj : feed[o] = <<>> \/ (K(o) = "secret" /\ watch[o] = "off")
  /\ generic = {} /\ queue = {} /\ classQ = {}
  /\ \A g \in Gateways : busy[g] = None
  /\ \A s \in DOMAIN watch : watch[s] # "starting"

\* Nor anything that could change a status.
Quiet ==
  /\ Settled
  /\ items = <<>> /\ rworker = None
  /\ lsq = <<>> /\ lsLate = {} /\ lworker = None

\* Every change reaches the Gateways it concerns: when no event, queue entry or
\* reconcile is left, each load balancer is built from the objects as the API
\* server holds them now (GetImpactedGatewaysFromParentRefs and the handlers).
NoStaleLoadBalancer ==
  Settled => \A g \in Gateways :
    IsGatewayManagedByLBController(ApiView, g) =>
      deployed[g] = Built(ApiView, g)

\* The same, but for the changes the handlers are known not to announce: a
\* parentRef removed before its status entry was written, a targetReference
\* moved away, a Secret changed before its reflector has listed.
StaleOnlyIfUnannounced ==
  Settled => \A g \in Gateways :
    IsGatewayManagedByLBController(ApiView, g) =>
      \/ deployed[g] = Built(ApiView, g)
      \/ \E o \in Obj : <<o, g>> \in silent

\* Whatever was lost, retried, reordered or computed from a stale read on the
\* way, once both status queues are idle every Route carries, for each parent of
\* a managed Gateway, the conditions of its current generation (route_reconciler.go);
\* and every ListenerSet, unless its last update was given up after maxRetries,
\* those of one reconcile, though queue entry and listener cache are kept apart
\* (listenerset_status_reconciler.go).
StatusCurrent ==
  Quiet => \A g \in {h \in Gateways : IsGatewayManagedByLBController(ApiView, h)} :
    /\ \A r \in {x \in Routes : Api(x).live} : \A p \in ParentsAt(ApiView, r, g) :
         /\ p \in DOMAIN Api(r).st
         /\ Api(r).st[p] = [gen |-> Api(r).ver, info |-> RouteInfo(ApiView, r, p)]
    /\ \A l \in {x \in OfKind("ls") \ dropped : Api(x).live /\ g \in Named(ApiView, x, "gw")} :
         Api(l).st = [accepted |-> Api(g).flag, gen |-> Api(l).ver,
                      routes |-> ListenerInfo(ApiView, l, g)]

\* Status patches raise events that reconcile Gateways that submit statuses: the
\* circle ends.  Once users stop editing, everything comes to rest.
EventuallyQuiet == <>[]Quiet
=============================================================================
