------------------------------ MODULE Gateway ------------------------------
(***************************************************************************)
(* The Gateway reconcile loop and the objects around it that must not be   *)
(* pulled away from under a live load balancer: the Gateway's finalizer,   *)
(* the add-on annotations, the service reference counter that guards       *)
(* TargetGroupConfigurations (TGC), and the LoadBalancerConfigurations     *)
(* (LBC), each with the controller that removes its finalizer.             *)
(*                                                                         *)
(* Gateways are reconciled by concurrent workers, one per Gateway; the TGC *)
(* and LBC controllers run beside them.  Deploying a model is one step (or *)
(* half of one, when it fails).                                            *)
(***************************************************************************)
EXTENDS Naturals, Integers, FiniteSets

CONSTANTS Gateways, Services, Configs, Addons,
          None,
          Settings,    \* the configurations to consider, see below
          MaxChanges

\* A setting fixes the cluster and what may happen to it:
\*   gateways, services, configs, addons   the objects that exist;
\*   dryRun   users may set the dry-run annotation;
\*   reconf   users may point a Gateway at another LBC;
\*   faults, restarts   how many failures and restarts there are.
ASSUME GatewayAssumption ==
    /\ Settings \subseteq [gateways : SUBSET Gateways, services : SUBSET Services,
                           configs : SUBSET Configs, addons : SUBSET Addons,
                           dryRun : BOOLEAN, reconf : BOOLEAN,
                           faults : Nat, restarts : Nat]
    /\ MaxChanges \in Nat /\ IsFiniteSet(Gateways)
    /\ None \notin Configs /\ \A s \in SUBSET Services : None # s

VARIABLES
    setting,   \* one of Settings, never changes
    svc,       \* the Service exists, per service
    phase,     \* "present", "deleting" or "gone", per Gateway
    fin,       \* the Gateway carries our finalizer
    wants,     \* services behind the routes attached to the Gateway
    enabled,   \* add-ons its configuration enables
    conf,      \* the LBC it refers to, or None
    dryRun,    \* the dry-run annotation
    plan,      \* the dry-run-plan annotation is present
    stored,    \* add-ons recorded as enabled in its annotations
    accepted,  \* its Accepted condition is True
    queued,    \* it waits in the work queue
    lb,        \* AWS: None, or the services its load balancer was built from
    active,    \* AWS: add-ons attached to the load balancer
    relations, \* the reference counter: services per Gateway, None when absent
    refCount,  \* and how many Gateways refer to each service
    pc, run,   \* the workers and their local variables
    tgc, tgcPc, tgcExpected,  \* per service: its TGC and the TGC controller
    lbc, lbcFin, lbcPc,       \* per config: the LBC, its finalizer, its controller
    changes, faults, restarts

gwVars  == <<phase, fin, wants, enabled, conf, dryRun, plan, stored, accepted>>
awsVars == <<lb, active>>
counter == <<relations, refCount>>
worker  == <<pc, run>>
tgcVars == <<tgc, tgcPc, tgcExpected>>
lbcVars == <<lbc, lbcFin, lbcPc>>
bounds  == <<changes, faults, restarts>>
vars    == <<setting, svc, gwVars, queued, awsVars, counter, worker, tgcVars, lbcVars, bounds>>

\* del: the Gateway is being deleted; svcs: services of its routes; cur: add-ons
\* stored; new: add-ons to enable; dry: dry-run requested and nothing provisioned.
Idle == [del |-> FALSE, svcs |-> {}, cur |-> {}, new |-> {}, dry |-> FALSE]

Init ==
    /\ setting \in Settings
    /\ svc = [s \in Services |-> TRUE]
    /\ phase = [g \in Gateways |-> IF g \in setting.gateways THEN "present" ELSE "gone"]
    /\ fin = [g \in Gateways |-> FALSE]
    /\ wants \in [Gateways -> SUBSET setting.services]
    /\ enabled \in [Gateways -> SUBSET setting.addons]
    /\ conf \in [Gateways -> setting.configs \cup {None}]
    /\ dryRun \in [Gateways -> {FALSE, setting.dryRun}]
    /\ \A g \in Gateways \ setting.gateways :
         wants[g] = {} /\ enabled[g] = {} /\ conf[g] = None /\ ~dryRun[g]
    /\ plan = [g \in Gateways |-> FALSE]
    /\ stored = [g \in Gateways |-> {}]
    /\ accepted = [g \in Gateways |-> FALSE]
    /\ queued = [g \in Gateways |-> g \in setting.gateways]
    /\ lb = [g \in Gateways |-> None] /\ active = [g \in Gateways |-> {}]
    /\ relations = [g \in Gateways |-> None] /\ refCount = [s \in Services |-> 0]
    /\ pc = [g \in Gateways |-> "idle"] /\ run = [g \in Gateways |-> Idle]
    /\ tgc = [s \in Services |-> IF s \in setting.services THEN "present" ELSE "gone"]
    /\ tgcPc = [s \in Services |-> "idle"] /\ tgcExpected = [s \in Services |-> {}]
    /\ lbc = [c \in Configs |-> IF c \in setting.configs THEN "present" ELSE "gone"]
    /\ lbcFin = [c \in Configs |-> FALSE]
    /\ lbcPc = [c \in Configs |-> "idle"]
    /\ changes = 0 /\ faults = 0 /\ restarts = 0

Goto(g, label) == pc' = [pc EXCEPT ![g] = label]
Done(g) == Goto(g, "idle") /\ run' = [run EXCEPT ![g] = Idle]
Requeue(g) == queued' = [queued EXCEPT ![g] = TRUE]

-----------------------------------------------------------------------------
(***************************************************************************)
(* The service reference counter.                                          *)
(***************************************************************************)
servicesOf(rel, g) == IF rel[g] = None THEN {} ELSE rel[g]

\* Both forms take the old services off the count; a delete forgets the Gateway.
updateRefCount(old, new) ==
    refCount' = [s \in Services |-> refCount[s] - (IF s \in old THEN 1 ELSE 0)
                                                + (IF s \in new THEN 1 ELSE 0)]

UpdateRelations_keepOld(svcs, g, isDelete) ==
    /\ relations' = [relations EXCEPT ![g] = IF isDelete THEN None ELSE svcs]
    /\ updateRefCount({}, IF isDelete THEN {} ELSE svcs)

UpdateRelations(svcs, g, isDelete) ==
    /\ relations' = [relations EXCEPT ![g] = IF isDelete THEN None ELSE svcs]
    /\ updateRefCount(servicesOf(relations, g), IF isDelete THEN {} ELSE svcs)

IsEligibleForRemoval_ignoreCount(s, expected) == \A g \in expected : relations[g] # None

IsEligibleForRemoval(s, expected) ==
    /\ refCount[s] = 0
    /\ \A g \in expected : relations[g] # None

-----------------------------------------------------------------------------
(***************************************************************************)
(* One reconcile of a Gateway.                                             *)
(***************************************************************************)
configAvailable(g) == conf[g] \in {None} \cup {c \in Configs : lbc[c] # "gone"}

\* The LBC gets its finalizer from the first Gateway that resolves it.
protectConfig(g) ==
    IF conf[g] # None /\ lbc[conf[g]] = "present"
    THEN lbcFin' = [lbcFin EXCEPT ![conf[g]] = TRUE]
    ELSE UNCHANGED lbcFin

\* Everything up to the model: the configuration, the routes, the stored add-ons.
Build(g) ==
    /\ pc[g] = "idle" /\ queued[g] /\ phase[g] # "gone"
    /\ configAvailable(g)
    /\ protectConfig(g)
    /\ queued' = [queued EXCEPT ![g] = FALSE]
    /\ LET del == phase[g] = "deleting" IN
         run' = [run EXCEPT ![g] =
             [del |-> del, svcs |-> wants[g], cur |-> stored[g],
              new |-> IF del THEN {} ELSE enabled[g],
              dry |-> dryRun[g] /\ ~del /\ ~fin[g]]]
    /\ Goto(g, "built")
    /\ UNCHANGED <<gwVars, awsVars, counter, tgcVars, lbc, lbcPc, bounds>>

\* The configuration cannot be resolved: the Gateway is not accepted, and retried.
BuildWithoutConfig(g) ==
    /\ pc[g] = "idle" /\ queued[g] /\ phase[g] # "gone"
    /\ ~configAvailable(g)
    /\ accepted' = [accepted EXCEPT ![g] = FALSE]
    /\ UNCHANGED <<phase, fin, wants, enabled, conf, dryRun, plan, stored, queued,
                   awsVars, counter, worker, tgcVars, lbcVars, bounds>>

\* Errors that ask for a requeue, and those of the API server, leave the status alone.
handleReconcileError(g) == accepted' \in {accepted, [accepted EXCEPT ![g] = FALSE]}

\* Routes or model do not build.
BuildFails(g) ==
    /\ pc[g] = "idle" /\ queued[g] /\ phase[g] # "gone" /\ configAvailable(g)
    /\ faults < setting.faults /\ faults' = faults + 1
    /\ handleReconcileError(g)
    /\ protectConfig(g)
    /\ UNCHANGED <<phase, fin, wants, enabled, conf, dryRun, plan, stored, queued,
                   awsVars, counter, worker, tgcVars, lbc, lbcPc, changes, restarts>>

reconcileDryRun(g) ==
    /\ pc[g] = "built" /\ run[g].dry
    /\ plan' = [plan EXCEPT ![g] = TRUE]
    /\ Done(g)
    /\ UNCHANGED <<phase, fin, wants, enabled, conf, dryRun, stored, accepted, queued,
                   awsVars, counter, tgcVars, lbcVars, bounds>>

cleanupDryRunState(g) ==
    /\ pc[g] = "built" /\ ~run[g].dry
    /\ plan' = [plan EXCEPT ![g] = FALSE]
    /\ Goto(g, "cleaned")
    /\ UNCHANGED <<phase, fin, wants, enabled, conf, dryRun, stored, accepted, queued, run,
                   awsVars, counter, tgcVars, lbcVars, bounds>>

additions(g) == run[g].new \ run[g].cur
removals(g) == run[g].cur \ run[g].new

persistAdditions_skip(g) ==
    /\ pc[g] = "cleaned"
    /\ Goto(g, IF run[g].del /\ run[g].cur = {} THEN "delete" ELSE "update")
    /\ UNCHANGED <<gwVars, queued, run, awsVars, counter, tgcVars, lbcVars, bounds>>

\* New add-ons are recorded before they are deployed.
persistAdditions(g) ==
    /\ pc[g] = "cleaned"
    /\ stored' = [stored EXCEPT ![g] = @ \cup additions(g)]
    /\ queued' = [queued EXCEPT ![g] = @ \/ additions(g) # {}]
    /\ Goto(g, IF run[g].del /\ run[g].cur = {} THEN "delete" ELSE "update")
    /\ UNCHANGED <<phase, fin, wants, enabled, conf, dryRun, plan, accepted, run,
                   awsVars, counter, tgcVars, lbcVars, bounds>>

\* The services are counted, then the finalizer is added.
reconcileUpdate(g) ==
    /\ pc[g] = "update"
    /\ phase[g] = "present" \/ fin[g]
    /\ UpdateRelations(run[g].svcs, g, FALSE)
    /\ fin' = [fin EXCEPT ![g] = TRUE]
    /\ Goto(g, "deploy")
    /\ UNCHANGED <<phase, wants, enabled, conf, dryRun, plan, stored, accepted, queued, run,
                   awsVars, tgcVars, lbcVars, bounds>>

\* No finalizer can be added to a Gateway that is gone; its services are counted.
addFinalizerRefused(g) ==
    /\ pc[g] = "update"
    /\ phase[g] # "present" /\ ~fin[g]
    /\ UpdateRelations(run[g].svcs, g, FALSE)
    /\ Done(g) /\ Requeue(g)
    /\ UNCHANGED <<gwVars, awsVars, tgcVars, lbcVars, bounds>>

addFinalizerFails(g) ==
    /\ pc[g] = "update"
    /\ faults < setting.faults /\ faults' = faults + 1
    /\ UpdateRelations(run[g].svcs, g, FALSE)
    /\ Done(g) /\ Requeue(g)
    /\ UNCHANGED <<gwVars, awsVars, tgcVars, lbcVars, changes, restarts>>

\* Add-ons that were not active and are not wanted are left alone.
addonsAfter(g) == (active[g] \ run[g].cur) \cup run[g].new

deployModel(g) ==
    /\ pc[g] = "deploy"
    /\ lb' = [lb EXCEPT ![g] = run[g].svcs]
    /\ active' = [active EXCEPT ![g] = addonsAfter(g)]
    /\ Goto(g, "status")
    /\ UNCHANGED <<gwVars, queued, run, counter, tgcVars, lbcVars, bounds>>

\* The deployment stops half way: the load balancer may be up to date already, and
\* some add-ons may be attached or detached.
deployModelFails(g) ==
    /\ pc[g] = "deploy"
    /\ faults < setting.faults /\ faults' = faults + 1
    /\ \/ UNCHANGED <<lb, active>>
       \/ /\ lb' = [lb EXCEPT ![g] = run[g].svcs]
          /\ \E on \in SUBSET additions(g), off \in SUBSET removals(g) :
                active' = [active EXCEPT ![g] = (@ \cup on) \ off]
    /\ handleReconcileError(g)
    /\ Done(g) /\ Requeue(g)
    /\ UNCHANGED <<phase, fin, wants, enabled, conf, dryRun, plan, stored,
                   counter, tgcVars, lbcVars, changes, restarts>>

\* A Gateway without a valid listener, hence without routes, is not accepted.  While
\* the load balancer is still being provisioned the run ends here.
updateGatewayStatusSuccess(g) ==
    /\ pc[g] = "status"
    /\ \E valid \in BOOLEAN : /\ run[g].svcs # {} => valid
                             /\ accepted' = [accepted EXCEPT ![g] = valid]
    /\ \/ Goto(g, "removals") /\ UNCHANGED <<run, queued>>
       \/ Done(g) /\ Requeue(g)
    /\ UNCHANGED <<phase, fin, wants, enabled, conf, dryRun, plan, stored,
                   awsVars, counter, tgcVars, lbcVars, bounds>>

persistRemovals_asAdded(g) ==
    /\ pc[g] = "removals"
    /\ Done(g)
    /\ UNCHANGED <<gwVars, queued, awsVars, counter, tgcVars, lbcVars, bounds>>

\* Removed add-ons are only forgotten after the deployment; writing the annotation
\* wakes the controller up.
persistRemovals(g) ==
    /\ pc[g] = "removals"
    /\ stored' = [stored EXCEPT ![g] = @ \ removals(g)]
    /\ IF removals(g) = {} THEN UNCHANGED queued ELSE Requeue(g)
    /\ Done(g)
    /\ UNCHANGED <<phase, fin, wants, enabled, conf, dryRun, plan, accepted,
                   awsVars, counter, tgcVars, lbcVars, bounds>>

\* The Gateway is being deleted and no add-on is left: an empty stack is deployed.
reconcileDelete_keepLB(g) ==
    /\ pc[g] = "delete" /\ fin[g]
    /\ UpdateRelations({}, g, TRUE)
    /\ Goto(g, "unfinalize")
    /\ UNCHANGED <<gwVars, queued, run, awsVars, tgcVars, lbcVars, bounds>>

reconcileDelete(g) ==
    /\ pc[g] = "delete" /\ fin[g]
    /\ lb' = [lb EXCEPT ![g] = None] /\ active' = [active EXCEPT ![g] = {}]
    /\ UpdateRelations({}, g, TRUE)
    /\ Goto(g, "unfinalize")
    /\ UNCHANGED <<gwVars, queued, run, tgcVars, lbcVars, bounds>>

\* The empty stack is deployed in part, or the backend security group not released.
reconcileDeleteFails(g) ==
    /\ pc[g] = "delete" /\ fin[g]
    /\ faults < setting.faults /\ faults' = faults + 1
    /\ \/ UNCHANGED <<lb, active>>
       \/ lb' = [lb EXCEPT ![g] = None] /\ active' = [active EXCEPT ![g] = {}]
    /\ Done(g) /\ Requeue(g)
    /\ UNCHANGED <<gwVars, counter, tgcVars, lbcVars, changes, restarts>>

reconcileDeleteNothing(g) ==
    /\ pc[g] = "delete" /\ ~fin[g]
    /\ Done(g)
    /\ UNCHANGED <<gwVars, queued, awsVars, counter, tgcVars, lbcVars, bounds>>

RemoveFinalizers(g) ==
    /\ pc[g] = "unfinalize"
    /\ fin' = [fin EXCEPT ![g] = FALSE] /\ phase' = [phase EXCEPT ![g] = "gone"]
    /\ Done(g)
    /\ UNCHANGED <<wants, enabled, conf, dryRun, plan, stored, accepted, queued,
                   awsVars, counter, tgcVars, lbcVars, bounds>>

\* A Kubernetes call fails: nothing is undone, the Gateway is retried.
ReconcileFails(g) ==
    /\ pc[g] \notin {"idle", "update", "deploy", "delete"}
    /\ faults < setting.faults /\ faults' = faults + 1
    /\ Done(g) /\ Requeue(g)
    /\ UNCHANGED <<gwVars, awsVars, counter, tgcVars, lbcVars, changes, restarts>>

-----------------------------------------------------------------------------
(***************************************************************************)
(* The controllers of TargetGroupConfigurations and                        *)
(* LoadBalancerConfigurations.  Both add their finalizer as soon as they   *)
(* see the object; when it is deleted they look for users, then remove it. *)
(***************************************************************************)
\* The TGC controller lists the Gateways it expects the counter to know.
tgcListGateways(s) ==
    /\ tgc[s] = "deleting" /\ tgcPc[s] = "idle"
    /\ tgcExpected' = [tgcExpected EXCEPT ![s] = {g \in Gateways : phase[g] # "gone" /\ accepted[g]}]
    /\ tgcPc' = [tgcPc EXCEPT ![s] = "check"]
    /\ UNCHANGED <<gwVars, queued, awsVars, counter, worker, tgc, lbcVars, bounds>>

\* The counter is not asked about a Service that is not there.
tgcCheck(s) ==
    /\ tgcPc[s] = "check"
    /\ tgcPc' = [tgcPc EXCEPT ![s] =
                   IF svc[s] => IsEligibleForRemoval(s, tgcExpected[s]) THEN "remove" ELSE "idle"]
    /\ UNCHANGED <<gwVars, queued, awsVars, counter, worker, tgc, tgcExpected, lbcVars, bounds>>

tgcRemoveFinalizer(s) ==
    /\ tgcPc[s] = "remove"
    /\ tgc' = [tgc EXCEPT ![s] = "gone"] /\ tgcPc' = [tgcPc EXCEPT ![s] = "idle"]
    /\ UNCHANGED <<gwVars, queued, awsVars, counter, worker, tgcExpected, lbcVars, bounds>>

IsLBConfigInUse(c) == \E g \in Gateways : phase[g] # "gone" /\ conf[g] = c

lbcHandleUpdate(c) ==
    /\ lbc[c] = "present" /\ ~lbcFin[c]
    /\ lbcFin' = [lbcFin EXCEPT ![c] = TRUE]
    /\ UNCHANGED <<gwVars, queued, awsVars, counter, worker, tgcVars, lbc, lbcPc, bounds>>

lbcHandleDelete(c) ==
    /\ lbc[c] = "deleting" /\ lbcPc[c] = "idle"
    /\ ~IsLBConfigInUse(c)
    /\ lbcPc' = [lbcPc EXCEPT ![c] = "remove"]
    /\ UNCHANGED <<gwVars, queued, awsVars, counter, worker, tgcVars, lbc, lbcFin, bounds>>

lbcRemoveFinalizer(c) ==
    /\ lbcPc[c] = "remove"
    /\ lbc' = [lbc EXCEPT ![c] = "gone"] /\ lbcFin' = [lbcFin EXCEPT ![c] = FALSE]
    /\ lbcPc' = [lbcPc EXCEPT ![c] = "idle"]
    /\ UNCHANGED <<gwVars, queued, awsVars, counter, worker, tgcVars, bounds>>

-----------------------------------------------------------------------------
(***************************************************************************)
(* Users and the process.                                                  *)
(***************************************************************************)
Change == changes < MaxChanges /\ changes' = changes + 1

ChangeRoutes(g) ==
    /\ Change /\ phase[g] # "gone"
    /\ \E ss \in SUBSET {s \in setting.services : svc[s]} \ {wants[g]} : wants' = [wants EXCEPT ![g] = ss]
    /\ Requeue(g)
    /\ UNCHANGED <<phase, fin, enabled, conf, dryRun, plan, stored, accepted,
                   awsVars, counter, worker, tgcVars, lbcVars, faults, restarts>>

ChangeAddons(g) ==
    /\ Change /\ phase[g] = "present"
    /\ \E as \in SUBSET setting.addons \ {enabled[g]} : enabled' = [enabled EXCEPT ![g] = as]
    /\ Requeue(g)
    /\ UNCHANGED <<phase, fin, wants, conf, dryRun, plan, stored, accepted,
                   awsVars, counter, worker, tgcVars, lbcVars, faults, restarts>>

ChangeDryRun(g) ==
    /\ Change /\ setting.dryRun /\ phase[g] = "present"
    /\ dryRun' = [dryRun EXCEPT ![g] = ~@]
    /\ Requeue(g)
    /\ UNCHANGED <<phase, fin, wants, enabled, conf, plan, stored, accepted,
                   awsVars, counter, worker, tgcVars, lbcVars, faults, restarts>>

ChangeConfig(g) ==
    /\ Change /\ setting.reconf /\ phase[g] = "present"
    /\ \E c \in (setting.configs \cup {None}) \ {conf[g]} :
         conf' = [conf EXCEPT ![g] = c] /\ (c # None => lbc[c] # "gone")
    /\ Requeue(g)
    /\ UNCHANGED <<phase, fin, wants, enabled, dryRun, plan, stored, accepted,
                   awsVars, counter, worker, tgcVars, lbcVars, faults, restarts>>

DeleteGateway(g) ==
    /\ Change /\ phase[g] = "present"
    /\ phase' = [phase EXCEPT ![g] = IF fin[g] THEN "deleting" ELSE "gone"]
    /\ Requeue(g)
    /\ UNCHANGED <<fin, wants, enabled, conf, dryRun, plan, stored, accepted,
                   awsVars, counter, worker, tgcVars, lbcVars, faults, restarts>>

\* A backend without its Service is left out of the routes, and the Gateways that
\* had it are queued.
DeleteService(s) ==
    /\ Change /\ s \in setting.services /\ svc[s]
    /\ svc' = [svc EXCEPT ![s] = FALSE]
    /\ wants' = [g \in Gateways |-> wants[g] \ {s}]
    /\ queued' = [g \in Gateways |-> queued[g] \/ (s \in wants[g] /\ phase[g] # "gone")]
    /\ UNCHANGED <<setting, phase, fin, enabled, conf, dryRun, plan, stored, accepted,
                   awsVars, counter, worker, tgcVars, lbcVars, faults, restarts>>

DeleteTGC(s) ==
    /\ Change /\ tgc[s] = "present"
    /\ tgc' = [tgc EXCEPT ![s] = "deleting"]
    /\ UNCHANGED <<gwVars, queued, awsVars, counter, worker, tgcPc, tgcExpected, lbcVars,
                   faults, restarts>>

DeleteLBC(c) ==
    /\ Change /\ lbc[c] = "present"
    /\ lbc' = [lbc EXCEPT ![c] = IF lbcFin[c] THEN "deleting" ELSE "gone"]
    /\ UNCHANGED <<gwVars, queued, awsVars, counter, worker, tgcVars, lbcFin, lbcPc,
                   faults, restarts>>

\* The process restarts: the counter and the workers are lost, and every Gateway
\* is queued again.
Restart ==
    /\ restarts < setting.restarts /\ restarts' = restarts + 1
    /\ relations' = [g \in Gateways |-> None] /\ refCount' = [s \in Services |-> 0]
    /\ pc' = [g \in Gateways |-> "idle"] /\ run' = [g \in Gateways |-> Idle]
    /\ queued' = [g \in Gateways |-> g \in setting.gateways]
    /\ tgcPc' = [s \in Services |-> "idle"] /\ tgcExpected' = [s \in Services |-> {}]
    /\ lbcPc' = [c \in Configs |-> "idle"]
    /\ UNCHANGED <<gwVars, awsVars, tgc, lbc, lbcFin, changes, faults>>

-----------------------------------------------------------------------------
Reconcile(g) ==
    \/ Build(g) \/ BuildWithoutConfig(g) \/ reconcileDryRun(g) \/ cleanupDryRunState(g)
    \/ persistAdditions(g) \/ reconcileUpdate(g) \/ addFinalizerRefused(g) \/ deployModel(g)
    \/ updateGatewayStatusSuccess(g) \/ persistRemovals(g)
    \/ reconcileDelete(g) \/ reconcileDeleteNothing(g) \/ RemoveFinalizers(g)

ReconcileTGC(s) == tgcListGateways(s) \/ tgcCheck(s) \/ tgcRemoveFinalizer(s)

ReconcileLBC(c) == lbcHandleUpdate(c) \/ lbcHandleDelete(c) \/ lbcRemoveFinalizer(c)

Fixed(A) == A /\ UNCHANGED <<setting, svc>>

GatewayStep(g) ==
    \/ Reconcile(g) \/ BuildFails(g) \/ addFinalizerFails(g) \/ deployModelFails(g)
    \/ reconcileDeleteFails(g) \/ ReconcileFails(g)
    \/ ChangeRoutes(g) \/ ChangeAddons(g) \/ ChangeDryRun(g) \/ ChangeConfig(g)
    \/ DeleteGateway(g)

Next ==
    \/ \E g \in Gateways : Fixed(GatewayStep(g))
    \/ \E s \in Services : Fixed(ReconcileTGC(s) \/ DeleteTGC(s))
    \/ \E c \in Configs : Fixed(ReconcileLBC(c) \/ DeleteLBC(c))
    \/ \E s \in Services : DeleteService(s)
    \/ Fixed(Restart)

Spec == Init /\ [][Next]_vars

\* Every queued object is reconciled to the end of the run, again and again while
\* it fails, and a load balancer does not stay in provisioning for ever.
Fairness ==
    /\ \A g \in Gateways :
         /\ WF_vars(Fixed(Reconcile(g))) /\ SF_vars(Fixed(persistRemovals(g)))
         /\ SF_vars(Fixed(updateGatewayStatusSuccess(g) /\ pc'[g] = "removals"))
    /\ \A s \in Services :
         WF_vars(Fixed(ReconcileTGC(s))) /\ SF_vars(Fixed(tgcRemoveFinalizer(s)))
    /\ \A c \in Configs : WF_vars(Fixed(ReconcileLBC(c)))

FairSpec == Spec /\ Fairness

-----------------------------------------------------------------------------
(***************************************************************************)
(* Properties.                                                             *)
(***************************************************************************)
\* The count UpdateRelations keeps is the number of Gateways that use the service,
\* whatever order Gateways are updated, deleted and retried in.
RefCountExact ==
    \A s \in Services :
        refCount[s] = Cardinality({g \in Gateways : s \in servicesOf(relations, g)})

\* An add-on attached to a load balancer is always recorded as enabled in the
\* Gateway's annotations, so that some later run detaches it (persistAddOns).
NoOrphanAddon == \A g \in Gateways : active[g] \subseteq stored[g]

\* A load balancer exists only while its Gateway carries the finalizer and the LBC
\* it refers to exists, without which the Gateway can neither be updated nor deleted
\* (getLoadBalancerConfigForGateway); not so when the Gateway turns to an LBC whose
\* controller is about to remove its finalizer.  And dry-run never touches AWS: a
\* plan is only ever left on a Gateway that has no load balancer.
FinalizerProtects ==
    \A g \in Gateways : lb[g] # None =>
        fin[g] /\ phase[g] # "gone" /\ ~plan[g] /\ (setting.reconf \/ configAvailable(g))

\* The counter only calls a service unused (IsEligibleForRemoval) when it is in none
\* of the load balancers built from what the counter knows, nor in one of a Gateway
\* that was accepted before the counter was lost in a restart.  Only the TGC of a
\* deleted Service goes whoever still has it.
TGCKept ==
    [][\A s \in Services, g \in Gateways :
         /\ tgcPc[s] = "check" /\ tgcPc'[s] = "remove" /\ svc[s]
         /\ lb[g] # None /\ s \in lb[g]
         => ~(relations[g] = lb[g] \/ (relations[g] = None /\ accepted[g]))]_vars

Unused(s) == \A g \in Gateways : phase[g] = "gone" \/ s \notin wants[g]

\* A deleted Gateway goes, its load balancer and add-ons with it; and the TGC of a
\* service no Gateway uses any more does not stay in deletion for ever, unless a
\* Gateway went away with its services still counted.
EventuallyDeleted ==
    /\ \A g \in Gateways : phase[g] = "deleting" ~> phase[g] = "gone"
    /\ \A s \in Services :
         ~<>[](/\ tgc[s] = "deleting" /\ Unused(s)
               /\ \A g \in Gateways : phase[g] = "gone" => relations[g] = None)
=============================================================================
