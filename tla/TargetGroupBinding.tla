------------------------- MODULE TargetGroupBinding -------------------------
(***************************************************************************)
(* The reconcile loop of one TargetGroupBinding: the resource manager that *)
(* registers and deregisters targets, the cache of the targets manager in  *)
(* front of the ELBV2 API, the checkpoint annotation that lets a reconcile *)
(* be skipped, the deferred reconciler that resets it, the config map of   *)
(* the targets this cluster owns (multi-cluster target groups), and the    *)
(* pod readiness gates.                                                    *)
(*                                                                         *)
(* A pod is an endpoint of the service; Addr gives the target (IP:port or  *)
(* instance:port) it is reached at.  Two pods may share a target: the pod  *)
(* that takes over an IP.  The checkpoint distinguishes them (it hashes    *)
(* the creation time), the target group does not.                          *)
(***************************************************************************)
EXTENDS Naturals, Integers, FiniteSets

CONSTANTS Pods, Targets, Addr, \* Addr: the target of each pod
          Gated,               \* pods with the readiness gate of this binding
          Foreign,             \* targets of other clusters
          Settings,            \* the configurations to consider, see below
          None                 \* no checkpoint, no config map

\* A setting fixes the binding and its environment:
\*   type    "ip" or "instance" targets;
\*   multi   spec.multiClusterTargetGroup;
\*   max     --max-targets-per-target-group, 0 for no limit;
\*   pods    the pods that may become endpoints of the service;
\*   foreign the targets other clusters keep in the target group;
\*   lost    a call may take effect and still return an error;
\*   invalid ELB may refuse a call of a clean-up as invalid (InvalidTarget, or any
\*           ValidationError);
\*   owner   the owner of the target group may delete it;
\*   stale   the informer may lag behind the annotation;
\*   service the service may be deleted and created again;
\*   changes, faults  bounds on edits and on failing calls.
ASSUME BindingAssumption ==
    /\ IsFiniteSet(Pods)
    /\ Addr \in [Pods -> Targets]
    /\ Gated \subseteq Pods
    /\ Foreign \cap Targets = {}
    /\ Settings \subseteq [type : {"ip", "instance"}, multi : BOOLEAN, max : Nat,
                           pods : SUBSET Pods, foreign : SUBSET Foreign,
                           lost : BOOLEAN, invalid : BOOLEAN, owner : BOOLEAN,
                           stale : BOOLEAN, service : BOOLEAN,
                           changes : Nat, faults : Nat]
    /\ \A s \in (SUBSET Pods) \cup (SUBSET Targets) : None # s

VARIABLES
    setting,   \* the setting of this behaviour, which never changes
    svc,       \* the service of the binding exists
    eps,       \* the pods that are endpoints of the service
    gate,      \* the readiness gate condition of each pod
    tgb,       \* "present", "deleting" or "gone"
    fin,       \* the binding carries the finalizer
    cp,        \* the checkpoint annotation: None or the pods it was computed for
    seen,      \* the informer's copy of the annotation
    tg,        \* the target group exists
    elb,       \* the target group in ELB: state of each target
    left,      \* history: the targets that refused clean-ups left registered
    cache,     \* targets cache: None or health of each cached target
    cm,        \* the config map of tracked targets, None when absent
    cmCache,   \* its in-memory copy
    delayed,   \* the binding waits in the deferred queue
    processed, \* the binding is in the processed cache of the deferred reconciler
    queued,    \* the binding waits in the controller's work queue
    pc,        \* where the worker reconciling the binding is
    run,       \* its local variables
    changes, faults

env     == <<svc, eps, tgb, fin>>
deferr  == <<delayed, processed>>
bounds  == <<changes, faults>>
vars    == <<setting, svc, eps, gate, tgb, fin, cp, seen, tg, elb, left, cache, cm,
             cmCache, delayed, processed, queued, pc, run, changes, faults>>

TargetType == setting.type
MultiCluster == setting.multi
MaxTargets == setting.max
GatedPods == IF TargetType = "ip" THEN Gated ELSE {}

AllTargets == Targets \cup Foreign

\* "initial" is any registered target that is not healthy.
States == {"absent", "initial", "healthy", "draining"}

\* A cached target whose health is not known has health "nil".
Healths == States \cup {"nil"}

NoTargets == [t \in AllTargets |-> "absent"]

\* mode: why the worker runs; old: the checkpoint it read; ep: the endpoints it
\* resolved; ts: the targets it listed; net: networking failed; upd: the
\* updateTrackedTargets flag; reg: the endpoints it registered.
Idle == [mode |-> "none", old |-> None, ep |-> {}, ts |-> NoTargets,
         net |-> FALSE, upd |-> FALSE, reg |-> {}]

Init ==
    /\ setting \in Settings
    /\ svc = TRUE
    /\ eps = {}
    /\ gate = [p \in Pods |-> "missing"]
    /\ tgb = "present" /\ fin = FALSE
    /\ cp = None /\ seen = None
    /\ elb = [t \in AllTargets |-> IF t \in setting.foreign THEN "healthy" ELSE "absent"]
    /\ tg = TRUE /\ left = {}
    /\ cache = None /\ cm = None /\ cmCache = None
    /\ delayed = FALSE /\ processed = FALSE
    /\ queued = TRUE
    /\ pc = "idle" /\ run = Idle
    /\ changes = 0 /\ faults = 0

-----------------------------------------------------------------------------
(***************************************************************************)
(* What the handlers compute.                                              *)
(***************************************************************************)
AddrsOf(ps) == {Addr[p] : p \in ps}

\* Endpoints of one service have distinct addresses.
EndpointSets == {ps \in SUBSET setting.pods : \A p, q \in ps : Addr[p] = Addr[q] => p = q}

\* A target as the cached manager reports it: targets cached as healthy are not
\* asked for again, the others are described and dropped when not registered.
refreshUnhealthyTargets(c) ==
    [t \in AllTargets |-> IF c[t] \in {"absent", "healthy"} THEN c[t] ELSE elb[t]]

\* A listing that needs no description of the target group asks ELB nothing.
asks == IF cache = None THEN TRUE ELSE \E t \in AllTargets : cache[t] \notin {"absent", "healthy"}

listed == IF cache = None THEN elb ELSE refreshUnhealthyTargets(cache)

Registered == {t \in Targets : elb[t] \in {"initial", "healthy"}}

NotDraining(ts) == {t \in AllTargets : ts[t] \notin {"absent", "draining"}}

matched == {p \in run.ep : Addr[p] \in NotDraining(run.ts)}
unmatchedEndpoints == run.ep \ matched
unmatchedTargets == NotDraining(run.ts) \ AddrsOf(run.ep)

\* The status the readiness gate gets for a target health.
calculateReadinessGateTransition(h) == IF h = "healthy" THEN "true" ELSE "false"

needReadinessGateFlip(ps) == TargetType = "ip" /\ \E p \in ps : gate[p] = "false"

preflightNeedFurtherProbe ==
    \E p \in matched \cap GatedPods : calculateReadinessGateTransition(run.ts[Addr[p]]) # "true"

\* May be negative: the caller slices the endpoints with it.
getMaxNewTargets(new, current) ==
    IF new + current > MaxTargets THEN MaxTargets - current ELSE new

eligible ==
    IF MaxTargets = 0 THEN Cardinality(unmatchedEndpoints)
    ELSE getMaxNewTargets(Cardinality(unmatchedEndpoints),
                          Cardinality({t \in AllTargets : run.ts[t] # "absent"}))

\* The tracked targets as the multi-cluster manager knows them.
trackedTargets == IF cmCache # None THEN cmCache ELSE cm

FilterTargetsForDeregistration_allWhenUnknown(ts) ==
    IF ~MultiCluster \/ trackedTargets = None THEN ts ELSE ts \cap trackedTargets

FilterTargetsForDeregistration(ts) ==
    IF ~MultiCluster THEN ts
    ELSE IF trackedTargets = None THEN {} ELSE ts \cap trackedTargets

\* getConfigMapContents loads the in-memory copy as a side effect.
loadConfigMap == cmCache' = IF MultiCluster THEN trackedTargets ELSE cmCache

-----------------------------------------------------------------------------
(***************************************************************************)
(* The Kubernetes API, ELB, and how they answer.                           *)
(***************************************************************************)
\* Writing the annotation wakes the controller through the informer.
patchCheckpoint(c) ==
    /\ cp' = c
    /\ IF setting.stale THEN UNCHANGED <<seen, queued>> ELSE seen' = c /\ queued' = TRUE

updateTGBCheckPoint(new, old) ==
    IF new = old THEN UNCHANGED <<cp, seen, queued>> ELSE patchCheckpoint(new)

\* The ELB side of RegisterTargets and DeregisterTargets for a set of targets.
registered(ts) ==
    [t \in AllTargets |-> IF t \in ts /\ elb[t] \notin {"initial", "healthy"}
                          THEN "initial" ELSE elb[t]]
deregistered(ts) ==
    [t \in AllTargets |-> IF t \in ts /\ elb[t] # "absent" THEN "draining" ELSE elb[t]]

\* Without targets no call is made; otherwise the target group must be there.
Answered(ts) == ts = {} \/ tg

recordSuccessfulRegister(ts) ==
    cache' = IF cache = None THEN None
             ELSE [t \in AllTargets |-> IF t \in ts THEN "nil" ELSE cache[t]]

recordSuccessfulDeregister(ts) ==
    cache' = IF cache = None THEN None
             ELSE [t \in AllTargets |-> IF t \in ts /\ cache[t] # "absent"
                                        THEN "nil" ELSE cache[t]]

\* The config map is written first, its in-memory copy after.
persistConfigMap(ts) == cm' = ts /\ cmCache' = ts

updateTrackedTargets(requested) ==
    IF MultiCluster /\ (requested \/ cmCache = None)
    THEN persistConfigMap(AddrsOf(run.ep))
    ELSE UNCHANGED <<cm, cmCache>>

Goto(label) == pc' = label

-----------------------------------------------------------------------------
(***************************************************************************)
(* The worker.  Each action is the code between two calls that leave the   *)
(* process, and the call it ends in.                                       *)
(***************************************************************************)
Start_noFinalizer ==
    /\ pc = "idle" /\ queued /\ tgb # "gone"
    /\ queued' = FALSE
    /\ run' = [Idle EXCEPT !.mode = IF tgb = "present" THEN "reconcile" ELSE "delete",
                           !.old = seen]
    /\ Goto(IF tgb = "present" THEN "resolve" ELSE "cleanList")
    /\ UNCHANGED <<svc, eps, gate, tgb, fin, cp, seen, elb, cache, cm, cmCache, deferr, bounds>>

\* The controller takes the binding off its queue and reads it from the
\* informer; a binding that is not being deleted gets its finalizer.
Start ==
    /\ pc = "idle" /\ queued /\ tgb # "gone"
    /\ queued' = FALSE
    /\ run' = [Idle EXCEPT !.mode = IF tgb = "present" THEN "reconcile" ELSE "delete",
                           !.old = seen]
    /\ IF tgb = "present"
       THEN fin' = TRUE /\ Goto("resolve")
       ELSE UNCHANGED fin /\ Goto("cleanList")
    /\ UNCHANGED <<svc, eps, gate, tgb, cp, seen, elb, cache, cm, cmCache, deferr, bounds>>

\* The service, or its port, is gone: the reconcile cleans up.
ResolveNotFound ==
    /\ pc = "resolve" /\ ~svc
    /\ run' = [run EXCEPT !.mode = "notfound"]
    /\ Goto("cleanList")
    /\ UNCHANGED <<env, gate, cp, seen, elb, cache, cm, cmCache, deferr, queued, bounds>>

Defer_noEnqueue ==
    /\ pc = "resolve" /\ svc
    /\ run.old = eps /\ ~needReadinessGateFlip(eps)
    /\ processed' = TRUE
    /\ Goto("idle") /\ run' = Idle
    /\ UNCHANGED <<env, gate, cp, seen, elb, cache, cm, cmCache, delayed, queued, bounds>>

\* The checkpoint matches and no gate is pending: nothing is reconciled, and the
\* binding is left to the deferred reconciler unless it was processed recently.
Defer ==
    /\ pc = "resolve" /\ svc
    /\ run.old = eps /\ ~needReadinessGateFlip(eps)
    /\ IF processed THEN UNCHANGED deferr ELSE processed' = TRUE /\ delayed' = TRUE
    /\ Goto("idle") /\ run' = Idle
    /\ UNCHANGED <<env, gate, cp, seen, elb, cache, cm, cmCache, queued, bounds>>

Resolve ==
    /\ pc = "resolve" /\ svc
    /\ run.old # eps \/ needReadinessGateFlip(eps)
    /\ run' = [run EXCEPT !.ep = eps]
    /\ Goto("list")
    /\ UNCHANGED <<env, gate, cp, seen, elb, cache, cm, cmCache, deferr, queued, bounds>>

ListTargets(at, then) ==
    /\ pc = at /\ (~asks \/ tg)
    /\ cache' = listed
    /\ run' = [run EXCEPT !.ts = listed]
    /\ Goto(then)
    /\ UNCHANGED <<env, gate, cp, seen, elb, cm, cmCache, deferr, queued, bounds>>

\* Networking rules failed: the IP flow goes on and asks for another run, the
\* instance flow gives up (ReconcileFails).
NetworkFails ==
    /\ pc = "reset" /\ TargetType = "ip" /\ ~run.net
    /\ faults < setting.faults
    /\ faults' = faults + 1
    /\ run' = [run EXCEPT !.net = TRUE]
    /\ UNCHANGED <<env, gate, cp, seen, elb, cache, cm, cmCache, deferr, queued, pc, changes>>

willChange == \/ unmatchedEndpoints # {} \/ unmatchedTargets # {}
              \/ run.net \/ preflightNeedFurtherProbe

ResetCheckpoint_never ==
    /\ pc = "reset"
    /\ UNCHANGED <<cp, seen, queued>>
    /\ Goto("deregister")
    /\ UNCHANGED <<env, gate, elb, cache, cm, cmCache, deferr, run, bounds>>

\* The checkpoint is emptied before anything is changed.
ResetCheckpoint ==
    /\ pc = "reset"
    /\ IF willChange THEN updateTGBCheckPoint(None, run.old)
                     ELSE UNCHANGED <<cp, seen, queued>>
    /\ Goto("deregister")
    /\ UNCHANGED <<env, gate, elb, cache, cm, cmCache, deferr, run, bounds>>

Deregister ==
    /\ pc = "deregister"
    /\ IF unmatchedTargets = {}
       THEN UNCHANGED <<elb, cache, cmCache, run>>
       ELSE LET ts == FilterTargetsForDeregistration(unmatchedTargets) IN
            /\ Answered(ts)
            /\ loadConfigMap
            /\ elb' = deregistered(ts)
            /\ recordSuccessfulDeregister(ts)
            /\ run' = [run EXCEPT !.upd = ts # {} \/ (MultiCluster /\ trackedTargets = None)]
    /\ Goto("track")
    /\ UNCHANGED <<env, gate, cp, seen, cm, deferr, queued, bounds>>

\* The tracked targets are written before new ones are registered.
TrackBefore ==
    /\ pc = "track"
    /\ IF unmatchedEndpoints = {}
       THEN UNCHANGED <<cm, cmCache, run>> /\ Goto("trackAfter")
       ELSE /\ updateTrackedTargets(TRUE)
            /\ run' = [run EXCEPT !.upd = FALSE]
            /\ Goto("register")
    /\ UNCHANGED <<env, gate, cp, seen, elb, cache, deferr, queued, bounds>>

Register ==
    /\ pc = "register" /\ eligible >= 0
    /\ \E ps \in SUBSET unmatchedEndpoints :
         /\ Cardinality(ps) = eligible /\ Answered(ps)
         /\ elb' = registered(AddrsOf(ps))
         /\ recordSuccessfulRegister(AddrsOf(ps))
         /\ run' = [run EXCEPT !.reg = ps]
    /\ Goto("trackAfter")
    /\ UNCHANGED <<env, gate, cp, seen, cm, cmCache, deferr, queued, bounds>>

TrackAfter ==
    /\ pc = "trackAfter"
    /\ updateTrackedTargets(run.upd)
    /\ Goto("gates")
    /\ UNCHANGED <<env, gate, cp, seen, elb, cache, deferr, queued, run, bounds>>

\* The gate of every matched and every newly registered pod follows its target.
gateOf(p) == calculateReadinessGateTransition(IF p \in matched THEN run.ts[Addr[p]] ELSE "initial")

anyPodNeedFurtherProbe == \E p \in (matched \cup run.reg) \cap GatedPods : gateOf(p) # "true"

UpdateGates ==
    /\ pc = "gates"
    /\ gate' = [p \in Pods |-> IF p \in (matched \cup run.reg) \cap GatedPods THEN gateOf(p) ELSE gate[p]]
    /\ IF anyPodNeedFurtherProbe \/ run.net
       THEN queued' = TRUE /\ Goto("idle") /\ run' = Idle
       ELSE UNCHANGED <<queued, run>> /\ Goto("save")
    /\ UNCHANGED <<env, cp, seen, elb, cache, cm, cmCache, deferr, bounds>>

\* The reconcile succeeded: the checkpoint is saved and the binding marked.
SaveCheckpoint ==
    /\ pc = "save"
    /\ updateTGBCheckPoint(IF run.mode = "notfound" THEN None ELSE run.ep, run.old)
    /\ processed' = TRUE
    /\ Goto("idle") /\ run' = Idle
    /\ UNCHANGED <<env, gate, elb, cache, cm, cmCache, delayed, bounds>>

\* Cleanup: every target this binding may deregister goes, then the config map,
\* then the networking rules, and at last the gates are opened.
CleanDeregister ==
    /\ pc = "cleanDeregister"
    /\ LET ts == FilterTargetsForDeregistration({t \in AllTargets : run.ts[t] # "absent"}) IN
         /\ Answered(ts)
         /\ elb' = deregistered(ts)
         /\ recordSuccessfulDeregister(ts)
    /\ loadConfigMap
    /\ Goto("cleanMap")
    /\ UNCHANGED <<env, gate, cp, seen, cm, deferr, queued, run, bounds>>

\* cleanupTargets takes it for success that the target group is not found, when it
\* lists the targets and when it deregisters them.
CleanNotFound ==
    /\ ~tg
    /\ \/ pc = "cleanList" /\ asks /\ UNCHANGED cmCache
       \/ pc = "cleanDeregister" /\ loadConfigMap
          /\ FilterTargetsForDeregistration({t \in AllTargets : run.ts[t] # "absent"}) # {}
    /\ Goto("cleanMap")
    /\ UNCHANGED <<env, gate, cp, seen, elb, cache, cm, deferr, queued, run, bounds>>

CleanMap ==
    /\ pc = "cleanMap"
    /\ cmCache' = None
    /\ cm' = IF MultiCluster THEN None ELSE cm
    /\ Goto("cleanPods")
    /\ UNCHANGED <<env, gate, cp, seen, elb, cache, deferr, queued, run, bounds>>

CleanPods ==
    /\ pc = "cleanPods"
    /\ gate' = [p \in Pods |-> IF p \in GatedPods THEN "true" ELSE gate[p]]
    /\ Goto(IF run.mode = "delete" THEN "unfinalize" ELSE "save")
    /\ UNCHANGED <<env, cp, seen, elb, cache, cm, cmCache, deferr, queued, run, bounds>>

Unfinalize ==
    /\ pc = "unfinalize"
    /\ fin' = FALSE /\ tgb' = "gone"
    /\ Goto("idle") /\ run' = Idle
    /\ UNCHANGED <<svc, eps, gate, cp, seen, elb, cache, cm, cmCache, deferr, queued, bounds>>

-----------------------------------------------------------------------------
(***************************************************************************)
(* Failures.  A failed run is put back on the queue.                       *)
(***************************************************************************)
Fail ==
    /\ faults < setting.faults
    /\ faults' = faults + 1
    /\ Goto("idle") /\ run' = Idle
    /\ queued' = TRUE
    /\ UNCHANGED <<env, cp, seen, deferr, changes>>

\* A run that fails whenever it gets here: the target group is not found, or the
\* endpoints are sliced with a negative number (the panic is recovered as an error).
RunFails ==
    /\ \/ pc = "list" /\ ~tg /\ asks /\ UNCHANGED cmCache
       \/ pc = "deregister" /\ ~tg /\ loadConfigMap
          /\ FilterTargetsForDeregistration(unmatchedTargets) # {}
       \/ pc = "register" /\ ~tg /\ eligible > 0 /\ UNCHANGED cmCache
       \/ pc = "register" /\ eligible < 0 /\ UNCHANGED cmCache
    /\ Goto("idle") /\ run' = Idle
    /\ queued' = TRUE
    /\ UNCHANGED <<env, gate, cp, seen, elb, cache, cm, deferr, bounds>>

\* A call fails without effect.
ReconcileFails ==
    /\ pc # "idle"
    /\ Fail
    /\ cmCache' = IF pc = "cleanMap" THEN None ELSE cmCache
    /\ UNCHANGED <<gate, elb, cache, cm>>

\* Targets are sent in chunks: those of `done' were, and were recorded; those of
\* `lost' took effect although the call returned an error.
RegisterFails(done, lost) ==
    /\ pc = "register" /\ tg /\ done \cup lost # {}
    /\ done \cup lost \subseteq AddrsOf(unmatchedEndpoints) /\ done \cap lost = {}
    /\ Cardinality(done \cup lost) <= eligible
    /\ lost = {} => Cardinality(done) < eligible
    /\ elb' = registered(done \cup lost)
    /\ recordSuccessfulRegister(done)
    /\ Fail
    /\ UNCHANGED <<gate, cm, cmCache>>

deregistering ==
    IF pc = "deregister" THEN unmatchedTargets
    ELSE {t \in AllTargets : run.ts[t] # "absent"}

DeregisterFails(done, lost) ==
    /\ pc \in {"deregister", "cleanDeregister"} /\ tg /\ done \cup lost # {}
    /\ done \cup lost \subseteq FilterTargetsForDeregistration(deregistering)
    /\ done \cap lost = {}
    /\ lost = {} => done # FilterTargetsForDeregistration(deregistering)
    /\ elb' = deregistered(done \cup lost)
    /\ recordSuccessfulDeregister(done)
    /\ loadConfigMap
    /\ Fail
    /\ UNCHANGED <<gate, cm>>

\* cleanupTargets takes it for success, too, that ELB finds a call invalid: the
\* listing, or the deregistration after the chunks of `done'.  The clean-up goes on
\* with the other targets still registered.
CleanRefused(done) ==
    /\ setting.invalid /\ tg
    /\ faults < setting.faults /\ faults' = faults + 1
    /\ \/ pc = "cleanList" /\ asks /\ done = {} /\ UNCHANGED <<elb, cache, cmCache>>
       \/ /\ pc = "cleanDeregister"
          /\ done \subseteq FilterTargetsForDeregistration(deregistering)
          /\ done # FilterTargetsForDeregistration(deregistering)
          /\ elb' = deregistered(done)
          /\ recordSuccessfulDeregister(done)
          /\ loadConfigMap
    /\ left' = left \cup (FilterTargetsForDeregistration(Registered) \ done)
    /\ Goto("cleanMap")
    /\ UNCHANGED <<setting, env, gate, cp, seen, tg, cm, deferr, queued, run, changes>>

\* Some pod patches went through before one failed.
GatesFail(ps) ==
    /\ pc = "gates" /\ ps \subseteq (matched \cup run.reg) \cap GatedPods /\ ps # {}
    /\ gate' = [p \in Pods |-> IF p \in ps THEN gateOf(p) ELSE gate[p]]
    /\ Fail
    /\ UNCHANGED <<elb, cache, cm, cmCache>>

\* The controller restarts: everything in memory is lost, and the informer lists
\* every binding again.
Restart ==
    /\ faults < setting.faults
    /\ faults' = faults + 1
    /\ Goto("idle") /\ run' = Idle
    /\ queued' = TRUE /\ seen' = cp
    /\ cache' = None /\ cmCache' = None
    /\ delayed' = FALSE /\ processed' = FALSE
    /\ UNCHANGED <<env, gate, cp, elb, cm, changes>>

-----------------------------------------------------------------------------
(***************************************************************************)
(* The environment.                                                        *)
(***************************************************************************)
Change == changes < setting.changes /\ changes' = changes + 1 /\ queued' = TRUE

Rest == <<gate, cp, seen, cache, cm, cmCache, delayed, processed, pc, run, faults>>

\* Pods start, stop, become unready or are replaced.
ChangeEndpoints ==
    /\ Change
    /\ eps' \in EndpointSets \ {eps}
    /\ UNCHANGED <<Rest, svc, tgb, fin, elb>>

ChangeService ==
    /\ Change /\ setting.service
    /\ svc' = ~svc
    /\ UNCHANGED <<Rest, eps, tgb, fin, elb>>

DeleteBinding ==
    /\ Change /\ tgb = "present"
    /\ tgb' = IF fin THEN "deleting" ELSE "gone"
    /\ UNCHANGED <<Rest, svc, eps, fin, elb>>

\* Nobody tells the controller of this one.
DeleteTargetGroup ==
    /\ setting.owner /\ tg
    /\ tg' = FALSE /\ elb' = NoTargets
    /\ UNCHANGED <<Rest, setting, env, left, queued, changes>>

\* A target passes its health checks, or finishes draining.
HealthProgress(t) ==
    /\ elb[t] \in {"initial", "draining"}
    /\ elb' = [elb EXCEPT ![t] = IF @ = "initial" THEN "healthy" ELSE "absent"]
    /\ UNCHANGED <<Rest, env, queued, changes>>

\* A healthy target stops answering; nobody tells the controller.
TargetFails(t) ==
    /\ elb[t] = "healthy"
    /\ changes < setting.changes /\ changes' = changes + 1
    /\ elb' = [elb EXCEPT ![t] = "initial"]
    /\ UNCHANGED <<Rest, env, queued>>

CacheExpires ==
    /\ cache # None
    /\ cache' = None
    /\ UNCHANGED <<env, gate, cp, seen, elb, cm, cmCache, deferr, queued, pc, run, bounds>>

ProcessedExpires ==
    /\ processed
    /\ processed' = FALSE
    /\ UNCHANGED <<env, gate, cp, seen, elb, cache, cm, cmCache, delayed, queued, pc, run, bounds>>

\* The deferred reconciler resets the checkpoint of a binding that still exists.
\* The patch is the difference to the copy it read: where that copy had no
\* checkpoint, only the timestamp beside it is written.
handleDeferredItem ==
    /\ delayed
    /\ delayed' = FALSE
    /\ CASE tgb = "gone" -> UNCHANGED <<cp, seen, queued>>
         [] tgb # "gone" /\ seen = None -> queued' = TRUE /\ UNCHANGED <<cp, seen>>
         [] tgb # "gone" /\ seen # None -> patchCheckpoint(None)
    /\ UNCHANGED <<env, gate, elb, cache, cm, cmCache, processed, pc, run, bounds>>

\* It keeps the item when the patch fails.
handleDeferredItemError ==
    /\ delayed /\ tgb # "gone"
    /\ faults < setting.faults
    /\ faults' = faults + 1
    /\ processed' = TRUE
    /\ UNCHANGED <<env, gate, cp, seen, elb, cache, cm, cmCache, delayed, queued, pc, run, changes>>

InformerSync ==
    /\ seen # cp
    /\ seen' = cp /\ queued' = TRUE
    /\ UNCHANGED <<env, gate, cp, elb, cache, cm, cmCache, deferr, pc, run, bounds>>

\* The informers' periodic resync.
Resync ==
    /\ ~queued /\ tgb # "gone"
    /\ queued' = TRUE
    /\ UNCHANGED <<env, gate, cp, seen, elb, cache, cm, cmCache, deferr, pc, run, bounds>>

-----------------------------------------------------------------------------
Worker ==
    \/ Start \/ ResolveNotFound \/ Defer \/ Resolve
    \/ ListTargets("list", "reset") \/ ResetCheckpoint \/ Deregister
    \/ TrackBefore \/ Register \/ TrackAfter \/ UpdateGates \/ SaveCheckpoint
    \/ ListTargets("cleanList", "cleanDeregister") \/ CleanDeregister
    \/ CleanNotFound \/ CleanMap \/ CleanPods \/ Unfinalize \/ RunFails

LostSets == IF setting.lost THEN SUBSET Targets ELSE {{}}

Failures ==
    \/ NetworkFails \/ ReconcileFails \/ Restart \/ handleDeferredItemError
    \/ \E done \in SUBSET Targets, lost \in LostSets :
         RegisterFails(done, lost) \/ DeregisterFails(done, lost)
    \/ \E ps \in SUBSET GatedPods : GatesFail(ps)

Environment ==
    \/ ChangeEndpoints \/ ChangeService \/ DeleteBinding
    \/ \E t \in Targets : HealthProgress(t) \/ TargetFails(t)
    \/ CacheExpires \/ ProcessedExpires \/ handleDeferredItem
    \/ InformerSync \/ Resync

Fixed(A) == A /\ UNCHANGED <<setting, tg, left>>

Next ==
    \/ Fixed(Worker) \/ Fixed(Failures) \/ Fixed(Environment)
    \/ DeleteTargetGroup
    \/ \E done \in SUBSET Targets : CleanRefused(done)

Spec == Init /\ [][Next]_vars

\* The work queue hands out what is queued and a worker runs to its end; ELB
\* finishes health checks and draining; cached entries expire, delayed items are
\* delivered, the informer catches up and resyncs.
Fairness ==
    /\ WF_vars(Fixed(Worker))
    /\ \A t \in Targets : WF_vars(Fixed(HealthProgress(t)))
    /\ WF_vars(Fixed(CacheExpires)) /\ WF_vars(Fixed(ProcessedExpires))
    /\ WF_vars(Fixed(handleDeferredItem))
    /\ WF_vars(Fixed(InformerSync)) /\ WF_vars(Fixed(Resync))

FairSpec == Spec /\ Fairness

-----------------------------------------------------------------------------
(***************************************************************************)
(* Properties.                                                             *)
(***************************************************************************)
\* Between runs, a checkpoint that matches the endpoints, the one state in which
\* reconcileWithIPTargetType returns without looking at the target group, is only
\* there when every endpoint is registered (with a limit, as many as fit) and
\* nothing else of ours is.
CheckpointMatches ==
    pc = "idle" /\ tgb = "present" /\ svc /\ tg /\ cp # None /\ cp = eps
        => /\ Registered \subseteq AddrsOf(eps)
           /\ MaxTargets = 0 => Registered = AddrsOf(eps)

\* The same where the service stays, the informer keeps up and a call that reports
\* an error had no effect.  The exceptions: the clean-up for a missing service; a
\* reset that trusts a stale copy; a target that was registered by a call that
\* reported an error, so that the cached manager does not list it, and whose pod
\* is gone when the next run saves its checkpoint.
CheckpointSound ==
    ~setting.stale /\ ~setting.service /\ ~setting.lost => CheckpointMatches

\* No step of the controller takes a target of another cluster out of a shared
\* target group (FilterTargetsForDeregistration).
ForeignUntouched ==
    [][\A f \in Foreign : elb[f] = "healthy" /\ tg' => elb'[f] = "healthy"]_vars

\* The finalizer is only removed once none of our targets is registered any more,
\* and a binding that never had it never registered one.  The clean-up relies on
\* the config map for a shared target group: every target this cluster has
\* registered in it is there, so a later run (or a later process) may deregister
\* it.  cleanupTargets makes one exception, and no more than that one: targets for
\* which ELB refused its calls as invalid stay registered.  The rest does not hold
\* where a call may take effect and report an error.
CleanedUp ==
    ~setting.lost =>
        /\ tgb = "gone" => Registered \subseteq left
        /\ MultiCluster => Registered \subseteq left \cup (IF cm = None THEN {} ELSE cm)

\* In a shared target group nothing takes out what a refused clean-up left, as the
\* config map is gone; one that is not shared is listed again.
Stranded == IF MultiCluster THEN left ELSE {}

InGroup == {t \in AllTargets : elb[t] # "absent"}

\* The target group is what the service, its endpoints and the binding ask for.
Settled ==
    \/ tgb = "gone"
    \/ tgb = "present" /\ ~tg
    \/ /\ tgb = "present" /\ ~svc
       /\ Registered \subseteq Stranded
    \/ /\ tgb = "present" /\ svc
       /\ Registered \subseteq AddrsOf(eps) \cup Stranded
       /\ ~(AddrsOf(eps) \subseteq Registered) => MaxTargets # 0 /\ Cardinality(InGroup) >= MaxTargets
       /\ Registered # {} /\ MaxTargets # 0 => Cardinality(InGroup) <= MaxTargets
       /\ \A p \in eps \cap GatedPods : gate[p] = "true"

\* Once the service, its endpoints and the binding stop changing, the target group
\* becomes and stays what they ask for (up to its limit of targets) and every
\* readiness gate opens, whatever failed before: skipped runs and cached targets
\* only delay it, and with a target group already over its limit (the panic in
\* getMaxNewTargets' callers) what does not belong there is still taken out.  A
\* binding being deleted gets rid of its finalizer, also when its target group was
\* deleted before it (what is left then is CleanedUp's subject).
EventuallySettled == <>[]Settled
=============================================================================
