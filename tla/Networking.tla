----------------------------- MODULE Networking -----------------------------
(***************************************************************************)
(* The inbound rules of the endpoint security groups:                      *)
(* pkg/networking/networking_manager.go, security_group_reconciler.go and  *)
(* security_group_manager.go.                                              *)
(*                                                                         *)
(* Every TargetGroupBinding (TGB) with networking needs its load balancer  *)
(* to reach some ports of its endpoints' security groups.  Its reconcile   *)
(* computes that need, then, under a mutex shared by all TGBs, merges it   *)
(* with what the manager remembers of the others and makes every security  *)
(* group grant just the sum.  What is remembered is lost when the process  *)
(* restarts, so rules are only revoked once every TGB has been computed.   *)
(*                                                                         *)
(* A rule is a port range, and is ours if its description carries our      *)
(* label.  All rules have the load balancers' security group as source.    *)
(***************************************************************************)
EXTENDS Integers, FiniteSetsExt

CONSTANTS
    TGBs,
    Initial,     \* those that exist when the process starts
    SGs,         \* endpoint security groups
    Tagged,      \* those with the cluster tag
    Ports,
    Needs,       \* what endpoints may need: functions from SGs to sets of ports
    Foreign,     \* rules that are not ours, per security group
    Settings,    \* the configurations: see below
    None,
    MaxChanges   \* bound: changes of TGBs and endpoints

\* A setting is [restricted, multi, lost : BOOLEAN, limit, faults, restarts : Nat]:
\* one range per security group or one rule per port; endpoints with several
\* security groups, to be looked up; answers of EC2 may be lost; rules per
\* security group; bounds on the calls that fail and on restarts of the process.

MaxPort == 65535
Rules == [lo : Ports, hi : Ports, ours : BOOLEAN]
PerSG == [SGs -> SUBSET Ports]

\* What the rules stand for: EC2 has no two rules of one security group with the
\* same ports and source.
ConstantsAssumption ==
    /\ Ports \subseteq 0 .. MaxPort
    /\ Needs \subseteq PerSG
    /\ Initial \subseteq TGBs /\ Tagged \subseteq SGs
    /\ Foreign \in [SGs -> SUBSET Rules]
    /\ \A s \in SGs : \A r, q \in Foreign[s] : r.lo = q.lo /\ r.hi = q.hi => r = q
    /\ "gc" \notin TGBs \cup {None}
    /\ None \notin TGBs \cup SGs /\ None \notin PerSG /\ \A rs \in SUBSET Rules : rs # None

VARIABLES
    setting,
    tgb,         \* per TGB: "absent", "present" or "deleting"
    need,        \* per TGB: what its endpoints need now
    queued,      \* TGBs in the work queue
    aws,         \* per security group: its rules
    run,         \* per TGB: "idle", "lookup", or waiting for or holding the mutex:
                 \* "ready", or "cleanup" if the TGB is being deleted
    comp,        \* per TGB: the need its run has computed
    snap,        \* per TGB: security groups described and not yet cached
    permsByTGB,  \* ingressPermissionsPerSGByTGB, None where there is no entry
    tracked,     \* trackedEndpointSGs
    initialized, \* trackedEndpointSGsInitialized
    cache,       \* sgInfoCache
    sect,        \* the critical section: NoSection or the record of Lock
    granted,     \* history: TGBs whose current need was reconciled without an error
    changes, faults, restarts

memory == <<permsByTGB, tracked, initialized>>
bounds == <<changes, faults, restarts>>
vars == <<setting, tgb, need, queued, aws, run, comp, snap, memory, cache, sect, granted, bounds>>

Zero == [s \in SGs |-> {}]
NoSnap == [s \in SGs |-> None]
NoSection == [tgb |-> None, all |-> FALSE, todo |-> {}, gc |-> FALSE, failed |-> FALSE,
              sg |-> None, retry |-> FALSE, revokeFirst |-> FALSE, info |-> {}, granted |-> FALSE, revoked |-> FALSE]
Exists == {t \in TGBs : tgb[t] # "absent"}

Init ==
    /\ setting \in Settings
    /\ tgb = [t \in TGBs |-> IF t \in Initial THEN "present" ELSE "absent"]
    /\ need \in [TGBs -> Needs \cup {Zero}]
    /\ \A t \in TGBs : need[t] = Zero <=> t \notin Initial
    /\ queued = Initial
    /\ aws = Foreign
    /\ run = [t \in TGBs |-> "idle"]
    /\ comp = [t \in TGBs |-> Zero]
    /\ snap = [t \in TGBs |-> NoSnap]
    /\ permsByTGB = [t \in TGBs |-> None]
    /\ tracked = {} /\ initialized = FALSE
    /\ cache = [s \in SGs |-> None]
    /\ sect = NoSection
    /\ granted = {}
    /\ changes = 0 /\ faults = 0 /\ restarts = 0

----------------------------------------------------------------------------
(* Rules. *)

HashCode(r) == <<r.lo, r.hi>>
\* diffIPPermissionInfos
Diff(source, target) == {r \in source : \A q \in target : HashCode(q) # HashCode(r)}
Covers(rules, p) == \E r \in rules : r.lo <= p /\ p <= r.hi
Rule(lo, hi) == [lo |-> lo, hi |-> hi, ours |-> TRUE]

computeRestricted(ports) == IF ports = {} THEN {} ELSE {Rule(Min(ports), Max(ports))}
computeUnrestricted(ports) == {Rule(p, p) : p \in ports}

\* computeAggregatedIngressPermissionsPerSG
Remembered == {t \in TGBs : permsByTGB[t] # None}
PortsFor(s) == UNION {permsByTGB[t][s] : t \in Remembered}
Aggregated(s) ==
    IF setting.restricted THEN computeRestricted(PortsFor(s)) ELSE computeUnrestricted(PortsFor(s))
UsedSGs == {s \in SGs : PortsFor(s) # {}}

----------------------------------------------------------------------------
(* A run up to the mutex. *)

Start(t) ==
    /\ run[t] = "idle" /\ t \in queued /\ tgb[t] # "absent"
    /\ queued' = queued \ {t}
    /\ comp' = [comp EXCEPT ![t] = IF tgb[t] = "deleting" THEN Zero ELSE need[t]]
    /\ LET unFetched == {s \in SGs : comp'[t][s] # {} /\ cache[s] = None}
       IN  IF setting.multi /\ unFetched # {}
           THEN /\ snap' = [snap EXCEPT ![t] = [s \in SGs |-> IF s \in unFetched THEN aws[s] ELSE None]]
                /\ run' = [run EXCEPT ![t] = "lookup"]
           ELSE /\ run' = [run EXCEPT ![t] = IF tgb[t] = "deleting" THEN "cleanup" ELSE "ready"]
                /\ UNCHANGED snap
    /\ UNCHANGED <<setting, tgb, need, aws, memory, cache, sect, granted, bounds>>

\* resolveEndpointSGForENI has described the groups of an ENI; the answer is
\* saved to the cache when it arrives.
SaveSGInfosToCache(t) ==
    /\ run[t] = "lookup"
    /\ cache' = [s \in SGs |-> IF snap[t][s] # None THEN snap[t][s] ELSE cache[s]]
    /\ snap' = [snap EXCEPT ![t] = NoSnap]
    /\ run' = [run EXCEPT ![t] = "ready"]
    /\ UNCHANGED <<setting, tgb, need, queued, aws, comp, memory, sect, granted, bounds>>

Fault == faults < setting.faults /\ faults' = faults + 1 /\ UNCHANGED <<changes, restarts>>

\* The endpoints cannot be resolved: the TGB is queued again.
ResolveFails(t) ==
    /\ run[t] = "lookup"
    /\ Fault
    /\ run' = [run EXCEPT ![t] = "idle"]
    /\ snap' = [snap EXCEPT ![t] = NoSnap]
    /\ comp' = [comp EXCEPT ![t] = Zero]
    /\ queued' = queued \cup {t}
    /\ UNCHANGED <<setting, tgb, need, aws, memory, cache, sect, granted>>

----------------------------------------------------------------------------
(* The critical section: reconcileWithIngressPermissionsPerSG. *)

\* consolidateIngressPermissionsPerSGByTGB
Consolidate(perms) == [t \in TGBs |-> IF t \in Exists THEN perms[t] ELSE None]
\* Mutant: rules are revoked although not every TGB has been computed.
ComputedForAll_any(perms) == \E t \in Exists : perms[t] # None
ComputedForAll(perms) == \A t \in Exists : perms[t] # None

Lock(t) ==
    /\ run[t] \in {"ready", "cleanup"} /\ sect.tgb = None
    /\ permsByTGB' = Consolidate([permsByTGB EXCEPT ![t] = comp[t]])
    /\ tracked' = tracked \cup {s \in SGs : comp[t][s] # {}}
    /\ sect' = [NoSection EXCEPT !.tgb = t, !.all = ComputedForAll(permsByTGB'), !.todo = UsedSGs']
    /\ UNCHANGED <<setting, tgb, need, queued, aws, run, comp, snap, initialized, cache, granted, bounds>>

Desired(s) == IF sect.gc THEN {} ELSE Aggregated(s)

\* ReconcileIngress: FetchSGInfosByID, from the cache unless this is the retry.
Fetch(s) ==
    /\ sect.tgb # None /\ sect.sg = None /\ s \in sect.todo
    /\ sect' = [sect EXCEPT !.sg = s, !.info = IF cache[s] # None THEN cache[s] ELSE aws[s]]
    /\ cache' = [cache EXCEPT ![s] = sect'.info]
    /\ UNCHANGED <<setting, tgb, need, queued, aws, run, comp, snap, memory, granted, bounds>>

ToGrant == IF sect.granted THEN {} ELSE Diff(Desired(sect.sg), sect.info)
\* Only rules with our label, and none at all with WithAuthorizeOnly.
ToRevoke ==
    IF sect.revoked \/ ~(sect.all \/ sect.gc) THEN {}
    ELSE {r \in Diff(sect.info, Desired(sect.sg)) : r.ours}

\* Rules are granted before others are revoked, unless the limit forced a retry.
GrantTurn == sect.sg # None /\ ToGrant # {} /\ (sect.revokeFirst => ToRevoke = {})
RevokeTurn == sect.sg # None /\ ToRevoke # {} /\ (sect.revokeFirst \/ ToGrant = {})

Duplicate == \E r \in ToGrant, q \in aws[sect.sg] : HashCode(r) = HashCode(q)
NotFound == Diff(ToRevoke, aws[sect.sg]) # {}
TooMany == ~Duplicate /\ Cardinality(aws[sect.sg] \cup ToGrant) > setting.limit

AuthorizeSGIngress ==
    /\ GrantTurn /\ ~Duplicate /\ ~TooMany
    /\ aws' = [aws EXCEPT ![sect.sg] = @ \cup ToGrant]
    /\ cache' = [cache EXCEPT ![sect.sg] = None]
    /\ sect' = [sect EXCEPT !.granted = TRUE]
    /\ UNCHANGED <<setting, tgb, need, queued, run, comp, snap, memory, granted, bounds>>

RevokeSGIngress ==
    /\ RevokeTurn /\ ~NotFound
    /\ aws' = [aws EXCEPT ![sect.sg] = Diff(@, ToRevoke)]
    /\ cache' = [cache EXCEPT ![sect.sg] = None]
    /\ sect' = [sect EXCEPT !.revoked = TRUE]
    /\ UNCHANGED <<setting, tgb, need, queued, run, comp, snap, memory, granted, bounds>>

\* The next security group, this one done or given up.
NextSG(failed) ==
    [NoSection EXCEPT !.tgb = sect.tgb, !.all = sect.all, !.gc = sect.gc,
                      !.todo = IF sect.gc /\ failed THEN {} ELSE sect.todo \ {sect.sg},
                      !.failed = sect.failed \/ failed]

SGDone ==
    /\ sect.sg # None /\ ToGrant = {} /\ ToRevoke = {}
    /\ sect' = NextSG(FALSE)
    /\ UNCHANGED <<setting, tgb, need, queued, aws, run, comp, snap, memory, cache, granted, bounds>>

\* shouldRetryWithoutCache: once more with what EC2 has; shouldRemoveSGRulesFirst.
Refused(limit) ==
    /\ sect' = IF sect.retry THEN NextSG(TRUE)
               ELSE [sect EXCEPT !.retry = TRUE, !.revokeFirst = limit, !.info = aws[sect.sg],
                                 !.granted = FALSE, !.revoked = FALSE]
    /\ cache' = IF sect.retry THEN cache ELSE [cache EXCEPT ![sect.sg] = aws[sect.sg]]
    /\ UNCHANGED <<setting, tgb, need, queued, aws, run, comp, snap, memory, granted, bounds>>

RetryWithoutCache ==
    \/ GrantTurn /\ Duplicate /\ Refused(FALSE)
    \/ GrantTurn /\ TooMany /\ Refused(TRUE)
    \/ RevokeTurn /\ NotFound /\ Refused(FALSE)

\* Any other error, the call without effect or its answer lost.
CallFails ==
    /\ sect.sg # None /\ Fault
    /\ aws' \in {aws} \cup
          (IF setting.lost /\ GrantTurn /\ ~Duplicate /\ ~TooMany
           THEN {[aws EXCEPT ![sect.sg] = @ \cup ToGrant]} ELSE {}) \cup
          (IF setting.lost /\ RevokeTurn /\ ~NotFound
           THEN {[aws EXCEPT ![sect.sg] = Diff(@, ToRevoke)]} ELSE {})
    /\ sect' = NextSG(TRUE)
    /\ UNCHANGED <<setting, tgb, need, queued, run, comp, snap, memory, cache, granted>>

\* gcIngressPermissionsFromUnusedEndpointSGs: the tagged security groups are
\* listed once in the life of the process.
CollectGarbage ==
    /\ sect.tgb # None /\ sect.sg = None /\ sect.todo = {} /\ ~sect.gc /\ sect.all
    /\ tracked' = IF initialized THEN tracked ELSE tracked \cup Tagged
    /\ initialized' = TRUE
    /\ sect' = [sect EXCEPT !.gc = TRUE, !.todo = tracked' \ UsedSGs]
    /\ UNCHANGED <<setting, tgb, need, queued, aws, run, comp, snap, permsByTGB, cache, granted, bounds>>

\* The mutex is released.  The TGB of a clean-up goes if there was no error;
\* a run that failed is queued again.
Unlock ==
    /\ sect.tgb \in TGBs /\ sect.sg = None /\ sect.todo = {} /\ (sect.gc \/ ~sect.all)
    /\ LET t == sect.tgb
           gone == run[t] = "cleanup" /\ ~sect.failed
       IN  /\ run' = [run EXCEPT ![t] = "idle"]
           /\ comp' = [comp EXCEPT ![t] = Zero]
           /\ queued' = IF sect.failed THEN queued \cup {t} ELSE queued
           /\ tgb' = IF gone THEN [tgb EXCEPT ![t] = "absent"] ELSE tgb
           /\ granted' = IF ~sect.failed /\ tgb[t] = "present" /\ comp[t] = need[t] THEN granted \cup {t} ELSE granted
    /\ sect' = NoSection
    /\ UNCHANGED <<setting, need, aws, snap, memory, cache, bounds>>

\* AttemptGarbageCollection, called when a frontend security group cannot be
\* deleted because another one still refers to it.
AttemptGarbageCollection ==
    /\ sect.tgb = None
    /\ permsByTGB' = Consolidate(permsByTGB)
    /\ sect' = IF ComputedForAll(permsByTGB') THEN [NoSection EXCEPT !.tgb = "gc", !.all = TRUE] ELSE NoSection
    /\ UNCHANGED <<setting, tgb, need, queued, aws, run, comp, snap, tracked, initialized, cache, granted, bounds>>
UnlockGC ==
    /\ sect.tgb = "gc" /\ sect.gc /\ sect.sg = None /\ sect.todo = {}
    /\ sect' = NoSection
    /\ UNCHANGED <<setting, tgb, need, queued, aws, run, comp, snap, memory, cache, granted, bounds>>

----------------------------------------------------------------------------
(* The environment. *)

Change == changes < MaxChanges /\ changes' = changes + 1 /\ UNCHANGED <<faults, restarts>>

\* A TGB is created, or its endpoints change.
SetNeed(t, n) ==
    /\ Change
    /\ tgb[t] # "deleting" /\ (tgb[t] = "present" => n # need[t])
    /\ tgb' = [tgb EXCEPT ![t] = "present"]
    /\ need' = [need EXCEPT ![t] = n]
    /\ queued' = queued \cup {t}
    /\ granted' = granted \ {t}
    /\ UNCHANGED <<setting, aws, run, comp, snap, memory, cache, sect>>

DeleteTGB(t) ==
    /\ Change
    /\ tgb[t] = "present"
    /\ tgb' = [tgb EXCEPT ![t] = "deleting"]
    /\ queued' = queued \cup {t}
    /\ granted' = granted \ {t}
    /\ UNCHANGED <<setting, need, aws, run, comp, snap, memory, cache, sect>>

\* The entry of the cache outlives its 10 minutes (only seen when it is next read).
Expire(s) ==
    /\ cache[s] # None /\ sect.sg = None
    /\ cache' = [cache EXCEPT ![s] = None]
    /\ UNCHANGED <<setting, tgb, need, queued, aws, run, comp, snap, memory, sect, granted, bounds>>

Restart ==
    /\ restarts < setting.restarts /\ restarts' = restarts + 1
    /\ permsByTGB' = [t \in TGBs |-> None]
    /\ tracked' = {} /\ initialized' = FALSE
    /\ cache' = [s \in SGs |-> None]
    /\ sect' = NoSection
    /\ run' = [t \in TGBs |-> "idle"]
    /\ snap' = [t \in TGBs |-> NoSnap]
    /\ comp' = [t \in TGBs |-> Zero]
    /\ queued' = Exists
    /\ UNCHANGED <<setting, tgb, need, aws, granted, changes, faults>>

InSection ==
    \/ \E s \in SGs : Fetch(s)
    \/ AuthorizeSGIngress \/ RevokeSGIngress \/ SGDone \/ RetryWithoutCache
    \/ CollectGarbage \/ Unlock \/ UnlockGC

Next ==
    \/ \E t \in TGBs : Start(t) \/ SaveSGInfosToCache(t) \/ ResolveFails(t) \/ Lock(t) \/ DeleteTGB(t)
    \/ \E t \in TGBs, n \in Needs : SetNeed(t, n)
    \/ InSection
    \/ CallFails
    \/ AttemptGarbageCollection
    \/ \E s \in SGs : Expire(s)
    \/ Restart

Spec == Init /\ [][Next]_vars

----------------------------------------------------------------------------
(* Properties. *)

\* Rules without our label, which a user made, are never revoked
\* (WithPermissionSelector).
ForeignKept == \A s \in SGs : {r \in Foreign[s] : ~r.ours} \subseteq aws[s]

\* No step closes a port of a TGB that is in service: one whose need has been
\* reconciled and has not changed.  In particular not the reconcile of another
\* TGB after a restart, when the manager remembers nothing of this one.  Not
\* so when the limit of the security group makes the reconciler revoke first,
\* nor when the cached security group is not what EC2 has.
TrustedCache == ~setting.lost /\ ~setting.multi
KeepsCoverage ==
    TrustedCache /\ ~sect.revokeFirst =>
        \A t \in granted \cap granted', s \in SGs : \A p \in need[t][s] :
            Covers(aws[s], p) => Covers(aws'[s], p)

\* "ReconcileIngress will reconcile Ingress permission on SecurityGroup to be
\* desiredPermission": when it returns without an error, the security group
\* has every desired rule.
SGReturns == sect.sg # None /\ ToGrant = {} /\ ToRevoke = {}
DesiredGranted == SGReturns => Diff(Desired(sect.sg), aws[sect.sg]) = {}
\* When ReconcileIngress returns without an error the security group has every
\* desired rule and, unless it was told to authorize only, no other rule of
\* ours.  So where the cached security group is what EC2 has.
Reconciled ==
    TrustedCache /\ SGReturns =>
        /\ DesiredGranted
        /\ sect.all => {r \in Diff(aws[sect.sg], Desired(sect.sg)) : r.ours} = {}

============================================================================
