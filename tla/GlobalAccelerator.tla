------------------------- MODULE GlobalAccelerator -------------------------
(***************************************************************************)
(* The AWS Global Accelerator controller: one GlobalAccelerator object,    *)
(* the reconciler that turns it into an accelerator with listeners,        *)
(* endpoint groups and endpoints, and the AWS service that accepts or      *)
(* refuses its calls.                                                      *)
(*                                                                         *)
(* A reconciliation reads the informer's copy of the object, loads the     *)
(* endpoints, builds the wanted model `d' and deploys it in stages: the    *)
(* accelerator, its listeners, the conflicting port overrides of existing  *)
(* endpoint groups, the endpoint groups of each listener, the status.      *)
(* Each stage lists what exists and plans its calls; the calls are then    *)
(* issued one by one, and any of them may fail or have its answer lost.    *)
(*                                                                         *)
(* Port ranges are sets of ports, each range being a single port.  A port  *)
(* override is a pair <<listener port, endpoint port>>.  A group's         *)
(* endpoints are a function from Endpoints to weights, None for absent.    *)
(***************************************************************************)
EXTENDS Integers, FiniteSets, SequencesExt

CONSTANTS
    None,
    Endpoints,      \* load balancers an endpoint can refer to
    Regions,
    ARNs,           \* accelerators AWS can create
    Listeners,      \* listeners AWS can create
    Settings,       \* specs: the specs the object goes through, in this order;
                    \* lbs: what the endpoints go through, endpoint -> the
                    \* <<protocol, port>>s to be found there, None: no load balancer;
                    \* limit: endpoints AWS allows in a group
    MaxFaults       \* failed calls, lost answers, crashes

VARIABLES
    setting,
    ga,         \* the object in the API server
    cache,      \* the informer's copy
    pending,    \* the object is in the work queue
    lbAt,       \* the endpoints' place in setting.lbs
    accs,       \* ARN -> accelerator, or None
    lsn,        \* listener ARN -> listener, or None
    egs,        \* listener ARN -> region -> endpoint group, or None
    pc, seen,   \* the stage of the run, and the copy it works on
    d, warn,    \* the wanted model; some endpoint did not load
    calls,      \* planned calls still to be issued
    cur,        \* what Create or Update returned: the accelerator and its state
    lsnOf,      \* wanted listener -> its ARN
    faults

env == <<setting, lbAt>>
aws == <<accs, lsn, egs>>
memory == <<seen, d, warn, cur, lsnOf>>
vars == <<env, ga, cache, pending, aws, pc, memory, calls, faults>>

Live(f) == {x \in DOMAIN f : f[x] # None}
Call(op, x) == <<[op |-> op, x |-> x]>>
ForEach(S, Op(_)) == LET s == SetToSeq(S) IN FlattenSeq([i \in DOMAIN s |-> Op(s[i])])

lb == setting.lbs[lbAt]
NoStack == [name |-> None, ls |-> <<>>]
NoAnswer == [arn |-> None, deployed |-> FALSE]
NoEndpoints == [e \in Endpoints |-> None]
NoGroups == [r \in Regions |-> None]

Init ==
    /\ setting \in Settings
    /\ ga = [alive |-> TRUE, deleting |-> FALSE, finalizer |-> FALSE, uid |-> 0, gen |-> 1,
             arn |-> None, ready |-> "none", observed |-> 0]
    /\ cache = ga
    /\ pending = TRUE
    /\ lbAt = 1
    /\ accs = [a \in ARNs |-> None]
    /\ lsn = [l \in Listeners |-> None]
    /\ egs = [l \in Listeners |-> NoGroups]
    /\ pc = "idle"
    /\ seen = None /\ d = NoStack /\ warn = FALSE /\ cur = NoAnswer /\ lsnOf = <<>>
    /\ calls = <<>>
    /\ faults = 0

----------------------------------------------------------------------------
(* Loading the endpoints and building the model. *)

\* Pairs <<listener, region>>.
GroupsOf(m) == {g \in (DOMAIN m.ls) \X Regions : m.ls[g[1]].groups[g[2]] # None}
EndpointsOf(spec) == UNION {Live(spec.ls[g[1]].groups[g[2]].eps) : g \in GroupsOf(spec)}

\* An endpoint without a load balancer is loaded with a warning.
LoadEndpoints(spec) == {e \in EndpointsOf(spec) : lb[e] # None}

\* One listener with one group and one usable endpoint, and something to find out.
CanApplyAutoDiscovery(spec) ==
    /\ Len(spec.ls) = 1
    /\ Cardinality(Live(spec.ls[1].groups)) = 1
    /\ Cardinality(EndpointsOf(spec)) = 1
    /\ spec.ls[1].proto = None \/ spec.ls[1].ports = None
    /\ LoadEndpoints(spec) = EndpointsOf(spec)

\* A listener for the template's protocol or for each one found, with the
\* template's ports or the ones found; the groups are copied.
BuildAutoDiscoveryListeners(t, found) ==
    LET ps == SetToSeq(IF t.proto # None THEN {t.proto} ELSE {q[1] : q \in found})
    IN  [i \in DOMAIN ps |->
            [t EXCEPT !.proto = ps[i],
                      !.ports = IF @ # None THEN @ ELSE {q[2] : q \in {f \in found : f[1] = ps[i]}}]]

BuildListeners(spec) ==
    IF CanApplyAutoDiscovery(spec)
    THEN BuildAutoDiscoveryListeners(spec.ls[1], lb[CHOOSE e \in EndpointsOf(spec) : TRUE])
    ELSE spec.ls

\* Loaded endpoints are kept in a map by their key: an endpoint that several
\* listeners name has the weight the last of them gives it.
LoadedWeight(spec, e) ==
    LET naming == {g \in GroupsOf(spec) : spec.ls[g[1]].groups[g[2]].eps[e] # None}
        last == CHOOSE g \in naming : \A h \in naming : h[1] <= g[1]
    IN  spec.ls[last[1]].groups[last[2]].eps[e]

\* Only loaded endpoints get into a group.
BuildEndpointGroup(g, spec) ==
    [g EXCEPT !.eps = [e \in Endpoints |-> IF @[e] # None /\ e \in LoadEndpoints(spec)
                                           THEN LoadedWeight(spec, e) ELSE None]]

BuildModel(spec) ==
    LET ls == BuildListeners(spec)
    IN  [name |-> spec.name,
         ls |-> [i \in DOMAIN ls |->
                    [ls[i] EXCEPT !.groups =
                        [r \in Regions |-> IF @[r] = None THEN None
                                           ELSE BuildEndpointGroup(@[r], spec)]]]]

OverridesOf(m, g) == m.ls[g[1]].groups[g[2]].ov
PortsOf(m) == UNION {m.ls[i].ports : i \in DOMAIN m.ls}

ValidPortOverrides(m) ==
    \A g \in GroupsOf(m) : \A o \in OverridesOf(m, g) :
        /\ o[1] \in m.ls[g[1]].ports
        /\ o[2] \notin PortsOf(m)
        /\ \A q \in OverridesOf(m, g) : q # o => q[1] # o[1] /\ q[2] # o[2]
        /\ \A h \in GroupsOf(m) : h[1] # g[1] => \A q \in OverridesOf(m, h) : q[2] # o[2]

\* Nothing to discover, a protocol or ports left open, or bad port overrides.
BuildError(spec) ==
    LET m == BuildModel(spec)
    IN  \/ CanApplyAutoDiscovery(spec) /\ m.ls = <<>>
        \/ \E i \in DOMAIN m.ls : m.ls[i].proto = None \/ m.ls[i].ports \in {None, {}}
        \/ ~ValidPortOverrides(m)

----------------------------------------------------------------------------
(* Matching the wanted listeners with the accelerator's. *)

Overlap(a, b) == a.proto = b.proto /\ a.ports \cap b.ports # {}
SameKey(a, b) == a.proto = b.proto /\ a.ports = b.ports
ChangedPorts(a, b) == a.ports # b.ports

SDKListeners == IF accs[cur.arn] = None THEN {} ELSE {l \in Live(lsn) : lsn[l].acc = cur.arn}

\* Pairs <<wanted listener, listener>>.
ExactMatches == {p \in (DOMAIN d.ls) \X SDKListeners : SameKey(d.ls[p[1]], lsn[p[2]])}

SimilarityScore(a, b) ==
    (IF a.proto = b.proto THEN 40 ELSE 0)
    + (100 * Cardinality(a.ports \cap b.ports)) \div Cardinality(a.ports \cup b.ports)
    + (IF a.aff = b.aff THEN 10 ELSE 0)
Score(p) == SimilarityScore(d.ls[p[1]], lsn[p[2]])

Share(p, q) == p[1] = q[1] \/ p[2] = q[2]
Candidates ==
    {p \in (DOMAIN d.ls) \X SDKListeners : Score(p) >= 15 /\ \A q \in ExactMatches : ~Share(p, q)}

\* What the greedy choice by falling score can come to: pairs of equal score
\* are taken in an unspecified order.
SimilarityMatches ==
    {m \in SUBSET Candidates :
        /\ \A p, q \in m : p # q => ~Share(p, q)
        /\ \A p \in Candidates \ m : \E q \in m : Share(p, q) /\ Score(q) >= Score(p)}

\* The matched pairs in the order of their updates.
MatchOrders ==
    {SetToSeq(ExactMatches) \o o :
        o \in {o \in UNION {SetToSeqs(m) : m \in SimilarityMatches} :
                  \A i, j \in DOMAIN o : i < j => Score(o[i]) >= Score(o[j])}}

UnmatchedSDK(ps) == SDKListeners \ {ps[i][2] : i \in DOMAIN ps}
UnmatchedRes(ps) == (DOMAIN d.ls) \ {ps[i][1] : i \in DOMAIN ps}
Conflicting(ps) == {l \in UnmatchedSDK(ps) : \E i \in DOMAIN ps : Overlap(d.ls[ps[i][1]], lsn[l])}
NonConflicting(ps) == UnmatchedSDK(ps) \ Conflicting(ps)

----------------------------------------------------------------------------
(* The plans of the stages. *)

\* A listener's groups are deleted before it.
DeleteListenerCalls(l) ==
    ForEach(Live(egs[l]), LAMBDA r : Call("DeleteGroup", <<l, r>>)) \o Call("DeleteListener", l)

\* Overrides in the way of the updates: an endpoint port that becomes a
\* listener port, a listener port its changed listener gives up.
InvalidOverrides(ps, l, r) ==
    {o \in egs[l][r].ov :
        \/ o[2] \in PortsOf(d)
        \/ \E i \in DOMAIN ps :
              /\ ps[i][2] = l
              /\ ChangedPorts(d.ls[ps[i][1]], lsn[l]) /\ o[1] \notin d.ls[ps[i][1]].ports}
ToProcess(ps) == {g \in (SDKListeners \ Conflicting(ps)) \X Regions :
                     egs[g[1]][g[2]] # None /\ InvalidOverrides(ps, g[1], g[2]) # {}}
SetOverridesCall(g, ov) == Call("SetOverrides", [g |-> g, ov |-> ov])
\* Mutant: the overrides are left to the endpoint group stage.
OverridesPlan_none(ps) == <<>>
OverridesPlan(ps) ==
    ForEach(ToProcess(ps),
            LAMBDA g : SetOverridesCall(g, egs[g[1]][g[2]].ov \ InvalidOverrides(ps, g[1], g[2])))

\* Mutant: the listeners are replaced instead of matched.
ListenersPlan_replace(ps) ==
    ForEach(SDKListeners, DeleteListenerCalls) \o ForEach(DOMAIN d.ls, LAMBDA i : Call("CreateListener", i))
ListenersPlan(ps) ==
    ForEach(Conflicting(ps), DeleteListenerCalls)
    \o OverridesPlan(ps)
    \o FlattenSeq([i \in DOMAIN ps |-> Call("UpdateListener", ps[i])])
    \o ForEach(NonConflicting(ps), DeleteListenerCalls)
    \o ForEach(UnmatchedRes(ps), LAMBDA i : Call("CreateListener", i))

\* Existing overrides that use an endpoint port another listener wants in the region.
ConflictingOverrides(l, r) ==
    {o \in egs[l][r].ov :
        \E g \in GroupsOf(d) : g[2] = r /\ lsnOf[g[1]] # l /\ \E q \in OverridesOf(d, g) : q[2] = o[2]}
ConflictsPlan ==
    ForEach({g \in {lsnOf[i] : i \in DOMAIN lsnOf} \X Regions :
                egs[g[1]][g[2]] # None /\ ConflictingOverrides(g[1], g[2]) # {}},
            LAMBDA g : SetOverridesCall(g, egs[g[1]][g[2]].ov \ ConflictingOverrides(g[1], g[2])))

\* Weights that changed are set with the whole list of endpoints; otherwise
\* endpoints are added first and removed afterwards.
ManageEndpoints(g, want, have) ==
    LET add == Live(want) \ Live(have)
        rem == Live(have) \ Live(want)
    IN  IF \E e \in Live(want) \cap Live(have) : want[e] # have[e]
        THEN Call("SetEndpoints", [g |-> g, eps |-> want])
        ELSE IF add # {} THEN Call("AddEndpoints", [g |-> g, eps |-> want, add |-> add, rem |-> rem])
        ELSE IF rem # {} THEN Call("RemoveEndpoints", [g |-> g, rem |-> rem])
        ELSE <<>>

\* The groups of the k-th listener, matched by region.
GroupsPlan(k) ==
    LET l == lsnOf[k]
        want == d.ls[k].groups
    IN  ForEach({r \in Regions : want[r] # None /\ egs[l][r] # None},
                LAMBDA r : (IF want[r].dial # egs[l][r].dial \/ want[r].ov # egs[l][r].ov
                            THEN Call("UpdateGroup", <<k, r>>) ELSE <<>>)
                           \o ManageEndpoints(<<l, r>>, want[r].eps, egs[l][r].eps))
        \o ForEach(Live(egs[l]) \ Live(want), LAMBDA r : Call("DeleteGroup", <<l, r>>))
        \o ForEach(Live(want) \ Live(egs[l]),
                   LAMBDA r : Call("CreateGroup", <<k, r>>)
                              \o ManageEndpoints(<<l, r>>, want[r].eps, NoEndpoints))

----------------------------------------------------------------------------
(* What AWS accepts. *)

ListenersOf(a) == {l \in Live(lsn) : lsn[l].acc = a}
AcceptsListener(l, want) ==
    /\ \A x \in ListenersOf(cur.arn) \ {l} : ~Overlap(want, lsn[x])
    /\ \A x \in ListenersOf(cur.arn) : \A r \in Live(egs[x]) : \A o \in egs[x][r].ov :
           o[2] \notin want.ports /\ (x = l => o[1] \in want.ports)
AcceptsOverrides(g, ov) ==
    /\ g[1] \in ListenersOf(cur.arn)
    /\ \A o \in ov :
        /\ o[1] \in lsn[g[1]].ports
        /\ \A x \in ListenersOf(cur.arn) : o[2] \notin lsn[x].ports
        /\ \A x \in ListenersOf(cur.arn) \ {g[1]} :
              egs[x][g[2]] # None => \A q \in egs[x][g[2]].ov : q[2] # o[2]
GroupExists(g) == g[1] \in ListenersOf(cur.arn) /\ egs[g[1]][g[2]] # None
Within(eps) == Cardinality(Live(eps)) <= setting.limit

Accepts(c) ==
    LET x == c.x
    IN  CASE c.op = "CreateListener" -> accs[cur.arn] # None /\ AcceptsListener(None, d.ls[x])
          [] c.op = "UpdateListener" -> x[2] \in ListenersOf(cur.arn) /\ AcceptsListener(x[2], d.ls[x[1]])
          [] c.op = "DeleteListener" -> Live(egs[x]) = {}
          [] c.op = "DeleteGroup" -> TRUE
          [] c.op = "SetOverrides" -> GroupExists(x.g) /\ AcceptsOverrides(x.g, x.ov)
          [] c.op = "UpdateGroup" -> LET g == <<lsnOf[x[1]], x[2]>>
                                     IN  GroupExists(g) /\ AcceptsOverrides(g, d.ls[x[1]].groups[x[2]].ov)
          [] c.op = "CreateGroup" -> LET g == <<lsnOf[x[1]], x[2]>>
                                     IN  ~GroupExists(g) /\ AcceptsOverrides(g, d.ls[x[1]].groups[x[2]].ov)
          [] c.op = "SetEndpoints" -> GroupExists(x.g) /\ Within(x.eps)
          [] c.op = "AddEndpoints" ->
                 GroupExists(x.g) /\ Cardinality(Live(egs[x.g[1]][x.g[2]].eps) \cup x.add) <= setting.limit
          [] c.op = "RemoveEndpoints" -> GroupExists(x.g)
          [] c.op = "DeleteAccelerator" ->
                 accs[x] # None => ~accs[x].enabled /\ accs[x].deployed /\ ListenersOf(x) = {}
          [] OTHER -> TRUE

----------------------------------------------------------------------------
(* The run. *)

Faulty == faults < MaxFaults /\ faults' = faults + 1
Done ==
    /\ pc' = "idle" /\ calls' = <<>>
    /\ seen' = None /\ d' = NoStack /\ warn' = FALSE /\ cur' = NoAnswer /\ lsnOf' = <<>>
Requeue == Done /\ pending' = TRUE

\* A merge patch carries the fields that differ from the copy it starts from.
Patched(new) == [f \in DOMAIN ga |-> IF new[f] # seen[f] THEN new[f] ELSE ga[f]]
PatchStatus(new) == ga' = IF ga.alive THEN Patched(new) ELSE ga
UpdateStatusFailure == PatchStatus([seen EXCEPT !.ready = "failed", !.observed = seen.gen])

\* Get: the object is to be cleaned up, or to be deployed, or neither.
Start ==
    /\ pc = "idle" /\ pending
    /\ cache.alive /\ (cache.deleting => cache.finalizer)
    /\ pending' = FALSE
    /\ seen' = cache
    /\ pc' = IF cache.deleting THEN "disable" ELSE IF cache.finalizer THEN "build" ELSE "finalizer"
    /\ UNCHANGED <<ga, cache, env, aws, d, warn, cur, lsnOf, calls, faults>>
NothingToDo ==
    /\ pc = "idle" /\ pending
    /\ ~cache.alive \/ (cache.deleting /\ ~cache.finalizer)
    /\ pending' = FALSE
    /\ UNCHANGED <<ga, cache, env, aws, pc, memory, calls, faults>>

\* AddFinalizers and RemoveFinalizers read the informer's copy again and patch
\* with its resource version: a copy that is behind is a conflict, retried for
\* a while.  A finalizer for an object that is going away is refused; one that
\* the copy has by now is not added, and the run goes on.
AddFinalizers ==
    /\ pc = "finalizer"
    /\ cache = ga /\ ga.alive /\ ~ga.deleting
    /\ ga' = [ga EXCEPT !.finalizer = TRUE]
    /\ seen' = ga'
    /\ pc' = "build"
    /\ UNCHANGED <<cache, pending, env, aws, d, warn, cur, lsnOf, calls, faults>>
FinalizerThere ==
    /\ pc = "finalizer"
    /\ cache.alive /\ cache.finalizer
    /\ seen' = cache
    /\ pc' = "build"
    /\ UNCHANGED <<ga, cache, pending, env, aws, d, warn, cur, lsnOf, calls, faults>>
FinalizerRefused ==
    /\ \/ pc = "finalizer" /\ ~(cache.alive /\ cache.finalizer) /\ (cache # ga \/ ~ga.alive \/ ga.deleting)
       \/ pc = "cleanup" /\ calls = <<>> /\ cache # ga
    /\ Requeue
    /\ UNCHANGED <<ga, cache, env, aws, faults>>

BuildFails ==
    /\ pc = "build" /\ BuildError(setting.specs[seen.gen])
    /\ UpdateStatusFailure
    /\ Requeue
    /\ UNCHANGED <<cache, env, aws, faults>>
Build ==
    /\ pc = "build" /\ ~BuildError(setting.specs[seen.gen])
    /\ d' = BuildModel(setting.specs[seen.gen])
    /\ warn' = (LoadEndpoints(setting.specs[seen.gen]) # EndpointsOf(setting.specs[seen.gen]))
    /\ lsnOf' = [i \in DOMAIN BuildModel(setting.specs[seen.gen]).ls |-> None]
    /\ pc' = "accelerator"
    /\ UNCHANGED <<ga, cache, pending, env, aws, seen, cur, calls, faults>>

\* Mutant: every generation of the object has a token of its own.
IdempotencyToken_generation == seen.gen
IdempotencyToken == seen.uid
Answer(a) == [arn |-> a, deployed |-> accs[a].deployed]

\* No ARN in the status, or one that is gone: Create answers a known token
\* with the accelerator it made.
Created == {a \in Live(accs) : accs[a].token = IdempotencyToken}
CreateAccelerator ==
    /\ pc = "accelerator"
    /\ seen.arn \notin Live(accs)
    /\ IF Created # {} THEN cur' = Answer(CHOOSE a \in Created : TRUE) /\ UNCHANGED accs
       ELSE \E a \in {CHOOSE a \in ARNs : accs[a] = None} :
               /\ accs' = [accs EXCEPT ![a] = [token |-> IdempotencyToken, name |-> d.name,
                                               enabled |-> TRUE, deployed |-> FALSE]]
               /\ cur' = [arn |-> a, deployed |-> FALSE]
    /\ UNCHANGED <<lsn, egs, seen, d, warn, lsnOf>>
Drifted(a) == accs[a].name # d.name \/ ~accs[a].enabled
UpdateAccelerator ==
    /\ pc = "accelerator"
    /\ seen.arn \in Live(accs)
    /\ IF Drifted(seen.arn)
       THEN /\ accs' = [accs EXCEPT ![seen.arn] =
                            [@ EXCEPT !.name = d.name, !.enabled = TRUE, !.deployed = FALSE]]
            /\ cur' = [arn |-> seen.arn, deployed |-> FALSE]
       ELSE cur' = Answer(seen.arn) /\ UNCHANGED accs
    /\ UNCHANGED <<lsn, egs, seen, d, warn, lsnOf>>
SynthesizeAccelerator == CreateAccelerator \/ UpdateAccelerator
AcceleratorDone ==
    /\ SynthesizeAccelerator
    /\ pc' = "start listeners"
    /\ UNCHANGED <<ga, cache, pending, env, calls, faults>>

\* The next stage lists, matches and plans.
PlanListeners ==
    /\ pc = "start listeners"
    /\ pc' = "listeners"
    /\ \E ps \in MatchOrders : calls' = ListenersPlan(ps)
    /\ UNCHANGED <<ga, cache, pending, env, aws, memory, faults>>
\* The endpoint groups of every listener are listed.
Listed == \A i \in DOMAIN lsnOf : lsnOf[i] \in Live(lsn)
PlanConflicts ==
    /\ pc = "listeners" /\ calls = <<>> /\ Listed
    /\ pc' = "conflicts"
    /\ calls' = ConflictsPlan
    /\ UNCHANGED <<ga, cache, pending, env, aws, memory, faults>>
\* Each listener's groups are listed when its turn comes; no call for one
\* listener changes the groups of another.
PlanGroups ==
    /\ pc = "conflicts" /\ calls = <<>> /\ Listed
    /\ pc' = "groups"
    /\ calls' = FlattenSeq([k \in DOMAIN lsnOf |-> GroupsPlan(k)])
    /\ UNCHANGED <<ga, cache, pending, env, aws, memory, faults>>

\* Mutant: nobody comes back to see the accelerator deployed.
UpdateStatusSuccess_noRequeue ==
    /\ pc = "groups" /\ calls = <<>>
    /\ PatchStatus([seen EXCEPT !.observed = seen.gen, !.arn = cur.arn,
                                !.ready = IF cur.deployed THEN "true" ELSE "unknown"])
    /\ Done
    /\ UNCHANGED <<cache, pending, env, aws, faults>>
\* UpdateStatusSuccess; the object is looked at again while the accelerator
\* is being provisioned or an endpoint is missing.
UpdateStatusSuccess ==
    /\ pc = "groups" /\ calls = <<>>
    /\ PatchStatus([seen EXCEPT !.observed = seen.gen, !.arn = cur.arn,
                                !.ready = IF cur.deployed THEN "true" ELSE "unknown"])
    /\ Done
    /\ pending' = (pending \/ ~ga.alive \/ ~cur.deployed \/ warn)
    /\ UNCHANGED <<cache, env, aws, faults>>

----------------------------------------------------------------------------
(* The clean-up. *)

\* disableAccelerator, then the listeners are listed.
Disable ==
    /\ pc = "disable"
    /\ accs' = [a \in ARNs |-> IF a = seen.arn /\ accs[a] # None /\ accs[a].enabled
                               THEN [accs[a] EXCEPT !.enabled = FALSE, !.deployed = FALSE] ELSE accs[a]]
    /\ UNCHANGED <<lsn, egs, memory>>
CleanupPlan ==
    IF seen.arn \notin Live(accs) THEN <<>>
    ELSE ForEach(ListenersOf(seen.arn), DeleteListenerCalls) \o Call("DeleteAccelerator", seen.arn)
DisableDone ==
    /\ Disable
    /\ calls' = CleanupPlan
    /\ pc' = "cleanup"
    /\ UNCHANGED <<ga, cache, pending, env, faults>>

RemoveFinalizers ==
    /\ pc = "cleanup" /\ calls = <<>>
    /\ cache = ga
    /\ ga' = [ga EXCEPT !.finalizer = FALSE, !.alive = FALSE]
    /\ Done
    /\ UNCHANGED <<cache, pending, env, aws, faults>>

----------------------------------------------------------------------------
(* The calls. *)

Touch(a) == accs' = IF accs[a] = None THEN accs ELSE [accs EXCEPT ![a].deployed = FALSE]
Group(g, new) == egs' = [egs EXCEPT ![g[1]][g[2]] = new]

ListenerDrifted(i, l) == \E f \in {"proto", "ports", "aff"} : d.ls[i][f] # lsn[l][f]
ListenerOf(i) == [acc |-> cur.arn, proto |-> d.ls[i].proto, ports |-> d.ls[i].ports, aff |-> d.ls[i].aff]

CreateListener(i) ==
    LET l == CHOOSE l \in Listeners : lsn[l] = None
    IN  /\ lsn' = [lsn EXCEPT ![l] = ListenerOf(i)]
        /\ lsnOf' = [lsnOf EXCEPT ![i] = l]
        /\ Touch(cur.arn)
        /\ UNCHANGED <<egs, seen, d, warn, cur>>
UpdateListener(i, l) ==
    /\ lsnOf' = [lsnOf EXCEPT ![i] = l]
    /\ IF ListenerDrifted(i, l) THEN lsn' = [lsn EXCEPT ![l] = ListenerOf(i)] /\ Touch(cur.arn)
       ELSE UNCHANGED <<lsn, accs>>
    /\ UNCHANGED <<egs, seen, d, warn, cur>>
DeleteListener(l) ==
    /\ lsn' = [lsn EXCEPT ![l] = None]
    /\ IF lsn[l] = None THEN UNCHANGED accs ELSE Touch(lsn[l].acc)
    /\ UNCHANGED <<egs, memory>>

SetGroup(g, new) == Group(g, new) /\ Touch(cur.arn) /\ UNCHANGED <<lsn, memory>>
Have(g) == egs[g[1]][g[2]]
UpdateGroup(k, r) ==
    LET g == <<lsnOf[k], r>>
    IN  SetGroup(g, [Have(g) EXCEPT !.dial = d.ls[k].groups[r].dial, !.ov = d.ls[k].groups[r].ov])
CreateGroup(k, r) == SetGroup(<<lsnOf[k], r>>, [d.ls[k].groups[r] EXCEPT !.eps = NoEndpoints])
DeleteGroup(g) == Group(g, None) /\ UNCHANGED <<accs, lsn, memory>>
AddEndpoints(x) ==
    SetGroup(x.g, [Have(x.g) EXCEPT !.eps = [e \in Endpoints |-> IF e \in x.add THEN x.eps[e] ELSE @[e]]])
RemoveEndpoints(x) ==
    SetGroup(x.g, [Have(x.g) EXCEPT !.eps = [e \in Endpoints |-> IF e \in x.rem THEN None ELSE @[e]]])
DeleteAccelerator(a) == accs' = [accs EXCEPT ![a] = None] /\ UNCHANGED <<lsn, egs, memory>>

C == Head(calls)
Effect ==
    /\ calls # <<>> /\ Accepts(C)
    /\ \/ C.op = "CreateListener" /\ CreateListener(C.x)
       \/ C.op = "UpdateListener" /\ UpdateListener(C.x[1], C.x[2])
       \/ C.op = "DeleteListener" /\ DeleteListener(C.x)
       \/ C.op = "DeleteGroup" /\ DeleteGroup(C.x)
       \/ C.op = "SetOverrides" /\ SetGroup(C.x.g, [Have(C.x.g) EXCEPT !.ov = C.x.ov])
       \/ C.op = "UpdateGroup" /\ UpdateGroup(C.x[1], C.x[2])
       \/ C.op = "CreateGroup" /\ CreateGroup(C.x[1], C.x[2])
       \/ C.op = "SetEndpoints" /\ SetGroup(C.x.g, [Have(C.x.g) EXCEPT !.eps = C.x.eps])
       \/ C.op = "AddEndpoints" /\ AddEndpoints(C.x)
       \/ C.op = "RemoveEndpoints" /\ RemoveEndpoints(C.x)
       \/ C.op = "DeleteAccelerator" /\ DeleteAccelerator(C.x)

\* Mutant: when endpoints were added, the others stay.
Rest_keepOld == Tail(calls)
\* Endpoints to be removed are removed once the new ones are in.
Rest ==
    IF C.op = "AddEndpoints" /\ C.x.rem # {}
    THEN Call("RemoveEndpoints", [g |-> C.x.g, rem |-> C.x.rem]) \o Tail(calls)
    ELSE Tail(calls)
Issue ==
    /\ Effect
    /\ calls' = Rest
    /\ UNCHANGED <<ga, cache, pending, env, pc, faults>>

\* LimitExceeded: make room first, if there is something to remove.
FlipFlop ==
    /\ calls # <<>> /\ C.op = "AddEndpoints" /\ ~Accepts(C) /\ GroupExists(C.x.g) /\ C.x.rem # {}
    /\ calls' = Call("RemoveEndpoints", [g |-> C.x.g, rem |-> C.x.rem])
                \o Call("AddEndpoints", [C.x EXCEPT !.rem = {}]) \o Tail(calls)
    /\ UNCHANGED <<ga, cache, pending, env, aws, pc, memory, faults>>

\* Only a deployment, and an accelerator that is not disabled yet, show in the status.
UpdateStatusDeletion == PatchStatus([seen EXCEPT !.ready = "deleting", !.observed = seen.gen])
Failed == (IF pc \in {"cleanup", "lost in cleanup"} THEN UNCHANGED ga ELSE UpdateStatusFailure) /\ Requeue

\* AWS says no.
Refused ==
    /\ calls # <<>> /\ ~Accepts(C)
    /\ ~(C.op = "AddEndpoints" /\ GroupExists(C.x.g) /\ C.x.rem # {})
    /\ IF C.op = "DeleteAccelerator" THEN UpdateStatusDeletion /\ Requeue ELSE Failed
    /\ UNCHANGED <<cache, env, aws, faults>>

ListingRefused ==
    /\ pc \in {"listeners", "conflicts"} /\ calls = <<>> /\ ~Listed
    /\ Failed
    /\ UNCHANGED <<cache, env, aws, faults>>

\* The endpoints cannot be loaded, a call or the listing before a plan fails ...
Fails ==
    /\ pc \notin {"idle", "finalizer", "disable"}
    /\ Faulty /\ Failed
    /\ UNCHANGED <<cache, env, aws>>
\* ... or takes effect, and the answer is lost.
AnswerLost ==
    /\ Effect \/ SynthesizeAccelerator \/ Disable
    /\ Faulty
    /\ pc' = IF pc \in {"disable", "cleanup"} THEN "lost in cleanup" ELSE "lost"
    /\ calls' = <<>>
    /\ UNCHANGED <<ga, cache, pending, env>>
GiveUp ==
    /\ pc \in {"lost", "lost in cleanup"}
    /\ Failed
    /\ UNCHANGED <<cache, env, aws, faults>>
\* The process ends, or a patch of the object fails.
Crash ==
    /\ pc # "idle"
    /\ Faulty /\ Requeue
    /\ UNCHANGED <<ga, cache, env, aws>>

----------------------------------------------------------------------------
(* The environment. *)

EditSpec ==
    /\ ga.alive /\ ~ga.deleting /\ ga.gen < Len(setting.specs)
    /\ ga' = [ga EXCEPT !.gen = @ + 1]
    /\ UNCHANGED <<cache, pending, env, aws, pc, memory, calls, faults>>
Delete ==
    /\ ga.alive /\ ~ga.deleting
    /\ ga' = [ga EXCEPT !.deleting = TRUE, !.alive = ga.finalizer]
    /\ UNCHANGED <<cache, pending, env, aws, pc, memory, calls, faults>>
Sync ==
    /\ cache # ga
    /\ cache' = ga /\ pending' = TRUE
    /\ UNCHANGED <<ga, env, aws, pc, memory, calls, faults>>

\* A load balancer comes up or changes its listeners; its watch requeues the object.
LBChange ==
    /\ lbAt < Len(setting.lbs)
    /\ lbAt' = lbAt + 1 /\ pending' = TRUE
    /\ UNCHANGED <<setting, ga, cache, aws, pc, memory, calls, faults>>

AcceleratorDeployed(a) ==
    /\ accs[a] # None /\ ~accs[a].deployed
    /\ accs' = [accs EXCEPT ![a].deployed = TRUE]
    /\ UNCHANGED <<ga, cache, pending, env, lsn, egs, pc, memory, calls, faults>>

\* Somebody deletes the accelerator by other means.
AcceleratorVanishes(a) ==
    /\ accs[a] # None
    /\ Faulty
    /\ accs' = [accs EXCEPT ![a] = None]
    /\ lsn' = [l \in Listeners |-> IF l \in ListenersOf(a) THEN None ELSE lsn[l]]
    /\ egs' = [l \in Listeners |-> IF l \in ListenersOf(a) THEN NoGroups ELSE egs[l]]
    /\ UNCHANGED <<ga, cache, pending, env, pc, memory, calls>>

\* The informer's periodic resync; it makes a difference to the model when the
\* object's accelerator has vanished.
Resync ==
    /\ ga.alive /\ ga.arn # None /\ ga.arn \notin Live(accs)
    /\ ~pending /\ pc = "idle"
    /\ pending' = TRUE
    /\ UNCHANGED <<ga, cache, env, aws, pc, memory, calls, faults>>

Run ==
    \/ Start \/ NothingToDo \/ AddFinalizers \/ FinalizerThere \/ FinalizerRefused
    \/ BuildFails \/ Build \/ AcceleratorDone \/ PlanListeners \/ PlanConflicts \/ PlanGroups \/ UpdateStatusSuccess
    \/ DisableDone \/ RemoveFinalizers \/ Issue \/ FlipFlop \/ Refused \/ ListingRefused \/ GiveUp
Next ==
    \/ Run \/ Fails \/ AnswerLost \/ Crash
    \/ EditSpec \/ Delete \/ Sync \/ LBChange \/ Resync
    \/ \E a \in ARNs : AcceleratorDeployed(a) \/ AcceleratorVanishes(a)

Spec ==
    /\ Init /\ [][Next]_vars
    /\ WF_vars(Run) /\ WF_vars(Sync) /\ WF_vars(Resync)
    /\ \A a \in ARNs : WF_vars(AcceleratorDeployed(a))

----------------------------------------------------------------------------
(* Properties. *)

\* However often a deployment fails, is cut off or works on a stale copy
\* without the accelerator's ARN, the object never has two accelerators.
OneAccelerator == Cardinality(Live(accs)) <= 1

\* The update of a matched listener to ports that another matched listener
\* has not given up yet.
OverlapsMatched(c) ==
    /\ c.op = "UpdateListener"
    /\ \E x \in ListenersOf(cur.arn) \ {c.x[2]} : Overlap(d.ls[c.x[1]], lsn[x])

\* The order of the calls keeps AWS from refusing one: as long as the
\* accelerator is there, no listener update, creation or deletion, port
\* override or endpoint change is refused but for a matched overlap, or for
\* the endpoint limit that flip-flop deals with.
OrderedCalls ==
    (calls # <<>> /\ pc # "cleanup" /\ accs[cur.arn] # None) =>
        Accepts(C) \/ OverlapsMatched(C) \/ (C.op = "AddEndpoints" /\ C.x.rem # {})

Configured(m, a) ==
    /\ accs[a] # None /\ accs[a].name = m.name /\ accs[a].enabled
    /\ \E f \in [DOMAIN m.ls -> ListenersOf(a)] :
        /\ \A l \in ListenersOf(a) : \E i \in DOMAIN f : f[i] = l
        /\ \A i, j \in DOMAIN f : i # j => f[i] # f[j]
        /\ \A i \in DOMAIN f :
            /\ \A g \in {"proto", "ports", "aff"} : lsn[f[i]][g] = m.ls[i][g]
            /\ egs[f[i]] = m.ls[i].groups

\* A deployment that ends without an error has brought the accelerator it
\* worked on to exactly what was wanted: no listener, group, override or
\* endpoint more or less (unless the accelerator was deleted meanwhile).  When a
\* clean-up gets to the finalizer, the accelerator named by the copy it worked on
\* is gone, and with it every listener and endpoint group.
DoneExactly ==
    /\ (pc = "groups" /\ calls = <<>> /\ accs[cur.arn] # None /\ accs[cur.arn].name = d.name) => Configured(d, cur.arn)
    /\ (pc = "cleanup" /\ calls = <<>> /\ seen.arn # None) =>
        /\ accs[seen.arn] = None
        /\ \A l \in Listeners : (lsn[l] # None => lsn[l].acc # seen.arn) /\ (lsn[l] = None => egs[l] = NoGroups)

\* A listener that is wanted as it is, protocol and ports, is never deleted or
\* moved by a deployment: traffic on it is not cut.
WantedListenersStay ==
    [][\A l \in Listeners :
          (pc = "listeners" /\ lsn[l] # None /\ accs'[cur.arn] # None
             /\ \E i \in DOMAIN d.ls : SameKey(d.ls[i], lsn[l]))
          => lsn'[l] # None /\ SameKey(lsn[l], lsn'[l])]_vars

\* When the last edit, deletion and fault are over, the object is either gone,
\* or deployed as its spec says and shown ready, or its spec cannot be built,
\* or its deployment is stopped again and again by a matched overlap.
Settled ==
    \/ ~ga.alive
    \/ /\ ga.ready = "true" /\ ga.observed = ga.gen /\ ga.arn # None
       /\ ~BuildError(setting.specs[ga.gen]) /\ Configured(BuildModel(setting.specs[ga.gen]), ga.arn)
    \/ ga.ready = "failed" /\ BuildError(setting.specs[ga.gen])
EventuallySettled == <>[]Settled \/ []<>(calls # <<>> /\ OverlapsMatched(C))

\* Deleting the object cleans up its AWS resources.
NoOrphans == ~ga.alive => Live(accs) = {}
============================================================================
