--------------------------- MODULE IngressGroups ---------------------------
(* The Ingress controller: Ingresses form groups, every group has one load    *)
(* balancer and is reconciled on its own.  The controller reads Ingresses     *)
(* from a cache that lags behind the API server, learns of changes from       *)
(* events, and keeps a finalizer of the group on every Ingress it serves.     *)
(*                                                                            *)
(* What a load balancer contains is abstracted to the revisions it was built  *)
(* from; how a model is built and deployed is the subject of IngressBuild and *)
(* StackDeploy, the shared security group that of BackendSG.                  *)
EXTENDS Naturals, Sequences, FiniteSets

CONSTANTS
  Names,          \* the Ingresses, a sequence in the order of their names
  Explicit,       \* names of explicit groups
  Settings        \* the environments a run starts from

Ingresses == {Names[k] : k \in DOMAIN Names}

(* An implicit group is named after its only Ingress. *)
Groups == Explicit \cup Ingresses

VARIABLES
  setting,        \* the environment, one of Settings
  api,            \* api[i]: the Ingress at the API server
  cache,          \* cache[i]: the Ingress in the controller's informer cache
  events,         \* events[i]: versions of i the informer has yet to deliver
  class,          \* the IngressClass, with the group its IngressClassParams set
  backend,        \* revision of the Services and Secrets Ingresses refer to
  queue,          \* the work queue: groups to reconcile
  run,            \* run[g]: the reconcile of g under way
  lb,             \* lb[g]: revision of every Ingress the load balancer serves
  edits,          \* changes the users still make (bound)
  faults,         \* failures and restarts still to come (bound)
  lags,           \* deployments that may still overtake the informer (bound)
  missed          \* history: Ingresses one of the races below may have hit

vars == <<setting, api, cache, events, class, backend, queue, run, lb, edits,
          faults, lags, missed>>

(***************************************************************************)
(* Ingresses and the groups they belong to                                 *)
(***************************************************************************)

(* A group annotation is one of Explicit, "" (none), "bad" (not a valid     *)
(* name) or "off" (an Ingress of somebody else's class).                    *)
Annotations == Explicit \cup {"", "bad", "off"}

Classes == [state : {"ok", "invalid", "foreign"}, group : Explicit \cup {""}]

NoStatus == <<"", "">>

ASSUME NamesAssumption == Names \in Seq(Ingresses)

ASSUME SettingsAssumption ==
  \A s \in Settings :
    /\ s.present \subseteq Ingresses /\ s.byClassName \subseteq Ingresses
    /\ s.start \in [Ingresses -> Annotations] /\ s.moves \subseteq Annotations
    /\ s.class \in Classes /\ s.classes \subseteq Classes
    /\ s.returns \in BOOLEAN /\ s.plan \in BOOLEAN /\ s.nlb \in BOOLEAN
    /\ s.maxEdits \in Nat /\ s.maxFaults \in Nat /\ s.maxLags \in Nat

(* Ingresses that need an IngressClass; the others carry the annotation     *)
(* kubernetes.io/ingress.class, which takes priority.                       *)
ByClassName == setting.byClassName

Fresh(group) ==
  [there |-> TRUE, group |-> group, del |-> FALSE, fins |-> {}, rev |-> 0,
   status |-> NoStatus, plan |-> <<>>]

Absent == [Fresh("off") EXCEPT !.there = FALSE]

NoGroup == [err |-> "", ids |-> {}]

loadGroupID(i, v) ==
  LET name == IF i \in ByClassName /\ class.group # "" THEN class.group
              ELSE v.group
  IN CASE name = "bad" -> [err |-> "invalid group", ids |-> {}]
       [] name = ""    -> [err |-> "", ids |-> {i}]
       [] OTHER        -> [err |-> "", ids |-> {name}]

loadGroupIDIfAnyHelper(i, v) ==
  IF v.del \/ ~v.there \/ v.group = "off" THEN NoGroup
  ELSE IF i \notin ByClassName THEN loadGroupID(i, v)
  ELSE CASE class.state = "invalid" -> [err |-> "invalid class", ids |-> {}]
         [] class.state = "foreign" -> NoGroup
         [] OTHER                   -> loadGroupID(i, v)

(* Mutant: an invalid class means to leave the group, as an invalid name does. *)
checkGroupMembershipType_lenient(g, i, v) ==
  LET id == loadGroupIDIfAnyHelper(i, v) IN
  IF g \in id.ids THEN "active"
  ELSE IF g \in v.fins THEN "inactive" ELSE "none"

checkGroupMembershipType(g, i, v) ==
  LET id == loadGroupIDIfAnyHelper(i, v) IN
  CASE id.err = "invalid class" /\ g \in v.fins -> "error"
    [] g \in id.ids                             -> "active"
    [] g \notin id.ids /\ g \in v.fins
       /\ id.err # "invalid class"              -> "inactive"
    [] OTHER                                    -> "none"

Membership(g, type) ==
  {i \in Ingresses : checkGroupMembershipType(g, i, cache[i]) = type}

(* The order of a group's members: by name, all have the default order. *)
Position(i) == CHOOSE k \in DOMAIN Names : Names[k] = i

First(S) == CHOOSE i \in S : \A j \in S : Position(i) <= Position(j)

(***************************************************************************)
(* Events                                                                  *)
(***************************************************************************)

enqueueIfBelongsToGroup(i, v) == v.fins \cup loadGroupIDIfAnyHelper(i, v).ids

(* Mutant: deletions are left to the Delete event. *)
OnIngress_noDeletion(i, old, new) ==
  IF ~new.there \/ (/\ old.there
                    /\ old.group = new.group
                    /\ old.plan = new.plan
                    /\ old.rev = new.rev)
  THEN {}
  ELSE enqueueIfBelongsToGroup(i, new)

OnIngress(i, old, new) ==
  IF ~new.there \/ (/\ old.there
                    /\ old.group = new.group
                    /\ old.plan = new.plan
                    /\ old.rev = new.rev
                    /\ old.del = new.del)
  THEN {}
  ELSE enqueueIfBelongsToGroup(i, new)

(* Events of other objects are passed on to the cached Ingresses that refer   *)
(* to them, each as a Generic event.                                          *)
Impacted(S) ==
  UNION {enqueueIfBelongsToGroup(i, cache[i]) : i \in {j \in S : cache[j].there}}

(* All Ingresses refer to the Service; the Secret is named by the Ingresses   *)
(* in setting.secretRefs and, with their authentication settings, by Services. *)
OnService == Impacted(Ingresses)

OnSecret == Impacted(setting.secretRefs) \cup OnService

OnIngressClass == Impacted(ByClassName)

OnIngressClassParams == OnIngressClass

(* The informer delivers the next version of an Ingress. *)
Deliver(i) ==
  /\ events[i] # <<>>
  /\ cache' = [cache EXCEPT ![i] = Head(events[i])]
  /\ events' = [events EXCEPT ![i] = Tail(@)]
  /\ queue' = queue \cup OnIngress(i, cache[i], Head(events[i]))
  /\ UNCHANGED <<setting, api, class, backend, run, lb, edits, faults, lags, missed>>

(* A write at the API server, which the informer will deliver. *)
Write(i, v) ==
  /\ api' = [api EXCEPT ![i] = v]
  /\ events' = [events EXCEPT ![i] = Append(@, v)]

UpToDate(i) == events[i] = <<>>

(* The API server drops a deleted object with its last finalizer. *)
Finalized(v) == IF v.del /\ v.fins = {} THEN Absent ELSE v

(***************************************************************************)
(* The users                                                               *)
(***************************************************************************)

(* i is among the members some reconcile works with. *)
Loaded(i) == \E g \in Groups : run[g].pc # "idle" /\ i \in DOMAIN run[g].members

(* The finalizer of g is on i, but the cache does not show it yet. *)
Unseen(g, i) == g \in api[i].fins \ cache[i].fins

(* i is in a group that is letting go of it: the reconcile under way found i   *)
(* inactive, or a version the controller has yet to work through is not of the *)
(* group, or the cache still shows the finalizer that was removed.             *)
InGroup(g, i, v) == g \in loadGroupIDIfAnyHelper(i, v).ids

Underway(i) == {cache[i]} \cup {events[i][k] : k \in DOMAIN events[i]}

Returns(i) ==
  \E g \in Groups :
    \/ /\ g \in api[i].fins /\ InGroup(g, i, api[i])
       /\ i \in run[g].inactive \/ \E v \in Underway(i) : ~InGroup(g, i, v)
    \/ g \in cache[i].fins /\ g \notin api[i].fins /\ InGroup(g, i, cache[i])

(* i changes to a group that still has its finalizer on i: the group may read a *)
(* status of its own from before i left.                                       *)
Revisits(i) ==
  LET before == loadGroupIDIfAnyHelper(i, api[i])
      after == loadGroupIDIfAnyHelper(i, api[i])'
  IN before.err # "invalid class" /\ \E g \in api[i].fins \cup cache[i].fins :
                                       g \notin before.ids /\ g \in after.ids

Edit(kind) ==
  /\ edits > 0
  /\ kind \in setting.edits
  /\ edits' = edits - 1

Create(i) ==
  /\ Edit("create")
  /\ ~api[i].there
  /\ Write(i, Fresh(setting.start[i]))
  /\ UNCHANGED <<setting, cache, class, backend, queue, run, lb, faults, lags, missed>>

(* A new group, or none.  A reconcile that works with i goes on and may        *)
(* finalize, serve and announce i for the old group (see the README).          *)
Move(i) ==
  \E group \in setting.moves \ {api[i].group} :
    /\ Edit("move")
    /\ api[i].there /\ ~api[i].del
    /\ Write(i, [api[i] EXCEPT !.group = group])
    /\ UNCHANGED <<setting, cache, class, backend, queue, run, lb, faults, lags>>
    /\ setting.returns \/ ~Returns(i)'
    /\ missed' = IF Loaded(i) \/ Revisits(i) THEN missed \cup {i} ELSE missed

Change(i) ==
  /\ Edit("change")
  /\ api[i].there /\ ~api[i].del
  /\ Write(i, [api[i] EXCEPT !.rev = 1 - @])
  /\ UNCHANGED <<setting, cache, class, backend, queue, run, lb, faults, lags, missed>>

Delete(i) ==
  /\ Edit("delete")
  /\ api[i].there /\ ~api[i].del
  /\ Write(i, Finalized([api[i] EXCEPT !.del = TRUE]))
  /\ UNCHANGED <<setting, cache, class, backend, queue, run, lb, faults, lags, missed>>

(* A Service or a Secret changes. *)
ChangeBackend ==
  /\ Edit("backend")
  /\ backend' = 1 - backend
  /\ \E affected \in {OnService, OnSecret} : queue' = queue \cup affected
  /\ UNCHANGED <<setting, api, cache, events, class, run, lb, faults, lags, missed>>

(* The IngressClass or its IngressClassParams change; an Ingress of the class *)
(* may change groups, as in Move.  A group whose finalizer the cache does not *)
(* show yet is not told.                                                      *)
ChangeClass ==
  \E c \in setting.classes \ {class} :
    /\ Edit("class")
    /\ class' = c
    /\ UNCHANGED <<setting, api, cache, events, backend, run, lb, faults, lags>>
    /\ setting.returns \/ \A i \in ByClassName : ~Returns(i)'
    /\ queue' = queue \cup (IF c.group = class.group THEN OnIngressClass
                            ELSE OnIngressClassParams)'
    /\ missed' = missed \cup {i \in ByClassName : \/ Loaded(i) \/ Revisits(i)
                                                 \/ \E g \in Groups : Unseen(g, i)}

(***************************************************************************)
(* A reconcile of a group: load, finalize, plan, deploy, status, release    *)
(***************************************************************************)

Idle == [pc |-> "idle", todo |-> {}, members |-> <<>>, inactive |-> {}, unseen |-> {}]

Members(r) == DOMAIN r.members

(* The stages, each with the Ingresses it has yet to work through, by name; a *)
(* stage without work is passed over.                                         *)
Release(r) ==
  IF r.inactive = {} THEN Idle
  ELSE [r EXCEPT !.pc = "release", !.todo = r.inactive]

Announce(r) ==
  IF Members(r) = {} THEN Release(r)
  ELSE [r EXCEPT !.pc = "status", !.todo = Members(r)]

(* The plan of a group is kept by its first member, if the feature is on. *)
Plan(g, r, i) ==
  IF setting.plan /\ i = First(Members(r))
  THEN <<g, [j \in Members(r) |-> r.members[j].rev]>>
  ELSE <<>>

Build(g, r) ==
  LET stale == {i \in Members(r) : r.members[i].plan # Plan(g, r, i)} IN
  IF stale = {} THEN [r EXCEPT !.pc = "deploy", !.todo = {}]
  ELSE [r EXCEPT !.pc = "plan", !.todo = stale]

(* Mutant: only deletions of Ingresses already finalized are guarded. *)
Finalize_skip(g, r) == Build(g, r)

Finalize(g, r) ==
  IF Members(r) = {} THEN Build(g, r)
  ELSE [r EXCEPT !.pc = "finalize", !.todo = Members(r)]

(* The rest of a stage, and the stage after it. *)
Done(g, r) ==
  LET rest == [r EXCEPT !.todo = @ \ {First(@)}] IN
  IF rest.todo # {} THEN rest
  ELSE CASE r.pc = "finalize" -> Build(g, rest)
         [] r.pc = "plan"     -> [rest EXCEPT !.pc = "deploy"]
         [] r.pc = "status"   -> Release(rest)
         [] OTHER             -> Idle

(* A failed reconcile is queued again; what it did stays. *)
Fail(g) ==
  /\ run' = [run EXCEPT ![g] = Idle]
  /\ queue' = queue \cup {g}

(* The cache has yet to learn that i moved on to another group. *)
Left(g, i) == ~api[i].del /\ g \notin loadGroupIDIfAnyHelper(i, api[i]).ids

(* Load fails, and is tried again, while a member's class is invalid.  That the *)
(* load did not see a finalizer is kept as history, in unseen.                  *)
Start(g) ==
  /\ g \in queue
  /\ run[g].pc = "idle"
  /\ Membership(g, "error") = {}
  /\ queue' = queue \ {g}
  /\ run' = [run EXCEPT ![g] =
       Finalize(g, [Idle EXCEPT !.members = [i \in Membership(g, "active") |-> cache[i]],
                                !.inactive = Membership(g, "inactive"),
                                !.unseen = {i \in Ingresses : Unseen(g, i)}])]
  /\ missed' = missed \cup {i \in Membership(g, "active") : Left(g, i)}
  /\ UNCHANGED <<setting, api, cache, events, class, backend, lb, edits, faults, lags>>

Working(g, pc) == run[g].pc = pc /\ run[g].todo # {}

(* AddFinalizers re-reads the member, which updates it in place, and patches   *)
(* it under an optimistic lock.  A conflict is retried until the cache has     *)
(* caught up, or given up.                                                     *)
AddFinalizer(g) ==
  LET r == run[g]  i == First(r.todo)  v == cache[i]
      Keep(w) == run' = [run EXCEPT ![g] = Done(g, [r EXCEPT !.members[i] = w])]
      patched == [v EXCEPT !.fins = @ \cup {g}]
  IN /\ Working(g, "finalize")
     /\ \/ /\ v.there /\ g \in v.fins
           /\ Keep(v)
           /\ UNCHANGED <<api, events, queue>>
        \/ /\ v.there /\ g \notin v.fins /\ UpToDate(i) /\ ~v.del
           /\ Write(i, patched)
           /\ Keep(patched)
           /\ UNCHANGED queue
        \/ /\ ~v.there \/ (g \notin v.fins /\ (v.del \/ ~api[i].there))
           /\ Fail(g)
           /\ UNCHANGED <<api, events>>
     /\ UNCHANGED <<setting, cache, class, backend, lb, edits, faults, lags, missed>>

(* The plan annotation is patched without a lock, errors are logged only. *)
PatchPlan(g) ==
  LET r == run[g]  i == First(r.todo) IN
  /\ Working(g, "plan")
  /\ \/ /\ IF api[i].there THEN Write(i, [api[i] EXCEPT !.plan = Plan(g, r, i)])
           ELSE UNCHANGED <<api, events>>
        /\ UNCHANGED <<faults, missed>>
     \/ /\ faults > 0
        /\ faults' = faults - 1
        /\ missed' = missed \cup {i}
        /\ UNCHANGED <<api, events>>
  /\ run' = [run EXCEPT ![g] = Done(g, [r EXCEPT !.members[i].plan = Plan(g, r, i)])]
  /\ UNCHANGED <<setting, cache, class, backend, queue, lb, edits, lags>>

(* The deployment of the model built from the members.  As a rule the informer *)
(* has delivered what was written before by the time the calls to AWS return;  *)
(* that a deployment is faster happens lags times.                             *)
Deploy(g) ==
  LET r == run[g] IN
  /\ r.pc = "deploy"
  /\ \/ (\A i \in Ingresses : UpToDate(i)) /\ UNCHANGED lags
     \/ (\E i \in Ingresses : ~UpToDate(i)) /\ lags > 0 /\ lags' = lags - 1
  /\ lb' = [lb EXCEPT ![g] = [i \in Members(r) |-> <<r.members[i].rev, backend>>]]
  /\ run' = [run EXCEPT ![g] = Announce(r)]
  /\ UNCHANGED <<setting, api, cache, events, class, backend, queue, edits, faults, missed>>

(* The hostnames an Ingress announces: those of the load balancer and of the   *)
(* frontend NLB, or the NLB's alone.                                           *)
Hostnames(g, i) ==
  IF setting.nlb /\ i \in setting.nlbOnly THEN <<"", g>>
  ELSE <<g, IF setting.nlb THEN g ELSE "">>

updateIngressStatus(g, i, old) ==
  IF i \in setting.nlbOnly /\ ~setting.nlb THEN old ELSE Hostnames(g, i)

UpdateStatus(g) ==
  LET r == run[g]  i == First(r.todo)
      old == r.members[i].status
      new == updateIngressStatus(g, i, old)
  IN /\ Working(g, "status")
     /\ IF old # new /\ ~api[i].there
        THEN Fail(g) /\ UNCHANGED <<api, events>>
        ELSE /\ IF old = new THEN UNCHANGED <<api, events>>
                ELSE Write(i, [api[i] EXCEPT !.status = new])
             /\ run' = [run EXCEPT ![g] = Done(g, r)]
             /\ UNCHANGED queue
     /\ UNCHANGED <<setting, cache, class, backend, lb, edits, faults, lags, missed>>

RemoveFinalizer(g) ==
  LET r == run[g]  i == First(r.todo)  v == cache[i] IN
  /\ Working(g, "release")
  /\ \/ /\ v.there /\ g \notin v.fins
        /\ run' = [run EXCEPT ![g] = Done(g, r)]
        /\ UNCHANGED <<api, events, queue>>
     \/ /\ v.there /\ g \in v.fins /\ UpToDate(i)
        /\ Write(i, Finalized([v EXCEPT !.fins = @ \ {g}]))
        /\ run' = [run EXCEPT ![g] = Done(g, r)]
        /\ UNCHANGED queue
     \/ /\ ~v.there \/ (g \in v.fins /\ ~api[i].there)
        /\ Fail(g)
        /\ UNCHANGED <<api, events>>
  /\ UNCHANGED <<setting, cache, class, backend, lb, edits, faults, lags, missed>>

(* Any stage may fail: building, deploying, a conflict retried too often. *)
StageFails(g) ==
  /\ faults > 0
  /\ run[g].pc # "idle"
  /\ faults' = faults - 1
  /\ Fail(g)
  /\ UNCHANGED <<setting, api, cache, events, class, backend, lb, edits, lags, missed>>

(* The controller restarts: the informer lists all Ingresses anew, and every   *)
(* one is a Create event.                                                      *)
Restart ==
  /\ faults > 0
  /\ faults' = faults - 1
  /\ cache' = api
  /\ events' = [i \in Ingresses |-> <<>>]
  /\ run' = [g \in Groups |-> Idle]
  /\ queue' = UNION {OnIngress(i, Absent, api[i]) : i \in Ingresses}
  /\ missed' = {}
  /\ UNCHANGED <<setting, api, class, backend, lb, edits, lags>>

(***************************************************************************)
(* The specification                                                       *)
(***************************************************************************)

Init ==
  /\ setting \in Settings
  /\ api = [i \in Ingresses |-> IF i \in setting.present THEN Fresh(setting.start[i])
                                ELSE Absent]
  /\ cache = api
  /\ events = [i \in Ingresses |-> <<>>]
  /\ class = setting.class
  /\ backend = 0
  /\ queue = UNION {OnIngress(i, Absent, api[i]) : i \in Ingresses}
  /\ run = [g \in Groups |-> Idle]
  /\ lb = [g \in Groups |-> <<>>]
  /\ edits = setting.maxEdits
  /\ faults = setting.maxFaults
  /\ lags = setting.maxLags
  /\ missed = {}

User ==
  \/ \E i \in Ingresses : Create(i) \/ Move(i) \/ Change(i) \/ Delete(i)
  \/ ChangeBackend
  \/ ChangeClass

Reconcile(g) ==
  \/ Start(g)
  \/ AddFinalizer(g)
  \/ PatchPlan(g)
  \/ Deploy(g)
  \/ UpdateStatus(g)
  \/ RemoveFinalizer(g)

Next ==
  \/ User
  \/ \E i \in Ingresses : Deliver(i)
  \/ \E g \in Groups : Reconcile(g) \/ StageFails(g)
  \/ Restart

Fairness ==
  /\ \A i \in Ingresses : WF_vars(Deliver(i))
  /\ \A g \in Groups : WF_vars(Reconcile(g))

Spec == Init /\ [][Next]_vars /\ Fairness

(***************************************************************************)
(* Properties                                                              *)
(***************************************************************************)

Served(g) == DOMAIN lb[g]

(* The controller implements IngressServing: it serves only Ingresses that    *)
(* exist, and its finalizers keep an Ingress in the cluster until no load     *)
(* balancer serves it.                                                        *)
Serving == INSTANCE IngressServing WITH
             present <- {i \in Ingresses : api[i].there},
             served <- [g \in Groups |-> Served(g)]

ServesOnlyWhatExists == Serving!Spec

(* An Ingress that leaves a load balancer meant to: it was deleted, joined     *)
(* another group, was given an unusable group name or somebody else's class.   *)
(* An invalid IngressClass, which "might be accidentally modified"             *)
(* (group_loader.go), never takes an Ingress off its load balancer: no         *)
(* reconcile sees it as inactive for that, or does without it, once the cache  *)
(* shows the finalizer the group put on it.                                    *)
WithdrawnOnPurpose ==
  [][\A g \in Groups :
       /\ \A i \in run[g]'.inactive \ run[g].inactive :
            loadGroupIDIfAnyHelper(i, cache[i]).err # "invalid class"
       /\ \A i \in Served(g) \ Served(g)' :
            i \in run[g].inactive \cup run[g].unseen]_vars

(* The same without the exception of a finalizer that has not reached the      *)
(* cache, as the comment in checkGroupMembershipType promises it.              *)
NeverByAccident ==
  [][\A g \in Groups : \A i \in Served(g) \ Served(g)' : i \in run[g].inactive]_vars

(* What a group at rest looks like from one of its Ingresses: the load         *)
(* balancer serves its current revision, it is finalized by that group alone   *)
(* and announces that load balancer.                                           *)
Settled(i) ==
  LET v == api[i]  ids == loadGroupIDIfAnyHelper(i, v).ids IN
  /\ {g \in Groups : i \in Served(g)} = ids
  /\ v.there => v.fins = ids /\ ~v.del
  /\ \A g \in ids : /\ lb[g][i] = <<v.rev, backend>>
                    /\ v.status = updateIngressStatus(g, i, v.status)

(* At most one member of a group carries a plan, and it is the current one. *)
PlansSettled ==
  \A g \in Groups :
    (Served(g) # {} /\ Served(g) \cap missed = {})
    => \A i \in Served(g) : api[i].plan = Plan(g, [members |-> [j \in Served(g) |-> api[j]]], i)

Healthy == \A i \in Ingresses : loadGroupIDIfAnyHelper(i, api[i]).err # "invalid class"

(* Whatever users, caches, failures and restarts do, in the end every Ingress  *)
(* is served by the load balancer of its own group and no other, unless its    *)
(* group changed in the middle of a reconcile that worked with it.             *)
EventuallySettled ==
  <>[](Healthy => PlansSettled /\ \A i \in Ingresses \ missed : Settled(i))

(* The Delete event handler relies on this: an Ingress that is served carries  *)
(* the finalizer of the group, so that a deletion comes as an update.          *)
ServedIsFinalized ==
  \A g \in Groups : \A i \in Served(g) : api[i].there /\ g \in api[i].fins
=============================================================================
