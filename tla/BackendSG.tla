----------------------------- MODULE BackendSG -----------------------------
(***************************************************************************)
(* The backend security group shared by every load balancer of a cluster:  *)
(* pkg/networking/backend_sg_provider.go (Get, Release) driven by the      *)
(* reconcile loops that call it (controllers/ingress, controllers/service, *)
(* controllers/gateway).                                                   *)
(*                                                                         *)
(* A group is one reconcile key: an Ingress group, a Service or a Gateway. *)
(* At most one worker reconciles a group at a time (the work queue), while *)
(* different groups are reconciled concurrently.  An object is an entry of *)
(* objectsMap: one Ingress, Service or Gateway.  A Service or a Gateway is *)
(* the only object of its group; an Ingress may move between groups.       *)
(***************************************************************************)
EXTENDS Naturals, FiniteSets

CONSTANTS
    Groups,          \* reconcile keys
    Objects,         \* keys of objectsMap
    Homes,           \* Homes[o]: the groups object o may ever belong to
    FinalizerFirst,  \* groups that add finalizers before building (Ingress)
    None,            \* "no group", "mutex free"
    MaxChanges,      \* bound: configuration changes by users
    MaxFaults,       \* bound: failed calls and controller restarts
    MaxSG            \* bound: security groups ever created

ASSUME GroupsAssumption ==
    /\ None \notin Groups
    /\ Homes \in [Objects -> SUBSET Groups]
    /\ FinalizerFirst \subseteq Groups
    /\ MaxChanges \in Nat /\ MaxFaults \in Nat /\ MaxSG \in Nat

NoSG == 0   \* the empty security group id

VARIABLES
    member,     \* member[o]: group that o's specification puts it in, or None
    needs,      \* needs[g]: g's specification asks for the backend SG
    fin,        \* fin[o]: groups whose finalizer is on o
    lb,         \* lb[g]: backend SG attached to g's load balancer, or NoSG
    ec2,        \* backend SGs that exist in EC2
    created,    \* number of SGs ever created; SG ids are 1..created
    lost,       \* SGs that EC2 deleted without the response getting through
    objectsMap, \* objectsMap[o] \in {"absent", "true", "false"}
    auto,       \* p.autoGeneratedSG
    mutex,      \* holder of p.mutex
    pc,         \* where the reconcile of g is
    loaded,     \* loaded[g]: what this reconcile of g works with: the members,
                \* the inactive members, and whether the SG is asked for
    sg,         \* sg[g]: the id Get returned to g's model builder
    failed,     \* failed[g]: Release is about to return an error
    changes, faults

k8s == <<member, needs, fin>>
aws == <<lb, ec2, created, lost>>
provider == <<objectsMap, auto, mutex>>
worker == <<pc, loaded, sg, failed>>
vars == <<k8s, aws, provider, worker, changes, faults>>

Steps == {"idle", "addFinalizer", "build", "allocate", "read", "protect",
          "deploy", "release", "check", "lock", "delete", "untrack",
          "removeFinalizer"}

TypeOK ==
    /\ member \in [Objects -> Groups \cup {None}]
    /\ needs \in [Groups -> BOOLEAN]
    /\ fin \in [Objects -> SUBSET Groups]
    /\ lb \in [Groups -> Nat] /\ ec2 \subseteq Nat /\ created \in Nat /\ lost \subseteq Nat
    /\ objectsMap \in [Objects -> {"absent", "true", "false"}]
    /\ auto \in Nat /\ mutex \in Groups \cup {None}
    /\ pc \in [Groups -> Steps]
    /\ loaded \in [Groups -> [members: SUBSET Objects, inactive: SUBSET Objects,
                             required: BOOLEAN]]
    /\ sg \in [Groups -> Nat] /\ failed \in [Groups -> BOOLEAN]
    /\ changes \in Nat /\ faults \in Nat

Init ==
    /\ member = [o \in Objects |-> None]
    /\ needs = [g \in Groups |-> TRUE]
    /\ fin = [o \in Objects |-> {}]
    /\ lb = [g \in Groups |-> NoSG] /\ ec2 = {} /\ created = 0 /\ lost = {}
    /\ objectsMap = [o \in Objects |-> "absent"]
    /\ auto = NoSG /\ mutex = None
    /\ pc = [g \in Groups |-> "idle"]
    /\ loaded = [g \in Groups |-> [members |-> {}, inactive |-> {},
                                  required |-> FALSE]]
    /\ sg = [g \in Groups |-> NoSG]
    /\ failed = [g \in Groups |-> FALSE]
    /\ changes = 0 /\ faults = 0

Goto(g, step) == pc' = [pc EXCEPT ![g] = step]

\* updateObjectsMap: one entry per resource.
updateObjectsMap(os, v) ==
    objectsMap' = [o \in Objects |-> IF o \in os THEN v ELSE objectsMap[o]]

\* Mutant: resources that were not reconciled since the restart are ignored.
isBackendSGRequired_onlyMap == \E o \in Objects : objectsMap[o] = "true"

\* isBackendSGRequired: a true entry, or an object that carries one of the
\* controller's finalizers and has no entry.
isBackendSGRequired ==
    \/ \E o \in Objects : objectsMap[o] = "true"
    \/ \E o \in Objects : fin[o] # {} /\ objectsMap[o] = "absent"

-----------------------------------------------------------------------------
(* Users.                                                                  *)

ChangeMembership(o) ==
    /\ changes < MaxChanges
    /\ \E g \in (Homes[o] \cup {None}) \ {member[o]} : member' = [member EXCEPT ![o] = g]
    /\ changes' = changes + 1
    /\ UNCHANGED <<needs, fin, aws, provider, worker, faults>>

ChangeNeeds(g) ==
    /\ changes < MaxChanges
    /\ needs' = [needs EXCEPT ![g] = ~@]
    /\ changes' = changes + 1
    /\ UNCHANGED <<member, fin, aws, provider, worker, faults>>

-----------------------------------------------------------------------------
(* The reconcile of one group up to the call of Get.                       *)

Members(g) == {o \in Objects : member[o] = g}
InactiveMembers(g) == {o \in Objects : g \in fin[o] /\ member[o] # g}

\* The reconcile starts with the group as it is now.  A Service or Gateway
\* that is not ours and carries no finalizer is left alone.
Load(g) ==
    /\ pc[g] = "idle"
    /\ g \in FinalizerFirst \/ Members(g) \cup InactiveMembers(g) # {}
    /\ loaded' = [loaded EXCEPT ![g] = [members |-> Members(g),
                                        inactive |-> InactiveMembers(g),
                                        required |-> needs[g] /\ Members(g) # {}]]
    /\ sg' = [sg EXCEPT ![g] = NoSG]
    /\ Goto(g, IF g \in FinalizerFirst THEN "addFinalizer" ELSE "build")
    /\ UNCHANGED <<k8s, aws, provider, failed, changes, faults>>

\* AddFinalizers on every loaded member; `from' is its place in the reconcile.
AddFinalizers(g, from, to) ==
    /\ pc[g] = from
    /\ fin' = [o \in Objects |-> IF o \in loaded[g].members THEN fin[o] \cup {g} ELSE fin[o]]
    /\ Goto(g, to)
    /\ UNCHANGED <<member, needs, aws, provider, loaded, sg, failed, changes, faults>>

\* The model builder calls Get exactly when the load balancer exists and its
\* configuration asks for the backend security group.
BuildWithoutSG(g) ==
    /\ pc[g] = "build"
    /\ ~loaded[g].required
    /\ Goto(g, IF g \in FinalizerFirst \/ loaded[g].members = {}
               THEN "deploy" ELSE "protect")
    /\ UNCHANGED <<k8s, aws, provider, loaded, sg, failed, changes, faults>>

\* allocateBackendSG takes the mutex and marks the active resources.  With an
\* id at hand it returns at once, otherwise it keeps the mutex for EC2 calls.
allocateBackendSG(g) ==
    /\ pc[g] = "build"
    /\ loaded[g].required
    /\ mutex = None
    /\ updateObjectsMap(loaded[g].members, "true")
    /\ IF auto # NoSG
       THEN Goto(g, "read") /\ UNCHANGED mutex
       ELSE Goto(g, "allocate") /\ mutex' = g
    /\ UNCHANGED <<k8s, aws, auto, loaded, sg, failed, changes, faults>>

\* A security group tagged for this cluster is adopted.
adoptSG(g) ==
    /\ pc[g] = "allocate"
    /\ \E s \in ec2 : auto' = s
    /\ mutex' = None
    /\ Goto(g, "read")
    /\ UNCHANGED <<k8s, aws, objectsMap, loaded, sg, failed, changes, faults>>

\* CreateSecurityGroup, as EC2 carries it out.
createInEC2 ==
    /\ created < MaxSG
    /\ created' = created + 1
    /\ ec2' = ec2 \cup {created + 1}
    /\ UNCHANGED <<lb, lost>>

\* Mutant: create without looking for an existing security group.
createSG_always(g) ==
    /\ pc[g] = "allocate"
    /\ createInEC2
    /\ auto' = created'
    /\ mutex' = None
    /\ Goto(g, "read")
    /\ UNCHANGED <<k8s, objectsMap, loaded, sg, failed, changes, faults>>

\* Otherwise one is created.
createSG(g) ==
    /\ pc[g] = "allocate"
    /\ ec2 = {}
    /\ createInEC2
    /\ auto' = created'
    /\ mutex' = None
    /\ Goto(g, "read")
    /\ UNCHANGED <<k8s, objectsMap, loaded, sg, failed, changes, faults>>

\* Mutant: the mutex stays locked when the look-up fails.
allocateFails_locked(g) ==
    /\ pc[g] = "allocate" /\ faults < MaxFaults /\ faults' = faults + 1
    /\ Goto(g, "idle")
    /\ UNCHANGED <<k8s, aws, provider, loaded, sg, failed, changes>>

\* allocateBackendSG returns an error: describe or create fails outright.
allocateFails(g) ==
    /\ pc[g] = "allocate" /\ faults < MaxFaults /\ faults' = faults + 1
    /\ mutex' = None
    /\ Goto(g, "idle")
    /\ UNCHANGED <<k8s, aws, objectsMap, auto, loaded, sg, failed, changes>>

\* The group is created and the response is lost.
createResponseLost(g) ==
    /\ pc[g] = "allocate" /\ faults < MaxFaults /\ faults' = faults + 1
    /\ ec2 = {}
    /\ createInEC2
    /\ mutex' = None
    /\ Goto(g, "idle")
    /\ UNCHANGED <<k8s, objectsMap, auto, loaded, sg, failed, changes>>

\* The adopted group is remembered before reconcileTags fails.
reconcileTagsFails(g) ==
    /\ pc[g] = "allocate" /\ faults < MaxFaults /\ faults' = faults + 1
    /\ \E s \in ec2 : auto' = s
    /\ mutex' = None
    /\ Goto(g, "idle")
    /\ UNCHANGED <<k8s, aws, objectsMap, loaded, sg, failed, changes>>

\* Get reads p.autoGeneratedSG after allocateBackendSG released the mutex.
readSG(g) ==
    /\ pc[g] = "read"
    /\ sg' = [sg EXCEPT ![g] = auto]
    /\ Goto(g, IF g \in FinalizerFirst THEN "deploy" ELSE "protect")
    /\ UNCHANGED <<k8s, aws, provider, loaded, failed, changes, faults>>

\* The finalizer cannot be added: a loaded member is deleted by now.
ObjectGone(g) ==
    /\ pc[g] \in {"addFinalizer", "protect"}
    /\ \E o \in loaded[g].members : member[o] # g
    /\ Goto(g, "idle")
    /\ UNCHANGED <<k8s, aws, provider, loaded, sg, failed, changes, faults>>

-----------------------------------------------------------------------------
(* Deployment of the load balancer (external: EC2/ELBv2 behind the stack   *)
(* deployer), and Release.                                                 *)

\* ELBv2 refuses a load balancer with a security group that does not exist.
Deploy(g) ==
    /\ pc[g] = "deploy"
    /\ sg[g] # NoSG => sg[g] \in ec2
    /\ lb' = [lb EXCEPT ![g] = sg[g]]
    /\ Goto(g, IF g \in FinalizerFirst \/ loaded[g].members = {} \/ ~loaded[g].required
               THEN "release" ELSE "idle")
    /\ UNCHANGED <<k8s, ec2, created, lost, provider, loaded, sg, failed, changes, faults>>

DeployRefused(g) ==
    /\ pc[g] = "deploy"
    /\ sg[g] # NoSG /\ sg[g] \notin ec2
    /\ Goto(g, "idle")
    /\ UNCHANGED <<k8s, aws, provider, loaded, sg, failed, changes, faults>>

\* The deployment fails after the load balancer was changed.
DeployFailsLate(g) ==
    /\ pc[g] = "deploy" /\ faults < MaxFaults
    /\ sg[g] # NoSG => sg[g] \in ec2
    /\ lb' = [lb EXCEPT ![g] = sg[g]]
    /\ faults' = faults + 1
    /\ Goto(g, "idle")
    /\ UNCHANGED <<k8s, ec2, created, lost, provider, loaded, sg, failed, changes>>

\* What a reconcile releases: the inactive members, and the members too when
\* the deployed load balancer does not use the backend security group.
Released(g) ==
    loaded[g].inactive \cup (IF loaded[g].required THEN {} ELSE loaded[g].members)

\* Release marks the inactive resources without taking the mutex.
releaseMark(g) ==
    /\ pc[g] = "release"
    /\ updateObjectsMap(Released(g), "false")
    /\ Goto(g, "check")
    /\ UNCHANGED <<k8s, aws, auto, mutex, loaded, sg, failed, changes, faults>>

\* First look at the map and the cluster, still without the mutex.
releaseCheck(g) ==
    /\ pc[g] = "check"
    /\ Goto(g, IF isBackendSGRequired THEN "untrack" ELSE "lock")
    /\ UNCHANGED <<k8s, aws, provider, loaded, sg, failed, changes, faults>>

\* Mutant: the answer of the first check is trusted once the mutex is held.
releaseLock_noRecheck(g) ==
    /\ pc[g] = "lock"
    /\ mutex = None
    /\ IF auto = NoSG
       THEN Goto(g, "untrack") /\ UNCHANGED mutex
       ELSE Goto(g, "delete") /\ mutex' = g
    /\ UNCHANGED <<k8s, aws, objectsMap, auto, loaded, sg, failed, changes, faults>>

\* releaseSG: take the mutex, look again, and keep it for the delete call.
releaseLock(g) ==
    /\ pc[g] = "lock"
    /\ mutex = None
    /\ IF auto = NoSG \/ isBackendSGRequired
       THEN Goto(g, "untrack") /\ UNCHANGED mutex
       ELSE Goto(g, "delete") /\ mutex' = g
    /\ UNCHANGED <<k8s, aws, objectsMap, auto, loaded, sg, failed, changes, faults>>

\* EC2 deletes the group, or reports that it is already gone; both forget it.
deleteSG(g) ==
    /\ pc[g] = "delete"
    /\ \A h \in Groups : lb[h] # auto
    /\ ec2' = ec2 \ {auto}
    /\ auto' = NoSG
    /\ mutex' = None
    /\ Goto(g, "untrack")
    /\ UNCHANGED <<k8s, lb, created, lost, objectsMap, loaded, sg, failed, changes, faults>>

\* The delete fails and the id is kept: a dependency violation that outlasts
\* the retries, or a failed call.
deleteSGFails(g) ==
    /\ pc[g] = "delete"
    /\ \/ (\E h \in Groups : lb[h] = auto) /\ UNCHANGED faults
       \/ faults < MaxFaults /\ faults' = faults + 1
    /\ mutex' = None
    /\ failed' = [failed EXCEPT ![g] = TRUE]
    /\ Goto(g, "untrack")
    /\ UNCHANGED <<k8s, aws, objectsMap, auto, loaded, sg, changes>>

\* The group is deleted and the response is lost.
deleteResponseLost(g) ==
    /\ pc[g] = "delete" /\ faults < MaxFaults /\ faults' = faults + 1
    /\ \A h \in Groups : lb[h] # auto
    /\ ec2' = ec2 \ {auto}
    /\ lost' = lost \cup {auto}
    /\ mutex' = None
    /\ failed' = [failed EXCEPT ![g] = TRUE]
    /\ Goto(g, "untrack")
    /\ UNCHANGED <<k8s, lb, created, objectsMap, auto, loaded, sg, changes>>

\* The deferred CompareAndDelete(key, false) of Release, after its unlock.
releaseUntrack(g) ==
    /\ pc[g] = "untrack"
    /\ objectsMap' = [o \in Objects |->
                        IF o \in Released(g) /\ objectsMap[o] = "false"
                        THEN "absent" ELSE objectsMap[o]]
    /\ failed' = [failed EXCEPT ![g] = FALSE]
    /\ Goto(g, IF failed[g] THEN "idle" ELSE "removeFinalizer")
    /\ UNCHANGED <<k8s, aws, auto, mutex, loaded, sg, changes, faults>>

RemoveFinalizers(g) ==
    /\ pc[g] = "removeFinalizer"
    /\ fin' = [o \in Objects |-> IF o \in loaded[g].inactive THEN fin[o] \ {g} ELSE fin[o]]
    /\ Goto(g, "idle")
    /\ UNCHANGED <<member, needs, aws, provider, loaded, sg, failed, changes, faults>>

-----------------------------------------------------------------------------
(* Failures.                                                               *)

\* A call outside the provider fails and the reconcile returns the error: the
\* work queue tries again from the start.
ReconcileFails(g) ==
    /\ pc[g] \in {"addFinalizer", "build", "protect", "deploy", "removeFinalizer"}
    /\ faults < MaxFaults /\ faults' = faults + 1
    /\ Goto(g, "idle")
    /\ UNCHANGED <<k8s, aws, provider, loaded, sg, failed, changes>>

\* The cluster cannot be listed while Release decides.
releaseListFails(g) ==
    /\ pc[g] = "check" \/ (pc[g] = "lock" /\ mutex = None)
    /\ faults < MaxFaults /\ faults' = faults + 1
    /\ failed' = [failed EXCEPT ![g] = TRUE]
    /\ Goto(g, "untrack")
    /\ UNCHANGED <<k8s, aws, provider, loaded, sg, changes>>

\* The controller restarts, or another replica takes over the lease: what the
\* provider and the workers hold in memory is gone.
Restart ==
    /\ faults < MaxFaults /\ faults' = faults + 1
    /\ objectsMap' = [o \in Objects |-> "absent"]
    /\ auto' = NoSG /\ mutex' = None
    /\ pc' = [g \in Groups |-> "idle"]
    /\ sg' = [g \in Groups |-> NoSG]
    /\ failed' = [g \in Groups |-> FALSE]
    /\ UNCHANGED <<k8s, aws, loaded, changes>>

-----------------------------------------------------------------------------

Reconcile(g) ==
    \/ Load(g)
    \/ AddFinalizers(g, "addFinalizer", "build")
    \/ BuildWithoutSG(g) \/ allocateBackendSG(g) \/ adoptSG(g) \/ createSG(g) \/ readSG(g)
    \/ AddFinalizers(g, "protect", "deploy") \/ ObjectGone(g)
    \/ Deploy(g) \/ DeployRefused(g)
    \/ releaseMark(g) \/ releaseCheck(g) \/ releaseLock(g)
    \/ deleteSG(g) \/ deleteSGFails(g) \/ releaseUntrack(g)
    \/ RemoveFinalizers(g)

Fault(g) ==
    \/ allocateFails(g) \/ createResponseLost(g) \/ reconcileTagsFails(g)
    \/ DeployFailsLate(g) \/ deleteResponseLost(g) \/ releaseListFails(g)
    \/ ReconcileFails(g)

Next ==
    \/ \E o \in Objects : ChangeMembership(o)
    \/ \E g \in Groups : ChangeNeeds(g) \/ Reconcile(g) \/ Fault(g)
    \/ Restart

Spec == Init /\ [][Next]_vars

\* A worker that can go on eventually does, a failed reconcile is retried by
\* the work queue, and the periodic resync re-queues every object that exists.
FairSpec ==
    /\ Spec
    /\ \A g \in Groups :
         WF_vars(/\ pc[g] = "idle" => Members(g) \cup InactiveMembers(g) # {}
                 /\ Reconcile(g))

-----------------------------------------------------------------------------
(* Properties.                                                             *)

Holding(g) == pc[g] \in {"protect", "deploy"} /\ loaded[g].required

\* The id Get returned to a reconcile (read outside the mutex, used several
\* calls later) names a group that still exists when it is deployed, unless
\* EC2 deleted that group earlier and the provider never got the response.
HeldSGExists == \A g \in Groups : Holding(g) => sg[g] \in ec2 \cup lost

\* releaseSG calls DeleteSecurityGroup only for a group no load balancer of
\* the cluster uses, also after a restart emptied objectsMap: the retry loop
\* on DependencyViolation never has to wait for a load balancer of ours.
DeleteOnlyUnused ==
    \A g \in Groups : pc[g] = "delete" => \A h \in Groups : lb[h] # auto

\* allocateBackendSG never creates a second group for the cluster, whatever
\* responses are lost and however often the controller restarts.
AtMostOneSG == Cardinality(ec2) <= 1

\* A load balancer that keeps asking for the backend SG ends up with one, unless a
\* delete whose response was lost left the provider with the id of no group.
EventuallyServed ==
    \A g \in Groups :
        <>[](needs[g] /\ Members(g) # {} /\ auto \in ec2 \cup {NoSG})
            => <>[](lb[g] # NoSG /\ lb[g] \in ec2)

\* backend_sg_provider.go:121-125: once no resource requires it, the
\* controller deletes the backend SG.
ReleasedWhenUnused ==
    <>[](\A g \in Groups : ~needs[g] \/ Members(g) = {}) => []<>(ec2 = {})
=============================================================================
