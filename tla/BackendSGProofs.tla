-------------------------- MODULE BackendSGProofs --------------------------
(***************************************************************************)
(* Proofs about BackendSG for every set of groups and objects and every    *)
(* bound: as long as no object changes its group, the backend security     *)
(* group is never pulled away from a reconcile that was given it, nor      *)
(* deleted under a load balancer, whatever calls fail, whatever responses  *)
(* are lost and however often the controller restarts.                     *)
(***************************************************************************)
EXTENDS BackendSG, FiniteSetTheorems, TLAPS

\* No object ever belongs to two groups: true of Services, Gateways and
\* Ingresses without a group name.
OneHomeEach == \A o \in Objects : \A g, h \in Homes[o] : g = h

OwnObjects(g) == {o \in Objects : g \in Homes[o]}

\* What a reconcile works on are objects of its own group.
Ownership ==
    /\ \A o \in Objects : fin[o] \subseteq Homes[o]
    /\ \A o \in Objects : member[o] = None \/ member[o] \in Homes[o]
    /\ \A g \in Groups : /\ loaded[g].members \subseteq OwnObjects(g)
                         /\ loaded[g].inactive \subseteq OwnObjects(g)
                         /\ loaded[g].members \cap loaded[g].inactive = {}
                         /\ loaded[g].required => loaded[g].members # {}

\* Between Get and the end of the deployment the members' entries are true.
Acquired(g) == pc[g] \in {"allocate", "read", "protect", "deploy"} /\ loaded[g].required

Tracked ==
    \A g \in Groups : Acquired(g) => \A o \in loaded[g].members : objectsMap[o] = "true"

\* The holder of the mutex, and what it may rely on.
Locked ==
    /\ \A g \in Groups : pc[g] \in {"allocate", "delete"} => mutex = g
    /\ \A g \in Groups : pc[g] \in {"allocate", "read"} => loaded[g].required
    /\ \A g \in Groups : pc[g] = "allocate" => auto = NoSG
    /\ \A g \in Groups : pc[g] = "delete" =>
         auto # NoSG /\ \A o \in Objects : objectsMap[o] # "true"

\* The cached id is the one in use; it exists, or its deletion went unnoticed.
Cached ==
    /\ NoSG \notin ec2
    /\ auto # NoSG => auto \in ec2 \cup lost
    /\ \A g \in Groups : pc[g] = "read" => auto # NoSG
    /\ \A g \in Groups : Holding(g) => sg[g] = auto /\ auto # NoSG

Inv == TypeOK /\ Ownership /\ Tracked /\ Locked /\ Cached

-----------------------------------------------------------------------------

\* Initially nothing is loaded, tracked or locked.
LEMMA InitInv == Init => Inv
BY GroupsAssumption DEF Init, Inv, TypeOK, Ownership, OwnObjects, Tracked,
   Acquired, Locked, Cached, Holding, NoSG, Steps

\* Users only move an object between its homes.
LEMMA UserInv ==
    ASSUME Inv, \/ \E o \in Objects : ChangeMembership(o)
                \/ \E g \in Groups : ChangeNeeds(g)
    PROVE Inv'
<1>1. CASE \E o \in Objects : ChangeMembership(o)
  <2>1. PICK o \in Objects : ChangeMembership(o)
    BY <1>1
  <2>2. PICK g \in Homes[o] \cup {None} : member' = [member EXCEPT ![o] = g]
    BY <2>1 DEF ChangeMembership
  <2>3. TypeOK'
    <3>1. member' \in [Objects -> Groups \cup {None}]
      BY <2>2, GroupsAssumption DEF Inv, TypeOK
    <3> QED
      BY <3>1, <2>1, GroupsAssumption
      DEF ChangeMembership, aws, provider, worker, Inv, TypeOK
  <2>4. Ownership'
    BY <2>1, <2>2, GroupsAssumption
    DEF ChangeMembership, aws, provider, worker, Inv, TypeOK, Ownership, OwnObjects
  <2>5. (Tracked /\ Locked /\ Cached)'
    BY <2>1 DEF ChangeMembership, aws, provider, worker, Inv, Tracked, Acquired,
               Locked, Cached, Holding
  <2> QED BY <2>3, <2>4, <2>5 DEF Inv
<1>2. CASE \E g \in Groups : ChangeNeeds(g)
  BY <1>2, GroupsAssumption
  DEF ChangeNeeds, aws, provider, worker, Inv, TypeOK, Ownership,
      OwnObjects, Tracked, Acquired, Locked, Cached, Holding
<1> QED BY <1>1, <1>2

\* The loaded members and inactive members belong to the group.
LEMMA LoadInv ==
    ASSUME Inv, NEW g \in Groups, Load(g)
    PROVE Inv'
<1> USE GroupsAssumption DEF Inv
<1> DEFINE new == [members |-> Members(g), inactive |-> InactiveMembers(g),
                   required |-> needs[g] /\ Members(g) # {}]
<1>a. loaded' = [loaded EXCEPT ![g] = new]
  BY DEF Load
<1>b. /\ Members(g) \subseteq OwnObjects(g) /\ InactiveMembers(g) \subseteq OwnObjects(g)
      /\ Members(g) \cap InactiveMembers(g) = {}
  BY DEF Members, InactiveMembers, OwnObjects, Ownership, TypeOK
<1>c. new \in [members: SUBSET Objects, inactive: SUBSET Objects, required: BOOLEAN]
  BY DEF Members, InactiveMembers, TypeOK
<1>1. TypeOK'
  <2> HIDE DEF new
  <2>1. loaded' \in [Groups -> [members: SUBSET Objects, inactive: SUBSET Objects,
                                required: BOOLEAN]]
    BY <1>a, <1>c DEF TypeOK
  <2> QED BY <2>1 DEF Load, Goto, k8s, aws, provider, TypeOK, Steps, NoSG
<1>2. Ownership'
  <2>1. \A h \in Groups : loaded'[h] = IF h = g THEN new ELSE loaded[h]
    BY <1>a DEF TypeOK
  <2>2. /\ new.members = Members(g) /\ new.inactive = InactiveMembers(g)
        /\ new.required => new.members # {}
    OBVIOUS
  <2>3. UNCHANGED <<fin, member>>
    BY DEF Load, k8s
  <2>4. ASSUME NEW h \in Groups
        PROVE /\ loaded'[h].members \subseteq OwnObjects(h)
              /\ loaded'[h].inactive \subseteq OwnObjects(h)
              /\ loaded'[h].members \cap loaded'[h].inactive = {}
              /\ loaded'[h].required => loaded'[h].members # {}
    <3>1. CASE h = g
      <4> HIDE DEF new
      <4> QED BY <3>1, <1>b, <2>1, <2>2
    <3>2. CASE h # g
      BY <3>2, <2>1 DEF Ownership
    <3> QED BY <3>1, <3>2
  <2> QED BY <2>3, <2>4 DEF Ownership, OwnObjects
<1>3. Tracked'
  BY DEF Load, Goto, Members, InactiveMembers, k8s, aws, provider, TypeOK, Ownership,
     OwnObjects, Tracked, Acquired, Locked, OneHomeEach
<1>4. Locked'
  BY DEF Load, Goto, Members, InactiveMembers, k8s, aws, provider, TypeOK, Ownership,
     Tracked, Acquired, Locked, Cached, NoSG
<1>5. Cached'
  BY DEF Load, Goto, Members, InactiveMembers, k8s, aws, provider, TypeOK, Ownership,
     Tracked, Acquired, Locked, Cached, Holding, NoSG
<1> QED BY <1>1, <1>2, <1>3, <1>4, <1>5

\* Finalizers are added between steps that agree on what is held.
LEMMA AddFinalizersInv ==
    ASSUME Inv, NEW g \in Groups, 
           \/ AddFinalizers(g, "addFinalizer", "build")
           \/ AddFinalizers(g, "protect", "deploy")
    PROVE Inv'
<1> USE GroupsAssumption DEF Inv
<1>1. TypeOK'
  <2>1. CASE AddFinalizers(g, "addFinalizer", "build")
    BY <2>1 DEF AddFinalizers, Goto, aws, provider, TypeOK, Steps
  <2>2. CASE AddFinalizers(g, "protect", "deploy")
    BY <2>2 DEF AddFinalizers, Goto, aws, provider, TypeOK, Steps
  <2> QED BY <2>1, <2>2
<1>2. Ownership'
  BY DEF AddFinalizers, Goto, aws, provider, TypeOK, Ownership, OwnObjects
<1>3. Tracked'
  BY DEF AddFinalizers, Goto, aws, provider, TypeOK, Ownership, Tracked, Acquired,
     Locked
<1>4. Locked'
  BY DEF AddFinalizers, Goto, aws, provider, TypeOK, Ownership, Tracked, Acquired,
     Locked, Cached, NoSG
<1>5. Cached'
  BY DEF AddFinalizers, Goto, aws, provider, TypeOK, Ownership, Tracked, Acquired,
     Locked, Cached, Holding, NoSG
<1> QED BY <1>1, <1>2, <1>3, <1>4, <1>5

\* A load balancer without the backend SG holds nothing.
LEMMA BuildWithoutSGInv ==
    ASSUME Inv, NEW g \in Groups, BuildWithoutSG(g)
    PROVE Inv'
<1> USE GroupsAssumption DEF Inv
<1>1. TypeOK'
  BY DEF BuildWithoutSG, Goto, k8s, aws, provider, TypeOK, Steps
<1>2. Ownership'
  BY DEF BuildWithoutSG, Goto, k8s, aws, provider, TypeOK, Ownership, OwnObjects
<1>3. Tracked'
  BY DEF BuildWithoutSG, Goto, k8s, aws, provider, TypeOK, Ownership, Tracked,
     Acquired, Locked
<1>4. Locked'
  BY DEF BuildWithoutSG, Goto, k8s, aws, provider, TypeOK, Ownership, Tracked,
     Acquired, Locked, Cached, NoSG
<1>5. Cached'
  BY DEF BuildWithoutSG, Goto, k8s, aws, provider, TypeOK, Ownership, Tracked,
     Acquired, Locked, Cached, Holding, NoSG
<1> QED BY <1>1, <1>2, <1>3, <1>4, <1>5

\* The entries become true under the mutex.
LEMMA AllocateInv ==
    ASSUME Inv, NEW g \in Groups, allocateBackendSG(g)
    PROVE Inv'
<1> USE GroupsAssumption DEF Inv
<1>1. TypeOK'
  BY DEF allocateBackendSG, updateObjectsMap, Goto, k8s, aws, TypeOK, Steps
<1>2. Ownership'
  BY DEF allocateBackendSG, updateObjectsMap, Goto, k8s, aws, TypeOK, Ownership,
     OwnObjects
<1>3. Tracked'
  BY DEF allocateBackendSG, updateObjectsMap, Goto, k8s, aws, TypeOK, Ownership,
     Tracked, Acquired, Locked
<1>4. Locked'
  BY DEF allocateBackendSG, updateObjectsMap, Goto, k8s, aws, TypeOK, Ownership,
     Tracked, Acquired, Locked, Cached, NoSG
<1>5. Cached'
  BY DEF allocateBackendSG, updateObjectsMap, Goto, k8s, aws, TypeOK, Ownership,
     Tracked, Acquired, Locked, Cached, Holding, NoSG
<1> QED BY <1>1, <1>2, <1>3, <1>4, <1>5

\* No other reconcile holds an id while this one adopts a group.
LEMMA AdoptInv ==
    ASSUME Inv, NEW g \in Groups, adoptSG(g)
    PROVE Inv'
<1> USE GroupsAssumption DEF Inv
<1>1. TypeOK'
  <2>1. auto' \in Nat
    BY DEF adoptSG, TypeOK
  <2> QED BY <2>1 DEF adoptSG, Goto, k8s, aws, TypeOK, Steps
<1>2. Ownership'
  BY DEF adoptSG, Goto, k8s, aws, TypeOK, Ownership, OwnObjects
<1>3. Tracked'
  BY DEF adoptSG, Goto, k8s, aws, TypeOK, Ownership, Tracked, Acquired, Locked
<1>4. Locked'
  BY DEF adoptSG, Goto, k8s, aws, TypeOK, Ownership, Tracked, Acquired, Locked,
     Cached, NoSG
<1>5. Cached'
  BY DEF adoptSG, Goto, k8s, aws, TypeOK, Ownership, Tracked, Acquired, Locked,
     Cached, Holding, NoSG
<1> QED BY <1>1, <1>2, <1>3, <1>4, <1>5

\* No other reconcile holds an id while this one creates a group.
LEMMA CreateInv ==
    ASSUME Inv, NEW g \in Groups, createSG(g)
    PROVE Inv'
<1> USE GroupsAssumption DEF Inv
<1>1. TypeOK'
  <2>1. created' \in Nat /\ ec2' \subseteq Nat
    BY DEF createSG, createInEC2, TypeOK
  <2>2. auto' \in Nat
    BY <2>1 DEF createSG, TypeOK
  <2> QED BY <2>1, <2>2 DEF createSG, createInEC2, Goto, k8s, TypeOK, Steps
<1>2. Ownership'
  BY DEF createSG, createInEC2, Goto, k8s, TypeOK, Ownership, OwnObjects
<1>3. Tracked'
  BY DEF createSG, createInEC2, Goto, k8s, TypeOK, Ownership, Tracked, Acquired, Locked
<1>4. Locked'
  BY DEF createSG, createInEC2, Goto, k8s, TypeOK, Ownership, Tracked, Acquired,
     Locked, Cached, NoSG
<1>5. Cached'
  BY DEF createSG, createInEC2, Goto, k8s, TypeOK, Ownership, Tracked, Acquired,
     Locked, Cached, Holding, NoSG
<1> QED BY <1>1, <1>2, <1>3, <1>4, <1>5

\* An outright failure changes nothing but the mutex.
LEMMA AllocateFailsInv ==
    ASSUME Inv, NEW g \in Groups, allocateFails(g)
    PROVE Inv'
<1> USE GroupsAssumption DEF Inv
<1>1. TypeOK'
  BY DEF allocateFails, Goto, k8s, aws, TypeOK, Steps
<1>2. Ownership'
  BY DEF allocateFails, Goto, k8s, aws, TypeOK, Ownership, OwnObjects
<1>3. Tracked'
  BY DEF allocateFails, Goto, k8s, aws, TypeOK, Ownership, Tracked, Acquired, Locked
<1>4. Locked'
  BY DEF allocateFails, Goto, k8s, aws, TypeOK, Ownership, Tracked, Acquired, Locked,
     Cached, NoSG
<1>5. Cached'
  BY DEF allocateFails, Goto, k8s, aws, TypeOK, Ownership, Tracked, Acquired, Locked,
     Cached, Holding, NoSG
<1> QED BY <1>1, <1>2, <1>3, <1>4, <1>5

\* A group whose response is lost exists and is not cached.
LEMMA CreateLostInv ==
    ASSUME Inv, NEW g \in Groups, createResponseLost(g)
    PROVE Inv'
<1> USE GroupsAssumption DEF Inv
<1>1. TypeOK'
  <2>1. created' \in Nat /\ ec2' \subseteq Nat
    BY DEF createResponseLost, createInEC2, TypeOK
  <2>2. auto' \in Nat
    BY <2>1 DEF createResponseLost, TypeOK
  <2> QED BY <2>1, <2>2 DEF createResponseLost, createInEC2, Goto, k8s, TypeOK, Steps
<1>2. Ownership'
  BY DEF createResponseLost, createInEC2, Goto, k8s, TypeOK, Ownership, OwnObjects
<1>3. Tracked'
  BY DEF createResponseLost, createInEC2, Goto, k8s, TypeOK, Ownership, Tracked,
     Acquired, Locked
<1>4. Locked'
  BY DEF createResponseLost, createInEC2, Goto, k8s, TypeOK, Ownership, Tracked,
     Acquired, Locked, Cached, NoSG
<1>5. Cached'
  BY DEF createResponseLost, createInEC2, Goto, k8s, TypeOK, Ownership, Tracked,
     Acquired, Locked, Cached, Holding, NoSG
<1> QED BY <1>1, <1>2, <1>3, <1>4, <1>5

\* A group adopted by a failing allocation exists.
LEMMA TagsFailInv ==
    ASSUME Inv, NEW g \in Groups, reconcileTagsFails(g)
    PROVE Inv'
<1> USE GroupsAssumption DEF Inv
<1>1. TypeOK'
  <2>1. auto' \in Nat
    BY DEF reconcileTagsFails, TypeOK
  <2> QED BY <2>1 DEF reconcileTagsFails, Goto, k8s, aws, TypeOK, Steps
<1>2. Ownership'
  BY DEF reconcileTagsFails, Goto, k8s, aws, TypeOK, Ownership, OwnObjects
<1>3. Tracked'
  BY DEF reconcileTagsFails, Goto, k8s, aws, TypeOK, Ownership, Tracked, Acquired,
     Locked
<1>4. Locked'
  BY DEF reconcileTagsFails, Goto, k8s, aws, TypeOK, Ownership, Tracked, Acquired,
     Locked, Cached, NoSG
<1>5. Cached'
  BY DEF reconcileTagsFails, Goto, k8s, aws, TypeOK, Ownership, Tracked, Acquired,
     Locked, Cached, Holding, NoSG
<1> QED BY <1>1, <1>2, <1>3, <1>4, <1>5

\* The unlocked read sees the id the allocation left.
LEMMA ReadInv ==
    ASSUME Inv, NEW g \in Groups, readSG(g)
    PROVE Inv'
<1> USE GroupsAssumption DEF Inv
<1>1. TypeOK'
  BY DEF readSG, Goto, k8s, aws, provider, TypeOK, Steps
<1>2. Ownership'
  BY DEF readSG, Goto, k8s, aws, provider, TypeOK, Ownership, OwnObjects
<1>3. Tracked'
  BY DEF readSG, Goto, k8s, aws, provider, TypeOK, Ownership, Tracked, Acquired, Locked
<1>4. Locked'
  BY DEF readSG, Goto, k8s, aws, provider, TypeOK, Ownership, Tracked, Acquired,
     Locked, Cached, NoSG
<1>5. Cached'
  BY DEF readSG, Goto, k8s, aws, provider, TypeOK, Ownership, Tracked, Acquired,
     Locked, Cached, Holding, NoSG
<1> QED BY <1>1, <1>2, <1>3, <1>4, <1>5

\* A reconcile that returns holds nothing any more.
LEMMA ReturnInv ==
    ASSUME Inv, NEW g \in Groups, ObjectGone(g) \/ DeployRefused(g) \/ ReconcileFails(g)
    PROVE Inv'
<1> USE GroupsAssumption DEF Inv
<1>1. TypeOK'
  <2>1. CASE ObjectGone(g)
    BY <2>1 DEF ObjectGone, Goto, k8s, aws, provider, TypeOK, Steps
  <2>2. CASE DeployRefused(g)
    BY <2>2 DEF DeployRefused, Goto, k8s, aws, provider, TypeOK, Steps
  <2>3. CASE ReconcileFails(g)
    BY <2>3 DEF ReconcileFails, Goto, k8s, aws, provider, TypeOK, Steps
  <2> QED BY <2>1, <2>2, <2>3
<1>2. Ownership'
  BY DEF ObjectGone, DeployRefused, ReconcileFails, Goto, k8s, aws, provider, TypeOK,
     Ownership, OwnObjects
<1>3. Tracked'
  BY DEF ObjectGone, DeployRefused, ReconcileFails, Goto, k8s, aws, provider, TypeOK,
     Ownership, Tracked, Acquired, Locked
<1>4. Locked'
  BY DEF ObjectGone, DeployRefused, ReconcileFails, Goto, k8s, aws, provider, TypeOK,
     Ownership, Tracked, Acquired, Locked, Cached, NoSG
<1>5. Cached'
  BY DEF ObjectGone, DeployRefused, ReconcileFails, Goto, k8s, aws, provider, TypeOK,
     Ownership, Tracked, Acquired, Locked, Cached, Holding, NoSG
<1> QED BY <1>1, <1>2, <1>3, <1>4, <1>5

\* The deployment ends the use of the id.
LEMMA DeployInv ==
    ASSUME Inv, NEW g \in Groups, Deploy(g) \/ DeployFailsLate(g)
    PROVE Inv'
<1> USE GroupsAssumption DEF Inv
<1>1. TypeOK'
  <2>1. CASE Deploy(g)
    BY <2>1 DEF Deploy, Goto, k8s, provider, TypeOK, Steps
  <2>2. CASE DeployFailsLate(g)
    BY <2>2 DEF DeployFailsLate, Goto, k8s, provider, TypeOK, Steps
  <2> QED BY <2>1, <2>2
<1>2. Ownership'
  BY DEF Deploy, DeployFailsLate, Goto, k8s, provider, TypeOK, Ownership, OwnObjects
<1>3. Tracked'
  BY SMTT(30) DEF Deploy, DeployFailsLate, Goto, k8s, provider, TypeOK, Ownership, Tracked,
     Acquired, Locked
<1>4. Locked'
  BY DEF Deploy, DeployFailsLate, Goto, k8s, provider, TypeOK, Ownership, Tracked,
     Acquired, Locked, Cached, NoSG
<1>5. Cached'
  BY DEF Deploy, DeployFailsLate, Goto, k8s, provider, TypeOK, Ownership, Tracked,
     Acquired, Locked, Cached, Holding, NoSG
<1> QED BY <1>1, <1>2, <1>3, <1>4, <1>5

\* Release only marks objects of its own group, none of which is acquired by
\* another group.
LEMMA MarkInv ==
    ASSUME Inv, OneHomeEach, NEW g \in Groups, releaseMark(g)
    PROVE Inv'
<1> USE GroupsAssumption DEF Inv
<1>1. TypeOK'
  BY DEF releaseMark, Released, updateObjectsMap, Goto, k8s, aws, TypeOK, Steps
<1>2. Ownership'
  BY DEF releaseMark, Released, updateObjectsMap, Goto, k8s, aws, TypeOK, Ownership,
     OwnObjects
<1>3. Tracked'
  BY DEF releaseMark, Released, updateObjectsMap, Goto, k8s, aws, TypeOK, Ownership,
     Tracked, Acquired, Locked, OwnObjects, OneHomeEach
<1>4. Locked'
  BY DEF releaseMark, Released, updateObjectsMap, Goto, k8s, aws, TypeOK, Ownership,
     Tracked, Acquired, Locked, Cached, NoSG
<1>5. Cached'
  BY DEF releaseMark, Released, updateObjectsMap, Goto, k8s, aws, TypeOK, Ownership,
     Tracked, Acquired, Locked, Cached, Holding, NoSG
<1> QED BY <1>1, <1>2, <1>3, <1>4, <1>5

\* The first check decides nothing that is relied on.
LEMMA CheckInv ==
    ASSUME Inv, NEW g \in Groups, releaseCheck(g) \/ releaseListFails(g)
    PROVE Inv'
<1> USE GroupsAssumption DEF Inv
<1>1. TypeOK'
  <2>1. CASE releaseCheck(g)
    BY <2>1 DEF releaseCheck, Goto, k8s, aws, provider, TypeOK, Steps
  <2>2. CASE releaseListFails(g)
    BY <2>2 DEF releaseListFails, Goto, k8s, aws, provider, TypeOK, Steps
  <2> QED BY <2>1, <2>2
<1>2. Ownership'
  BY DEF releaseCheck, releaseListFails, Goto, k8s, aws, provider, TypeOK, Ownership,
     OwnObjects
<1>3. Tracked'
  BY DEF releaseCheck, releaseListFails, Goto, k8s, aws, provider, TypeOK, Ownership,
     Tracked, Acquired, Locked
<1>4. Locked'
  BY DEF releaseCheck, releaseListFails, Goto, k8s, aws, provider, TypeOK, Ownership,
     Tracked, Acquired, Locked, Cached, NoSG
<1>5. Cached'
  BY DEF releaseCheck, releaseListFails, Goto, k8s, aws, provider, TypeOK, Ownership,
     Tracked, Acquired, Locked, Cached, Holding, NoSG
<1> QED BY <1>1, <1>2, <1>3, <1>4, <1>5

\* The second check finds no true entry before the delete.
LEMMA LockInv ==
    ASSUME Inv, NEW g \in Groups, releaseLock(g)
    PROVE Inv'
<1> USE GroupsAssumption DEF Inv
<1>1. TypeOK'
  BY SMTT(30) DEF releaseLock, isBackendSGRequired, Goto, k8s, aws, TypeOK, Steps
<1>2. Ownership'
  BY DEF releaseLock, isBackendSGRequired, Goto, k8s, aws, TypeOK, Ownership, OwnObjects
<1>3. Tracked'
  BY SMTT(40) DEF releaseLock, isBackendSGRequired, Goto, k8s, aws, TypeOK, Ownership,
     Tracked, Acquired, Locked
<1>4. Locked'
  BY SMTT(40) DEF releaseLock, isBackendSGRequired, Goto, k8s, aws, TypeOK, Ownership,
     Tracked, Acquired, Locked, Cached, NoSG
<1>5. Cached'
  BY DEF releaseLock, isBackendSGRequired, Goto, k8s, aws, TypeOK, Ownership,
     Tracked, Acquired, Locked, Cached, Holding, NoSG
<1> QED BY <1>1, <1>2, <1>3, <1>4, <1>5

\* Nobody holds the id that is deleted: its members' entries would be true.
LEMMA DeleteInv ==
    ASSUME Inv, NEW g \in Groups, deleteSG(g)
    PROVE Inv'
<1> USE GroupsAssumption DEF Inv
<1>1. TypeOK'
  BY DEF deleteSG, Goto, k8s, NoSG, TypeOK, Steps
<1>2. Ownership'
  BY DEF deleteSG, Goto, k8s, NoSG, TypeOK, Ownership, OwnObjects
<1>3. Tracked'
  BY DEF deleteSG, Goto, k8s, NoSG, TypeOK, Ownership, Tracked, Acquired, Locked
<1>4. Locked'
  BY DEF deleteSG, Goto, k8s, NoSG, TypeOK, Ownership, Tracked, Acquired, Locked, Cached
<1>5. Cached'
  BY DEF deleteSG, Goto, k8s, NoSG, TypeOK, Ownership, Tracked, Acquired, Locked,
     Cached, Holding
<1> QED BY <1>1, <1>2, <1>3, <1>4, <1>5

\* A failed delete keeps the id and the group.
LEMMA DeleteFailsInv ==
    ASSUME Inv, NEW g \in Groups, deleteSGFails(g)
    PROVE Inv'
<1> USE GroupsAssumption DEF Inv
<1>1. TypeOK'
  BY DEF deleteSGFails, Goto, k8s, aws, TypeOK, Steps
<1>2. Ownership'
  BY DEF deleteSGFails, Goto, k8s, aws, TypeOK, Ownership, OwnObjects
<1>3. Tracked'
  BY DEF deleteSGFails, Goto, k8s, aws, TypeOK, Ownership, Tracked, Acquired, Locked
<1>4. Locked'
  BY DEF deleteSGFails, Goto, k8s, aws, TypeOK, Ownership, Tracked, Acquired, Locked,
     Cached, NoSG
<1>5. Cached'
  BY DEF deleteSGFails, Goto, k8s, aws, TypeOK, Ownership, Tracked, Acquired, Locked,
     Cached, Holding, NoSG
<1> QED BY <1>1, <1>2, <1>3, <1>4, <1>5

\* A delete without a response keeps the id of a group that nobody holds.
LEMMA DeleteLostInv ==
    ASSUME Inv, NEW g \in Groups, deleteResponseLost(g)
    PROVE Inv'
<1> USE GroupsAssumption DEF Inv
<1>1. TypeOK'
  BY DEF deleteResponseLost, Goto, k8s, TypeOK, Steps
<1>2. Ownership'
  BY DEF deleteResponseLost, Goto, k8s, TypeOK, Ownership, OwnObjects
<1>3. Tracked'
  BY DEF deleteResponseLost, Goto, k8s, TypeOK, Ownership, Tracked, Acquired, Locked
<1>4. Locked'
  BY DEF deleteResponseLost, Goto, k8s, TypeOK, Ownership, Tracked, Acquired, Locked,
     Cached, NoSG
<1>5. Cached'
  BY DEF deleteResponseLost, Goto, k8s, TypeOK, Ownership, Tracked, Acquired, Locked,
     Cached, Holding, NoSG
<1> QED BY <1>1, <1>2, <1>3, <1>4, <1>5

\* Only false entries are forgotten.
LEMMA UntrackInv ==
    ASSUME Inv, NEW g \in Groups, releaseUntrack(g)
    PROVE Inv'
<1> USE GroupsAssumption DEF Inv
<1>1. TypeOK'
  BY DEF releaseUntrack, Released, Goto, k8s, aws, TypeOK, Steps
<1>2. Ownership'
  BY DEF releaseUntrack, Released, Goto, k8s, aws, TypeOK, Ownership, OwnObjects
<1>3. Tracked'
  BY DEF releaseUntrack, Released, Goto, k8s, aws, TypeOK, Ownership, Tracked,
     Acquired, Locked
<1>4. Locked'
  BY DEF releaseUntrack, Released, Goto, k8s, aws, TypeOK, Ownership, Tracked,
     Acquired, Locked, Cached, NoSG
<1>5. Cached'
  BY DEF releaseUntrack, Released, Goto, k8s, aws, TypeOK, Ownership, Tracked,
     Acquired, Locked, Cached, Holding, NoSG
<1> QED BY <1>1, <1>2, <1>3, <1>4, <1>5

\* Removing finalizers keeps the others.
LEMMA RemoveFinalizersInv ==
    ASSUME Inv, NEW g \in Groups, RemoveFinalizers(g)
    PROVE Inv'
<1> USE GroupsAssumption DEF Inv
<1>1. TypeOK'
  BY DEF RemoveFinalizers, Goto, aws, provider, TypeOK, Steps
<1>2. Ownership'
  BY DEF RemoveFinalizers, Goto, aws, provider, TypeOK, Ownership, OwnObjects
<1>3. Tracked'
  BY DEF RemoveFinalizers, Goto, aws, provider, TypeOK, Ownership, Tracked, Acquired,
     Locked
<1>4. Locked'
  BY DEF RemoveFinalizers, Goto, aws, provider, TypeOK, Ownership, Tracked, Acquired,
     Locked, Cached, NoSG
<1>5. Cached'
  BY DEF RemoveFinalizers, Goto, aws, provider, TypeOK, Ownership, Tracked, Acquired,
     Locked, Cached, Holding, NoSG
<1> QED BY <1>1, <1>2, <1>3, <1>4, <1>5

\* A restart forgets every use of the SG together with the workers.
LEMMA RestartInv == ASSUME Inv, Restart PROVE Inv'
BY SMTT(40), GroupsAssumption
DEF Restart, k8s, aws, Inv, TypeOK, Ownership, OwnObjects, Tracked, Acquired,
    Locked, Cached, Holding, NoSG, Steps

\* Every step keeps Inv.
LEMMA NextInv ==
    ASSUME OneHomeEach, Inv, [Next]_vars
    PROVE Inv'
<1>1. ASSUME NEW g \in Groups, Reconcile(g) PROVE Inv'
  BY <1>1, LoadInv, AddFinalizersInv, BuildWithoutSGInv, AllocateInv, AdoptInv,
     CreateInv, ReadInv, ReturnInv, DeployInv, MarkInv, CheckInv, LockInv,
     DeleteInv, DeleteFailsInv, UntrackInv, RemoveFinalizersInv
  DEF Reconcile
<1>2. ASSUME NEW g \in Groups, Fault(g) PROVE Inv'
  BY <1>2, AllocateFailsInv, CreateLostInv, TagsFailInv, ReturnInv, DeployInv,
     CheckInv, DeleteLostInv, SMTT(30)
  DEF Fault
<1>3. CASE UNCHANGED vars
  BY <1>3 DEF vars, k8s, aws, provider, worker, Inv, TypeOK, Ownership, OwnObjects,
              Tracked, Acquired, Locked, Cached, Holding
<1> QED BY <1>1, <1>2, <1>3, UserInv, RestartInv DEF Next

\* The model's variables keep their types.
THEOREM TypeCorrect ==
    ASSUME OneHomeEach
    PROVE Spec => []TypeOK
<1>1. Inv => TypeOK BY DEF Inv
<1> QED BY InitInv, NextInv, <1>1, PTL DEF Spec

\* The id Get returned to a reconcile names an existing group until the
\* deployment that uses it is over, whatever the other groups allocate and
\* release meanwhile; the exception is a group that EC2 deleted for an earlier
\* Release which never got the response.
THEOREM HeldSGNeverDeleted ==
    ASSUME OneHomeEach
    PROVE Spec => []HeldSGExists
<1>1. Inv => HeldSGExists BY DEF Inv, Cached, HeldSGExists
<1> QED BY InitInv, NextInv, <1>1, PTL DEF Spec

\* EC2 has no backend SG, or one.
Single == \A s, t \in ec2 : s = t

\* Groups only come to exist where there is none, and the holder of the mutex
\* is the only one to look for one.
LEMMA SingleStep == ASSUME Single, [Next]_vars PROVE Single'
<1>1. CASE ec2' \subseteq ec2
  BY <1>1 DEF Single
<1>2. CASE ec2 = {} /\ createInEC2
  <2>1. ec2' = {created + 1}
    BY <1>2 DEF createInEC2
  <2> QED BY <2>1 DEF Single
<1>3. ASSUME NEW g \in Groups, Reconcile(g)
      PROVE  ec2' \subseteq ec2 \/ (ec2 = {} /\ createInEC2)
  BY <1>3 DEF Reconcile, Load, AddFinalizers, BuildWithoutSG, allocateBackendSG, adoptSG,
     createSG, readSG, ObjectGone, Deploy, DeployRefused, releaseMark, releaseCheck,
     releaseLock, deleteSG, deleteSGFails, releaseUntrack, RemoveFinalizers, aws
<1>4. ASSUME NEW g \in Groups, Fault(g)
      PROVE  ec2' \subseteq ec2 \/ (ec2 = {} /\ createInEC2)
  BY <1>4 DEF Fault, allocateFails, createResponseLost, reconcileTagsFails, DeployFailsLate,
     deleteResponseLost, releaseListFails, ReconcileFails, aws
<1>5. CASE \/ UNCHANGED vars \/ Restart \/ (\E o \in Objects : ChangeMembership(o))
           \/ \E g \in Groups : ChangeNeeds(g)
  BY <1>1, <1>5 DEF vars, Restart, ChangeMembership, ChangeNeeds, aws
<1> QED BY <1>1, <1>2, <1>3, <1>4, <1>5 DEF Next

\* The cluster never has two backend SGs, also after creations and deletions
\* without a response and after restarts: what exists is adopted first.
THEOREM OneSG == Spec => []AtMostOneSG
<1>1. Init => Single
  BY DEF Init, Single
<1>2. Single => AtMostOneSG
  <2> SUFFICES ASSUME Single PROVE Cardinality(ec2) <= 1
    BY DEF AtMostOneSG
  <2>1. CASE ec2 = {}
    BY <2>1, FS_EmptySet
  <2>2. CASE ec2 # {}
    <3>1. PICK s : s \in ec2
      BY <2>2
    <3>2. ec2 = {s}
      BY <3>1 DEF Single
    <3> QED BY <3>2, FS_Singleton
  <2> QED BY <2>1, <2>2
<1> QED BY <1>1, <1>2, SingleStep, PTL DEF Spec
=============================================================================
