------------------------- MODULE BackendSGUseProofs -------------------------
(***************************************************************************)
(* The backend security group is only deleted when no load balancer uses   *)
(* it.  Use strengthens the invariant of BackendSGProofs: it says why a    *)
(* Release that finds no entry true finds no load balancer with the SG.    *)
(***************************************************************************)
EXTENDS BackendSGProofs

\* The finalizer is on every member before its load balancer is deployed.
Finalized ==
    /\ \A g \in Groups : pc[g] = "addFinalizer" => g \in FinalizerFirst
    /\ \A g \in Groups : pc[g] = "protect" => g \notin FinalizerFirst
    /\ \A g \in Groups :
         (\/ pc[g] = "deploy"
          \/ g \in FinalizerFirst /\ pc[g] \in {"build", "allocate", "read"})
           => \A o \in loaded[g].members : g \in fin[o]

\* The id is taken from Get, and only by a reconcile that asked for it.
Asked ==
    /\ \A g \in Groups :
         pc[g] \in {"addFinalizer", "build", "allocate", "read"} => sg[g] = NoSG
    /\ \A g \in Groups :
         pc[g] \in {"protect", "deploy"} /\ ~loaded[g].required => sg[g] = NoSG

\* A load balancer with the SG is vouched for by an object with a finalizer
\* whose entry is not false.
Vouched ==
    /\ \A h \in Groups : lb[h] # NoSG =>
         \E o \in Objects : h \in Homes[o] /\ h \in fin[o] /\ objectsMap[o] # "false"
    /\ \A g \in Groups : pc[g] = "delete" => \A h \in Groups : lb[h] = NoSG

\* What a reconcile that goes on to Release deployed.
Deployed ==
    \A g \in Groups :
        pc[g] \in {"release", "check", "lock", "delete", "untrack", "removeFinalizer"} =>
            /\ ~loaded[g].required => lb[g] = NoSG
            /\ loaded[g].required =>
                 \A o \in loaded[g].members : g \in fin[o] /\ objectsMap[o] = "true"

Use == Finalized /\ Asked /\ Vouched /\ Deployed

\* What users do changes no finalizer and no entry.
LEMMA UserUse ==
    ASSUME OneHomeEach, Inv, Use,
           \/ \E o \in Objects : ChangeMembership(o)
           \/ \E g \in Groups : ChangeNeeds(g)
    PROVE Use'
<1> USE GroupsAssumption DEF Inv, Use
<1>1. ASSUME NEW o \in Objects, ChangeMembership(o) PROVE Use'
  <2>1. Finalized'
    BY <1>1 DEF ChangeMembership, aws, provider, worker, TypeOK, Ownership, Finalized
  <2>2. Asked'
    BY <1>1 DEF ChangeMembership, aws, provider, worker, TypeOK, Locked, Asked
  <2>3. Vouched'
    BY <1>1 DEF ChangeMembership, aws, provider, worker, TypeOK, Vouched
  <2>4. Deployed'
    BY <1>1 DEF ChangeMembership, aws, provider, worker, TypeOK, Deployed
  <2> QED BY <2>1, <2>2, <2>3, <2>4
<1>2. ASSUME NEW g \in Groups, ChangeNeeds(g) PROVE Use'
  <2>1. Finalized'
    BY <1>2 DEF ChangeNeeds, aws, provider, worker, TypeOK, Ownership, Finalized
  <2>2. Asked'
    BY <1>2 DEF ChangeNeeds, aws, provider, worker, TypeOK, Locked, Asked
  <2>3. Vouched'
    BY <1>2 DEF ChangeNeeds, aws, provider, worker, TypeOK, Vouched
  <2>4. Deployed'
    BY <1>2 DEF ChangeNeeds, aws, provider, worker, TypeOK, Deployed
  <2> QED BY <2>1, <2>2, <2>3, <2>4
<1> QED BY <1>1, <1>2

\* A reconcile loads its group, adds finalizers and takes nothing for granted yet.
LEMMA StartUse ==
    ASSUME OneHomeEach, Inv, Use, NEW g \in Groups,
           \/ Load(g)
           \/ AddFinalizers(g, "addFinalizer", "build")
           \/ AddFinalizers(g, "protect", "deploy")
           \/ ObjectGone(g)
    PROVE Use'
<1> USE GroupsAssumption DEF Inv, Use
<1>1. CASE Load(g)
  <2>1. Finalized'
    BY <1>1 DEF Load, Goto, k8s, aws, provider, TypeOK, Ownership, Finalized
  <2>2. Asked'
    BY <1>1 DEF Load, Goto, k8s, aws, provider, TypeOK, Locked, Asked
  <2>3. Vouched'
    BY <1>1 DEF Load, Goto, k8s, aws, provider, TypeOK, Vouched
  <2>4. Deployed'
    BY <1>1 DEF Load, Goto, k8s, aws, provider, TypeOK, Deployed
  <2> QED BY <2>1, <2>2, <2>3, <2>4
<1>2. CASE AddFinalizers(g, "addFinalizer", "build")
  <2>1. Finalized'
    BY <1>2 DEF AddFinalizers, Goto, aws, provider, TypeOK, Ownership, Finalized
  <2>2. Asked'
    BY <1>2 DEF AddFinalizers, Goto, aws, provider, TypeOK, Locked, Asked
  <2>3. Vouched'
    BY <1>2 DEF AddFinalizers, Goto, aws, provider, TypeOK, Vouched
  <2>4. Deployed'
    BY <1>2 DEF AddFinalizers, Goto, aws, provider, TypeOK, Deployed
  <2> QED BY <2>1, <2>2, <2>3, <2>4
<1>3. CASE AddFinalizers(g, "protect", "deploy")
  <2>1. Finalized'
    BY <1>3 DEF AddFinalizers, Goto, aws, provider, TypeOK, Ownership, Finalized
  <2>2. Asked'
    BY <1>3 DEF AddFinalizers, Goto, aws, provider, TypeOK, Locked, Asked
  <2>3. Vouched'
    BY <1>3 DEF AddFinalizers, Goto, aws, provider, TypeOK, Vouched
  <2>4. Deployed'
    BY <1>3 DEF AddFinalizers, Goto, aws, provider, TypeOK, Deployed
  <2> QED BY <2>1, <2>2, <2>3, <2>4
<1>4. CASE ObjectGone(g)
  <2>1. Finalized'
    BY <1>4 DEF ObjectGone, Goto, k8s, aws, provider, TypeOK, Ownership, Finalized
  <2>2. Asked'
    BY <1>4 DEF ObjectGone, Goto, k8s, aws, provider, TypeOK, Locked, Asked
  <2>3. Vouched'
    BY <1>4 DEF ObjectGone, Goto, k8s, aws, provider, TypeOK, Vouched
  <2>4. Deployed'
    BY <1>4 DEF ObjectGone, Goto, k8s, aws, provider, TypeOK, Deployed
  <2> QED BY <2>1, <2>2, <2>3, <2>4
<1> QED BY <1>1, <1>2, <1>3, <1>4

\* Get makes the entries of its members true before it returns the id.
LEMMA GetUse ==
    ASSUME OneHomeEach, Inv, Use, NEW g \in Groups,
           \/ BuildWithoutSG(g)
           \/ allocateBackendSG(g)
           \/ adoptSG(g)
           \/ createSG(g)
           \/ readSG(g)
    PROVE Use'
<1> USE GroupsAssumption DEF Inv, Use
<1>1. CASE BuildWithoutSG(g)
  <2>1. Finalized'
    BY <1>1 DEF BuildWithoutSG, Goto, k8s, aws, provider, TypeOK, Ownership, Finalized
  <2>2. Asked'
    BY <1>1 DEF BuildWithoutSG, Goto, k8s, aws, provider, TypeOK, Locked, Asked
  <2>3. Vouched'
    BY <1>1 DEF BuildWithoutSG, Goto, k8s, aws, provider, TypeOK, Vouched
  <2>4. Deployed'
    BY <1>1 DEF BuildWithoutSG, Goto, k8s, aws, provider, TypeOK, Deployed
  <2> QED BY <2>1, <2>2, <2>3, <2>4
<1>2. CASE allocateBackendSG(g)
  <2>1. Finalized'
    BY <1>2, SMTT(30) DEF allocateBackendSG, updateObjectsMap, Goto, k8s, aws, TypeOK,
       Ownership, Finalized
  <2>2. Asked'
    BY <1>2 DEF allocateBackendSG, updateObjectsMap, Goto, k8s, aws, TypeOK, Locked,
       Asked
  <2>3. Vouched'
    BY <1>2 DEF allocateBackendSG, updateObjectsMap, Goto, k8s, aws, TypeOK,
       Vouched
  <2>4. Deployed'
    BY <1>2 DEF allocateBackendSG, updateObjectsMap, Goto, k8s, aws, TypeOK,
       Deployed
  <2> QED BY <2>1, <2>2, <2>3, <2>4
<1>3. CASE adoptSG(g)
  <2>1. Finalized'
    BY <1>3 DEF adoptSG, Goto, k8s, aws, TypeOK, Ownership, Finalized
  <2>2. Asked'
    BY <1>3 DEF adoptSG, Goto, k8s, aws, TypeOK, Locked, Asked
  <2>3. Vouched'
    BY <1>3 DEF adoptSG, Goto, k8s, aws, TypeOK, Vouched
  <2>4. Deployed'
    BY <1>3 DEF adoptSG, Goto, k8s, aws, TypeOK, Deployed
  <2> QED BY <2>1, <2>2, <2>3, <2>4
<1>4. CASE createSG(g)
  <2>1. Finalized'
    BY <1>4 DEF createSG, createInEC2, Goto, k8s, TypeOK, Ownership, Finalized
  <2>2. Asked'
    BY <1>4 DEF createSG, createInEC2, Goto, k8s, TypeOK, Locked, Asked
  <2>3. Vouched'
    BY <1>4 DEF createSG, createInEC2, Goto, k8s, TypeOK, Vouched
  <2>4. Deployed'
    BY <1>4 DEF createSG, createInEC2, Goto, k8s, TypeOK, Deployed
  <2> QED BY <2>1, <2>2, <2>3, <2>4
<1>5. CASE readSG(g)
  <2>1. Finalized'
    BY <1>5 DEF readSG, Goto, k8s, aws, provider, TypeOK, Ownership, Finalized
  <2>2. Asked'
    BY <1>5 DEF readSG, Goto, k8s, aws, provider, TypeOK, Locked, Asked
  <2>3. Vouched'
    BY <1>5 DEF readSG, Goto, k8s, aws, provider, TypeOK, Vouched
  <2>4. Deployed'
    BY <1>5 DEF readSG, Goto, k8s, aws, provider, TypeOK, Deployed
  <2> QED BY <2>1, <2>2, <2>3, <2>4
<1> QED BY <1>1, <1>2, <1>3, <1>4, <1>5

\* A Get that fails leaves the entries true.
LEMMA GetFailsUse ==
    ASSUME OneHomeEach, Inv, Use, NEW g \in Groups,
           allocateFails(g) \/ createResponseLost(g) \/ reconcileTagsFails(g)
    PROVE Use'
<1> USE GroupsAssumption DEF Inv, Use
<1>1. CASE allocateFails(g)
  <2>1. Finalized'
    BY <1>1 DEF allocateFails, Goto, k8s, aws, TypeOK, Ownership, Finalized
  <2>2. Asked'
    BY <1>1 DEF allocateFails, Goto, k8s, aws, TypeOK, Locked, Asked
  <2>3. Vouched'
    BY <1>1 DEF allocateFails, Goto, k8s, aws, TypeOK, Vouched
  <2>4. Deployed'
    BY <1>1 DEF allocateFails, Goto, k8s, aws, TypeOK, Deployed
  <2> QED BY <2>1, <2>2, <2>3, <2>4
<1>2. CASE createResponseLost(g)
  <2>1. Finalized'
    BY <1>2 DEF createResponseLost, createInEC2, Goto, k8s, TypeOK, Ownership,
       Finalized
  <2>2. Asked'
    BY <1>2 DEF createResponseLost, createInEC2, Goto, k8s, TypeOK, Locked, Asked
  <2>3. Vouched'
    BY <1>2 DEF createResponseLost, createInEC2, Goto, k8s, TypeOK, Vouched
  <2>4. Deployed'
    BY <1>2 DEF createResponseLost, createInEC2, Goto, k8s, TypeOK, Deployed
  <2> QED BY <2>1, <2>2, <2>3, <2>4
<1>3. CASE reconcileTagsFails(g)
  <2>1. Finalized'
    BY <1>3 DEF reconcileTagsFails, Goto, k8s, aws, TypeOK, Ownership, Finalized
  <2>2. Asked'
    BY <1>3 DEF reconcileTagsFails, Goto, k8s, aws, TypeOK, Locked, Asked
  <2>3. Vouched'
    BY <1>3 DEF reconcileTagsFails, Goto, k8s, aws, TypeOK, Vouched
  <2>4. Deployed'
    BY <1>3 DEF reconcileTagsFails, Goto, k8s, aws, TypeOK, Deployed
  <2> QED BY <2>1, <2>2, <2>3, <2>4
<1> QED BY <1>1, <1>2, <1>3

\* A load balancer gets the SG while its members have finalizer and entry.
LEMMA DeployUse ==
    ASSUME OneHomeEach, Inv, Use, NEW g \in Groups,
           \/ DeployRefused(g)
           \/ ReconcileFails(g)
           \/ Deploy(g)
           \/ DeployFailsLate(g)
    PROVE Use'
<1> USE GroupsAssumption DEF Inv, Use
<1>1. CASE DeployRefused(g)
  <2>1. Finalized'
    BY <1>1 DEF DeployRefused, Goto, k8s, aws, provider, TypeOK, Ownership, Finalized
  <2>2. Asked'
    BY <1>1 DEF DeployRefused, Goto, k8s, aws, provider, TypeOK, Locked, Asked
  <2>3. Vouched'
    BY <1>1 DEF DeployRefused, Goto, k8s, aws, provider, TypeOK, Vouched
  <2>4. Deployed'
    BY <1>1 DEF DeployRefused, Goto, k8s, aws, provider, TypeOK, Deployed
  <2> QED BY <2>1, <2>2, <2>3, <2>4
<1>2. CASE ReconcileFails(g)
  <2>1. Finalized'
    BY <1>2 DEF ReconcileFails, Goto, k8s, aws, provider, TypeOK, Ownership, Finalized
  <2>2. Asked'
    BY <1>2 DEF ReconcileFails, Goto, k8s, aws, provider, TypeOK, Locked, Asked
  <2>3. Vouched'
    BY <1>2 DEF ReconcileFails, Goto, k8s, aws, provider, TypeOK, Vouched
  <2>4. Deployed'
    BY <1>2 DEF ReconcileFails, Goto, k8s, aws, provider, TypeOK, Deployed
  <2> QED BY <2>1, <2>2, <2>3, <2>4
<1>3. CASE Deploy(g)
  <2>1. Finalized'
    BY <1>3 DEF Deploy, Goto, k8s, provider, TypeOK, Ownership, Finalized
  <2>2. Asked'
    BY <1>3 DEF Deploy, Goto, k8s, provider, TypeOK, Locked, Asked
  <2>3. Vouched'
    <3>1. sg[g] # NoSG =>
            \E o \in Objects : g \in Homes[o] /\ g \in fin[o] /\ objectsMap[o] = "true"
      BY <1>3 DEF Deploy, TypeOK, Ownership, OwnObjects, Tracked, Acquired, Finalized, Asked
    <3> QED BY <3>1, <1>3 DEF Deploy, Goto, k8s, provider, TypeOK, Locked, Vouched
  <2>4. Deployed'
    BY <1>3 DEF Deploy, Goto, k8s, provider, TypeOK, Tracked, Acquired, Finalized,
       Asked, Deployed
  <2> QED BY <2>1, <2>2, <2>3, <2>4
<1>4. CASE DeployFailsLate(g)
  <2>1. Finalized'
    BY <1>4 DEF DeployFailsLate, Goto, k8s, provider, TypeOK, Ownership, Finalized
  <2>2. Asked'
    BY <1>4 DEF DeployFailsLate, Goto, k8s, provider, TypeOK, Locked, Asked
  <2>3. Vouched'
    <3>1. sg[g] # NoSG =>
            \E o \in Objects : g \in Homes[o] /\ g \in fin[o] /\ objectsMap[o] = "true"
      BY <1>4 DEF DeployFailsLate, TypeOK, Ownership, OwnObjects, Tracked, Acquired,
         Finalized, Asked
    <3> QED BY <3>1, <1>4 DEF DeployFailsLate, Goto, k8s, provider, TypeOK, Locked, Vouched
  <2>4. Deployed'
    BY <1>4 DEF DeployFailsLate, Goto, k8s, provider, TypeOK, Deployed
  <2> QED BY <2>1, <2>2, <2>3, <2>4
<1> QED BY <1>1, <1>2, <1>3, <1>4

\* Release marks only objects of a group whose load balancer is without the SG.
LEMMA ReleaseUse ==
    ASSUME OneHomeEach, Inv, Use, NEW g \in Groups,
           \/ releaseMark(g)
           \/ releaseCheck(g)
           \/ releaseListFails(g)
           \/ releaseLock(g)
    PROVE Use'
<1> USE GroupsAssumption DEF Inv, Use
<1>1. CASE releaseMark(g)
  <2>1. Finalized'
    BY <1>1 DEF releaseMark, Released, updateObjectsMap, Goto, k8s, aws,
       OneHomeEach, TypeOK, Ownership, Finalized
  <2>2. Asked'
    BY <1>1 DEF releaseMark, Released, updateObjectsMap, Goto, k8s, aws,
       OneHomeEach, TypeOK, Locked, Asked
  <2>3. Vouched'
    <3>1. lb[g] # NoSG => \E o \in loaded[g].members \ Released(g) :
                              /\ o \in OwnObjects(g) /\ g \in fin[o] /\ objectsMap[o] = "true"
      <4>1. pc[g] = "release"
        BY <1>1 DEF releaseMark
      <4>2. lb[g] # NoSG => loaded[g].required
        BY <4>1 DEF Deployed
      <4>3. loaded[g].required => loaded[g].members \cap Released(g) = {}
        BY DEF Ownership, Released
      <4>4. loaded[g].required => loaded[g].members # {}
        BY DEF Ownership
      <4>5. \A o \in loaded[g].members :
              loaded[g].required => g \in fin[o] /\ objectsMap[o] = "true"
        BY <4>1 DEF Deployed
      <4>6. loaded[g].members \subseteq OwnObjects(g)
        BY DEF Ownership
      <4> QED BY <4>2, <4>3, <4>4, <4>5, <4>6
    <3>2. \A h \in Groups \ {g} : OwnObjects(h) \cap Released(g) = {}
      BY DEF OneHomeEach, Ownership, OwnObjects, Released
    <3> QED BY <3>1, <3>2, <1>1 DEF releaseMark, updateObjectsMap, Goto, k8s, aws, TypeOK,
            OwnObjects, Vouched
  <2>4. Deployed'
    <3>1. \A h \in Groups : loaded[h].required => loaded[h].members \cap Released(g) = {}
      BY SMTT(40) DEF OneHomeEach, Ownership, OwnObjects, Released
    <3> QED BY <3>1, <1>1 DEF releaseMark, updateObjectsMap, Goto, k8s, aws, TypeOK,
            Ownership, OwnObjects, Deployed
  <2> QED BY <2>1, <2>2, <2>3, <2>4
<1>2. CASE releaseCheck(g)
  <2>1. Finalized'
    BY <1>2 DEF releaseCheck, Goto, k8s, aws, provider, TypeOK, Ownership, Finalized
  <2>2. Asked'
    BY <1>2 DEF releaseCheck, Goto, k8s, aws, provider, TypeOK, Locked, Asked
  <2>3. Vouched'
    BY <1>2 DEF releaseCheck, Goto, k8s, aws, provider, TypeOK, Vouched
  <2>4. Deployed'
    BY <1>2 DEF releaseCheck, Goto, k8s, aws, provider, TypeOK, Deployed
  <2> QED BY <2>1, <2>2, <2>3, <2>4
<1>3. CASE releaseListFails(g)
  <2>1. Finalized'
    BY <1>3 DEF releaseListFails, Goto, k8s, aws, provider, TypeOK, Ownership,
       Finalized
  <2>2. Asked'
    BY <1>3 DEF releaseListFails, Goto, k8s, aws, provider, TypeOK, Locked, Asked
  <2>3. Vouched'
    BY <1>3 DEF releaseListFails, Goto, k8s, aws, provider, TypeOK, Vouched
  <2>4. Deployed'
    BY <1>3 DEF releaseListFails, Goto, k8s, aws, provider, TypeOK, Deployed
  <2> QED BY <2>1, <2>2, <2>3, <2>4
<1>4. CASE releaseLock(g)
  <2>1. Finalized'
    BY <1>4 DEF releaseLock, isBackendSGRequired, Goto, k8s, aws, TypeOK, Ownership,
       Finalized
  <2>2. Asked'
    BY <1>4 DEF releaseLock, isBackendSGRequired, Goto, k8s, aws, TypeOK, Locked, Asked
  <2>3. Vouched'
    BY <1>4 DEF releaseLock, isBackendSGRequired, Goto, k8s, aws, TypeOK, Vouched
  <2>4. Deployed'
    BY SMTT(40), <1>4 DEF releaseLock, isBackendSGRequired, Goto, k8s, aws, TypeOK,
       Deployed
  <2> QED BY <2>1, <2>2, <2>3, <2>4
<1> QED BY <1>1, <1>2, <1>3, <1>4

\* The delete, whatever becomes of it, changes no finalizer and no entry.
LEMMA DeleteUse ==
    ASSUME OneHomeEach, Inv, Use, NEW g \in Groups,
           deleteSG(g) \/ deleteSGFails(g) \/ deleteResponseLost(g)
    PROVE Use'
<1> USE GroupsAssumption DEF Inv, Use
<1>1. CASE deleteSG(g)
  <2>1. Finalized'
    BY <1>1 DEF deleteSG, Goto, k8s, TypeOK, Ownership, Finalized
  <2>2. Asked'
    BY <1>1 DEF deleteSG, Goto, k8s, TypeOK, Locked, Asked
  <2>3. Vouched'
    BY <1>1 DEF deleteSG, Goto, k8s, TypeOK, Vouched
  <2>4. Deployed'
    BY <1>1 DEF deleteSG, Goto, k8s, TypeOK, Deployed
  <2> QED BY <2>1, <2>2, <2>3, <2>4
<1>2. CASE deleteSGFails(g)
  <2>1. Finalized'
    BY <1>2 DEF deleteSGFails, Goto, k8s, aws, TypeOK, Ownership, Finalized
  <2>2. Asked'
    BY <1>2 DEF deleteSGFails, Goto, k8s, aws, TypeOK, Locked, Asked
  <2>3. Vouched'
    BY <1>2 DEF deleteSGFails, Goto, k8s, aws, TypeOK, Vouched
  <2>4. Deployed'
    BY <1>2 DEF deleteSGFails, Goto, k8s, aws, TypeOK, Deployed
  <2> QED BY <2>1, <2>2, <2>3, <2>4
<1>3. CASE deleteResponseLost(g)
  <2>1. Finalized'
    BY <1>3 DEF deleteResponseLost, Goto, k8s, TypeOK, Ownership, Finalized
  <2>2. Asked'
    BY <1>3 DEF deleteResponseLost, Goto, k8s, TypeOK, Locked, Asked
  <2>3. Vouched'
    BY <1>3 DEF deleteResponseLost, Goto, k8s, TypeOK, Vouched
  <2>4. Deployed'
    BY <1>3 DEF deleteResponseLost, Goto, k8s, TypeOK, Deployed
  <2> QED BY <2>1, <2>2, <2>3, <2>4
<1> QED BY <1>1, <1>2, <1>3

\* At the end of Release only objects that vouch for nothing are let go.
LEMMA EndUse ==
    ASSUME OneHomeEach, Inv, Use, NEW g \in Groups,
           releaseUntrack(g) \/ RemoveFinalizers(g)
    PROVE Use'
<1> USE GroupsAssumption DEF Inv, Use
<1>1. CASE releaseUntrack(g)
  <2>1. Finalized'
    BY <1>1 DEF releaseUntrack, Released, Goto, k8s, aws, TypeOK, Ownership, Finalized
  <2>2. Asked'
    BY <1>1 DEF releaseUntrack, Released, Goto, k8s, aws, TypeOK, Locked, Asked
  <2>3. Vouched'
    BY <1>1 DEF releaseUntrack, Released, Goto, k8s, aws, TypeOK, Vouched
  <2>4. Deployed'
    BY <1>1 DEF releaseUntrack, Released, Goto, k8s, aws, TypeOK, Deployed
  <2> QED BY <2>1, <2>2, <2>3, <2>4
<1>2. CASE RemoveFinalizers(g)
  <2>1. Finalized'
    BY <1>2 DEF RemoveFinalizers, Goto, aws, provider, TypeOK, Ownership, Finalized
  <2>2. Asked'
    BY <1>2 DEF RemoveFinalizers, Goto, aws, provider, TypeOK, Locked, Asked
  <2>3. Vouched'
    <3>1. lb[g] # NoSG => \E o \in Objects \ loaded[g].inactive :
                              g \in Homes[o] /\ g \in fin[o] /\ objectsMap[o] = "true"
      <4>1. pc[g] = "removeFinalizer"
        BY <1>2 DEF RemoveFinalizers
      <4>2. lb[g] # NoSG => loaded[g].required /\ loaded[g].members # {}
        BY <4>1 DEF Deployed, Ownership
      <4>3. \A o \in loaded[g].members :
              loaded[g].required => g \in fin[o] /\ objectsMap[o] = "true"
        BY <4>1 DEF Deployed
      <4>4. \A o \in loaded[g].members :
              o \in Objects /\ g \in Homes[o] /\ o \notin loaded[g].inactive
        BY DEF Ownership, OwnObjects
      <4> QED BY <4>2, <4>3, <4>4
    <3> QED BY <3>1, <1>2 DEF RemoveFinalizers, Goto, aws, provider, TypeOK, Vouched
  <2>4. Deployed'
    BY <1>2 DEF RemoveFinalizers, Goto, aws, provider, TypeOK, Deployed
  <2> QED BY <2>1, <2>2, <2>3, <2>4
<1> QED BY <1>1, <1>2

\* Every step keeps Use.
LEMMA NextUse ==
    ASSUME OneHomeEach, Inv, Use, [Next]_vars
    PROVE Use'
<1> USE GroupsAssumption
<1>1. CASE Restart
  BY <1>1 DEF Restart, k8s, aws, Inv, TypeOK, Use, Finalized, Asked, Vouched, Deployed
<1>2. CASE UNCHANGED vars
  BY <1>2 DEF vars, k8s, aws, provider, worker, Use, Finalized, Asked, Vouched, Deployed
<1>3. ASSUME NEW g \in Groups, Reconcile(g) PROVE Use'
  BY <1>3, StartUse, GetUse, DeployUse, ReleaseUse, DeleteUse, EndUse DEF Reconcile
<1>4. ASSUME NEW g \in Groups, Fault(g) PROVE Use'
  BY <1>4, GetFailsUse, DeployUse, ReleaseUse, DeleteUse DEF Fault
<1> QED BY <1>1, <1>2, <1>3, <1>4, UserUse DEF Next

\* DeleteSecurityGroup is only called for a group that no load balancer uses,
\* also when a restart emptied objectsMap.
THEOREM DeletesOnlyUnused ==
    ASSUME OneHomeEach
    PROVE Spec => []DeleteOnlyUnused
<1>1. Init => Use
  BY GroupsAssumption DEF Init, Use, Finalized, Asked, Vouched, Deployed
<1>2. Inv /\ Use => DeleteOnlyUnused
  BY DEF Inv, Use, Locked, Vouched, DeleteOnlyUnused
<1> QED BY InitInv, NextInv, NextUse, <1>1, <1>2, PTL DEF Spec
=============================================================================
