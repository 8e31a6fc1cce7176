---------------------- MODULE TargetGroupBindingProofs ----------------------
(***************************************************************************)
(* Proofs about TargetGroupBinding, for any pods, targets and settings:    *)
(*                                                                         *)
(*   - targets of other clusters stay in a target group that is declared   *)
(*     as shared (OthersKept);                                             *)
(*   - nothing of ours is registered once the binding is gone, and what is *)
(*     registered in a shared target group is in the config map, but for   *)
(*     what ELB refused to deregister (AllClean);                          *)
(*   - a run is only skipped where the target group is right (SkipsRight). *)
(*                                                                         *)
(* The last two share one inductive invariant, Inv.                        *)
(***************************************************************************)
EXTENDS TargetGroupBinding, FiniteSetTheorems, TLAPS

Labels == {"idle", "resolve", "list", "reset", "deregister", "track", "register",
           "trackAfter", "gates", "save", "cleanList", "cleanDeregister", "cleanMap",
           "cleanPods", "unfinalize"}

Checkpoints == (SUBSET Pods) \cup {None}
ConfigMaps  == (SUBSET Targets) \cup {None}
Listings    == [AllTargets -> Healths]

Runs == [mode : {"none", "reconcile", "notfound", "delete"}, old : Checkpoints,
         ep : SUBSET Pods, ts : Listings, net : BOOLEAN, upd : BOOLEAN,
         reg : SUBSET Pods]

TypeOK ==
    /\ setting \in Settings
    /\ eps \in SUBSET Pods
    /\ tgb \in {"present", "deleting", "gone"}
    /\ fin \in BOOLEAN
    /\ cp \in Checkpoints /\ seen \in Checkpoints
    /\ tg \in BOOLEAN
    /\ elb \in [AllTargets -> States]
    /\ left \in SUBSET Targets
    /\ cache \in Listings \cup {None}
    /\ cm \in ConfigMaps /\ cmCache \in ConfigMaps
    /\ pc \in Labels
    /\ run \in Runs

-----------------------------------------------------------------------------
(***************************************************************************)
(* The inductive invariant.                                                *)
(***************************************************************************)
\* What is registered, without what a refused clean-up left.
Ours == Registered \ left

\* A target group serves exactly the endpoints E, or as many as its limit allows.
Right(E) == /\ Ours \subseteq AddrsOf(E)
            /\ MaxTargets = 0 => Ours = AddrsOf(E) \ left

\* Only a binding with the finalizer is worked on and has targets registered.
Finalized ==
    /\ pc # "idle" => fin
    /\ Ours # {} => fin
    /\ tgb = "gone" => ~fin
    /\ tgb = "deleting" => fin

Cleaning == {"cleanList", "cleanDeregister", "cleanMap", "cleanPods", "unfinalize"}

\* What a run is for agrees with where it is.
Moded ==
    /\ pc \in Cleaning => run.mode \in {"delete", "notfound"}
    /\ pc \notin Cleaning \cup {"idle", "save"} => run.mode = "reconcile"

\* The cache leaves out no registered target, and what it takes for healthy is
\* registered.
CacheTrue ==
    cache # None => \A t \in Targets : /\ t \in Registered => cache[t] # "absent"
                                       /\ cache[t] = "healthy" => t \in Registered

\* What the worker knows of the target group at each step.
Worked ==
    /\ pc \in {"reset", "deregister"} => NotDraining(run.ts) \cap Targets = Registered
    /\ pc \in {"track", "register"} => Ours = AddrsOf(matched) \ left
    /\ pc \in {"trackAfter", "gates", "save"} /\ run.mode # "notfound" => Right(run.ep)
    /\ pc = "cleanDeregister" => \A t \in Registered : run.ts[t] # "absent"
    /\ pc \in {"cleanMap", "cleanPods", "unfinalize"} => Ours = {}

\* What this cluster registered in a shared target group is in the config map.
Owned ==
    /\ cmCache \in {None, cm}
    /\ MultiCluster => Ours \subseteq (IF cm = None THEN {} ELSE cm)
    /\ pc = "register" /\ MultiCluster => cm = AddrsOf(run.ep)

\* A checkpoint of a binding that is not being deleted tells the truth, also while
\* a run is under way: past ResetCheckpoint, a run that kept it changes nothing.
Trusted ==
    ~setting.stale /\ ~setting.service =>
        /\ svc
        /\ seen = cp
        /\ left # {} => tgb # "present"
        /\ pc # "idle" => cp \in {run.old, None}
        /\ run.mode = "delete" => tgb # "present"
        /\ run.mode # "notfound"
        /\ cp # None /\ tgb = "present" => Right(cp)
        /\ pc \in {"deregister", "track", "register", "trackAfter", "gates", "save"} /\ cp # None
              => unmatchedEndpoints = {} /\ unmatchedTargets = {}

Sound == Finalized /\ Moded /\ CacheTrue /\ Worked /\ Owned /\ Trusted

\* A target group that is gone has no targets, and knowledge of it is worth nothing.
NoGroup == ~tg => Registered = {}

Inv == TypeOK /\ NoGroup /\ (~setting.lost /\ tg => Sound)

-----------------------------------------------------------------------------
(***************************************************************************)
(* Types.                                                                  *)
(***************************************************************************)
\* What BindingAssumption says of a setting and of addresses.
LEMMA SettingType ==
    ASSUME setting \in Settings
    PROVE  /\ setting.max \in Nat /\ setting.pods \subseteq Pods
           /\ setting.foreign \subseteq Foreign
           /\ setting.multi \in BOOLEAN /\ setting.lost \in BOOLEAN
           /\ setting.stale \in BOOLEAN /\ setting.service \in BOOLEAN
  BY BindingAssumption

LEMMA AddrsType ==
    ASSUME NEW ps \in SUBSET Pods
    PROVE  AddrsOf(ps) \in SUBSET Targets
  BY BindingAssumption DEF AddrsOf

LEMMA IdleType ==
    Idle \in Runs
  BY DEF Idle, Runs, Checkpoints, Listings, NoTargets, Healths, States

\* The fields of a run, and what replacing one of them yields.
LEMMA RunFields ==
    ASSUME run \in Runs
    PROVE  /\ run.old \in Checkpoints /\ run.ep \in SUBSET Pods /\ run.ts \in Listings
           /\ run.reg \in SUBSET Pods
  BY DEF Runs

\* What the targets manager returns, and what the calls leave in ELB.
LEMMA ListedType ==
    ASSUME TypeOK
    PROVE  listed \in Listings
  BY DEF TypeOK, listed, refreshUnhealthyTargets, Listings, Healths

LEMMA CallTypes ==
    ASSUME TypeOK, NEW ts
    PROVE  /\ registered(ts) \in [AllTargets -> States]
           /\ deregistered(ts) \in [AllTargets -> States]
  BY DEF TypeOK, registered, deregistered, States

LEMMA RecordTypes ==
    ASSUME TypeOK, NEW ts,
           recordSuccessfulRegister(ts) \/ recordSuccessfulDeregister(ts)
    PROVE  cache' \in Listings \cup {None}
  BY DEF TypeOK, recordSuccessfulRegister, recordSuccessfulDeregister, Listings, Healths

LEMMA LoadTypes ==
    ASSUME TypeOK, loadConfigMap
    PROVE  cmCache' \in ConfigMaps
  BY DEF TypeOK, loadConfigMap, trackedTargets

LEMMA TrackTypes ==
    ASSUME TypeOK, NEW r, updateTrackedTargets(r)
    PROVE  cm' \in ConfigMaps /\ cmCache' \in ConfigMaps
  <1>1. AddrsOf(run.ep) \in ConfigMaps
    BY AddrsType, RunFields DEF TypeOK, ConfigMaps
  <1> QED
    BY <1>1 DEF TypeOK, updateTrackedTargets, persistConfigMap

LEMMA CheckpointTypes ==
    ASSUME TypeOK, NEW c \in Checkpoints, NEW o, updateTGBCheckPoint(c, o)
    PROVE  cp' \in Checkpoints /\ seen' \in Checkpoints
  BY DEF TypeOK, updateTGBCheckPoint, patchCheckpoint

LEMMA TypeInit ==
    Init => TypeOK
  BY IdleType DEF Init, TypeOK, Checkpoints, ConfigMaps, States, Labels

LEMMA TypeWorker ==
    ASSUME TypeOK, Worker, UNCHANGED <<setting, tg, left>>
    PROVE  TypeOK'
  <1>f. /\ run.old \in Checkpoints /\ run.ep \in SUBSET Pods /\ run.ts \in Listings
        /\ run.reg \in SUBSET Pods /\ None \in Checkpoints
    BY RunFields DEF TypeOK, Checkpoints
  <1>1. CASE Start
    <2>1. run' \in Runs
      BY <1>1, IdleType DEF Start, TypeOK, Idle, Runs
    <2> QED
      BY <1>1, <2>1 DEF Start, TypeOK, Goto, Labels
  <1>2. CASE ResolveNotFound
    BY <1>2 DEF ResolveNotFound, TypeOK, Goto, Labels, env, Runs
  <1>3. CASE Defer
    BY <1>3, IdleType DEF Defer, TypeOK, Goto, Labels, env
  <1>4. CASE Resolve
    BY <1>4 DEF Resolve, TypeOK, Goto, Labels, env, Runs
  <1>5. ASSUME NEW at, NEW then \in Labels, ListTargets(at, then)
        PROVE  TypeOK'
    <2>1. run' \in Runs /\ cache' \in Listings
      BY <1>5, ListedType DEF ListTargets, TypeOK, Runs
    <2> QED
      BY <1>5, <2>1 DEF ListTargets, TypeOK, Goto, env
  <1>6. CASE ResetCheckpoint
    <2>1. cp' \in Checkpoints /\ seen' \in Checkpoints
      BY <1>6, <1>f, CheckpointTypes DEF ResetCheckpoint, TypeOK
    <2> QED
      BY <1>6, <2>1 DEF ResetCheckpoint, TypeOK, Goto, Labels, env
  <1>7. CASE Deregister
    <2>1. elb' \in [AllTargets -> States] /\ cache' \in Listings \cup {None} /\ cmCache' \in ConfigMaps
      BY <1>7, CallTypes, RecordTypes, LoadTypes DEF Deregister, TypeOK
    <2>2. run' \in Runs
      BY <1>7 DEF Deregister, TypeOK, Runs
    <2> QED
      BY <1>7, <2>1, <2>2 DEF Deregister, TypeOK, Goto, Labels, env
  <1>8. CASE TrackBefore
    <2>1. cm' \in ConfigMaps /\ cmCache' \in ConfigMaps
      BY <1>8, TrackTypes DEF TrackBefore, TypeOK
    <2>2. run' \in Runs
      BY <1>8 DEF TrackBefore, TypeOK, Runs
    <2> QED
      BY <1>8, <2>1, <2>2 DEF TrackBefore, TypeOK, Goto, Labels, env
  <1>9. CASE Register
    <2>1. PICK ps \in SUBSET unmatchedEndpoints :
            /\ elb' = registered(AddrsOf(ps))
            /\ recordSuccessfulRegister(AddrsOf(ps))
            /\ run' = [run EXCEPT !.reg = ps]
      BY <1>9 DEF Register
    <2>2. ps \in SUBSET Pods
      BY <1>f DEF unmatchedEndpoints
    <2>3. run' \in Runs
      BY <2>1, <2>2 DEF TypeOK, Runs
    <2>4. elb' \in [AllTargets -> States] /\ cache' \in Listings \cup {None}
      BY <2>1, CallTypes, RecordTypes
    <2> QED
      BY <1>9, <2>3, <2>4 DEF Register, TypeOK, Goto, Labels, env
  <1>10. CASE TrackAfter
    BY <1>10, TrackTypes DEF TrackAfter, TypeOK, Goto, Labels, env
  <1>11. CASE UpdateGates
    BY <1>11, IdleType DEF UpdateGates, TypeOK, Goto, Labels, env
  <1>12. CASE SaveCheckpoint
    <2>1. (IF run.mode = "notfound" THEN None ELSE run.ep) \in Checkpoints
      BY <1>f DEF Checkpoints
    <2>2. cp' \in Checkpoints /\ seen' \in Checkpoints
      BY <1>12, <2>1, CheckpointTypes DEF SaveCheckpoint
    <2> QED
      BY <1>12, <2>2, IdleType DEF SaveCheckpoint, TypeOK, Goto, Labels, env
  <1>13. CASE CleanDeregister
    <2>1. elb' \in [AllTargets -> States] /\ cache' \in Listings \cup {None} /\ cmCache' \in ConfigMaps
      BY <1>13, CallTypes, RecordTypes, LoadTypes DEF CleanDeregister
    <2> QED
      BY <1>13, <2>1 DEF CleanDeregister, TypeOK, Goto, Labels, env
  <1>14. CASE CleanMap
    BY <1>14 DEF CleanMap, TypeOK, Goto, Labels, env, ConfigMaps
  <1>15. CASE CleanPods
    BY <1>15 DEF CleanPods, TypeOK, Goto, Labels, env
  <1>16. CASE Unfinalize
    BY <1>16, IdleType DEF Unfinalize, TypeOK, Goto, Labels
  <1>17. CASE CleanNotFound
    <2>1. cmCache' \in ConfigMaps
      BY <1>17, LoadTypes DEF CleanNotFound, TypeOK
    <2> QED
      BY <1>17, <2>1 DEF CleanNotFound, TypeOK, Goto, Labels, env
  <1>18. CASE RunFails
    <2>1. cmCache' \in ConfigMaps
      BY <1>18, LoadTypes DEF RunFails, TypeOK
    <2> QED
      BY <1>18, <2>1, IdleType DEF RunFails, TypeOK, Goto, Labels, env
  <1> QED
    BY <1>1, <1>2, <1>3, <1>4, <1>5, <1>6, <1>7, <1>8, <1>9, <1>10, <1>11, <1>12, <1>13,
       <1>14, <1>15, <1>16, <1>17, <1>18 DEF Worker, Labels

LEMMA TypeFailures ==
    ASSUME TypeOK, Failures, UNCHANGED <<setting, tg, left>>
    PROVE  TypeOK'
  <1>1. CASE NetworkFails
    BY <1>1 DEF NetworkFails, TypeOK, env, Runs
  <1>2. CASE ReconcileFails
    BY <1>2, IdleType DEF ReconcileFails, Fail, TypeOK, Goto, Labels, env, ConfigMaps
  <1>3. CASE Restart
    BY <1>3, IdleType DEF Restart, TypeOK, Goto, Labels, env, ConfigMaps
  <1>4. CASE handleDeferredItemError
    BY <1>4 DEF handleDeferredItemError, TypeOK, env
  <1>5. ASSUME NEW done, NEW lost, RegisterFails(done, lost)
        PROVE  TypeOK'
    <2>1. elb' \in [AllTargets -> States] /\ cache' \in Listings \cup {None}
      BY <1>5, CallTypes, RecordTypes DEF RegisterFails
    <2> QED
      BY <1>5, <2>1, IdleType DEF RegisterFails, Fail, TypeOK, Goto, Labels, env
  <1>6. ASSUME NEW done, NEW lost, DeregisterFails(done, lost)
        PROVE  TypeOK'
    <2>1. elb' \in [AllTargets -> States] /\ cache' \in Listings \cup {None} /\ cmCache' \in ConfigMaps
      BY <1>6, CallTypes, RecordTypes, LoadTypes DEF DeregisterFails
    <2> QED
      BY <1>6, <2>1, IdleType DEF DeregisterFails, Fail, TypeOK, Goto, Labels, env
  <1>7. ASSUME NEW ps, GatesFail(ps)
        PROVE  TypeOK'
    BY <1>7, IdleType DEF GatesFail, Fail, TypeOK, Goto, Labels, env
  <1> QED
    BY <1>1, <1>2, <1>3, <1>4, <1>5, <1>6, <1>7 DEF Failures

LEMMA TypeEnvironment ==
    ASSUME TypeOK, Environment, UNCHANGED <<setting, tg, left>>
    PROVE  TypeOK'
  <1>1. CASE ChangeEndpoints
    BY <1>1, SettingType DEF ChangeEndpoints, EndpointSets, TypeOK, Rest
  <1>2. CASE ChangeService
    BY <1>2 DEF ChangeService, TypeOK, Rest
  <1>3. CASE DeleteBinding
    BY <1>3 DEF DeleteBinding, TypeOK, Rest
  <1>4. ASSUME NEW t \in Targets, HealthProgress(t) \/ TargetFails(t)
        PROVE  TypeOK'
    BY <1>4 DEF HealthProgress, TargetFails, TypeOK, Rest, env, States
  <1>5. CASE CacheExpires
    BY <1>5 DEF CacheExpires, TypeOK, env
  <1>6. CASE ProcessedExpires
    BY <1>6 DEF ProcessedExpires, TypeOK, env
  <1>7. CASE handleDeferredItem
    <2>1. cp' \in Checkpoints /\ seen' \in Checkpoints
      BY <1>7 DEF handleDeferredItem, patchCheckpoint, TypeOK, Checkpoints
    <2> QED
      BY <1>7, <2>1 DEF handleDeferredItem, TypeOK, env
  <1>8. CASE InformerSync
    BY <1>8 DEF InformerSync, TypeOK, env
  <1>9. CASE Resync
    BY <1>9 DEF Resync, TypeOK, env
  <1> QED
    BY <1>1, <1>2, <1>3, <1>4, <1>5, <1>6, <1>7, <1>8, <1>9 DEF Environment

LEMMA TypeRefused ==
    ASSUME TypeOK, NEW done, CleanRefused(done)
    PROVE  TypeOK'
  <1>1. elb' \in [AllTargets -> States] /\ cache' \in Listings \cup {None} /\ cmCache' \in ConfigMaps
    BY CallTypes, RecordTypes, LoadTypes DEF CleanRefused, TypeOK
  <1>2. left' \in SUBSET Targets
    BY DEF CleanRefused, TypeOK, FilterTargetsForDeregistration, Registered
  <1> QED
    BY <1>1, <1>2 DEF CleanRefused, TypeOK, Goto, Labels, env

LEMMA TypeNext ==
    ASSUME TypeOK, [Next]_vars
    PROVE  TypeOK'
  <1>1. CASE UNCHANGED vars
    BY <1>1 DEF vars, TypeOK
  <1>2. CASE DeleteTargetGroup
    BY <1>2 DEF DeleteTargetGroup, TypeOK, Rest, env, NoTargets, States
  <1> QED
    BY <1>1, <1>2, TypeRefused, TypeWorker, TypeFailures, TypeEnvironment DEF Next, Fixed

-----------------------------------------------------------------------------
(***************************************************************************)
(* Targets of other clusters.                                              *)
(***************************************************************************)
\* In a shared target group only targets of this cluster's config map go.
LEMMA FilterOwn ==
    ASSUME TypeOK, NEW ts, MultiCluster
    PROVE  FilterTargetsForDeregistration(ts) \subseteq Targets
  BY DEF TypeOK, FilterTargetsForDeregistration, trackedTargets, ConfigMaps

\* Deregistering a subset of what the filter lets through leaves a target of
\* another cluster where it is, and one that is absent, absent.
LEMMA DeregisterKeeps ==
    ASSUME TypeOK, NEW f \in Foreign, MultiCluster \/ elb[f] = "absent",
           NEW all, NEW ts, ts \subseteq FilterTargetsForDeregistration(all)
    PROVE  deregistered(ts)[f] = elb[f]
  <1>1. f \notin Targets /\ f \in AllTargets
    BY BindingAssumption DEF AllTargets
  <1>2. CASE MultiCluster
    BY <1>1, <1>2, FilterOwn DEF deregistered
  <1>3. CASE elb[f] = "absent"
    BY <1>1, <1>3 DEF deregistered
  <1> QED
    BY <1>2, <1>3

LEMMA RegisterKeeps ==
    ASSUME NEW f \in Foreign, NEW ts \in SUBSET Targets
    PROVE  registered(ts)[f] = elb[f]
  BY BindingAssumption DEF registered, AllTargets

LEMMA OthersStep ==
    ASSUME TypeOK, [Next]_vars, ~DeleteTargetGroup,
           NEW f \in Foreign, MultiCluster \/ elb[f] = "absent"
    PROVE  elb'[f] = elb[f]
  <1>f. run.ep \in SUBSET Pods /\ unmatchedEndpoints \in SUBSET Pods
    BY RunFields DEF TypeOK, unmatchedEndpoints
  <1>1. CASE Deregister
    <2>1. CASE unmatchedTargets = {}
      BY <1>1, <2>1 DEF Deregister
    <2>2. CASE unmatchedTargets # {}
      <3>1. elb' = deregistered(FilterTargetsForDeregistration(unmatchedTargets))
        BY <1>1, <2>2 DEF Deregister
      <3> QED
        BY <3>1, DeregisterKeeps
    <2> QED
      BY <2>1, <2>2
  <1>2. CASE CleanDeregister
    <2>1. elb' = deregistered(FilterTargetsForDeregistration({t \in AllTargets : run.ts[t] # "absent"}))
      BY <1>2 DEF CleanDeregister
    <2> QED
      BY <2>1, DeregisterKeeps
  <1>3. CASE Register
    <2>1. PICK ps \in SUBSET unmatchedEndpoints : elb' = registered(AddrsOf(ps))
      BY <1>3 DEF Register
    <2>2. AddrsOf(ps) \in SUBSET Targets
      BY <1>f, AddrsType
    <2> QED
      BY <2>1, <2>2, RegisterKeeps
  <1>4. ASSUME NEW done, NEW lost, RegisterFails(done, lost)
        PROVE  elb'[f] = elb[f]
    <2>1. done \cup lost \in SUBSET Targets
      BY <1>4, <1>f, AddrsType DEF RegisterFails
    <2> QED
      BY <1>4, <2>1, RegisterKeeps DEF RegisterFails
  <1>5. ASSUME NEW done, NEW lost, DeregisterFails(done, lost)
        PROVE  elb'[f] = elb[f]
    BY <1>5, DeregisterKeeps DEF DeregisterFails
  <1>6. ASSUME NEW t \in Targets, HealthProgress(t) \/ TargetFails(t)
        PROVE  elb'[f] = elb[f]
    BY <1>6, BindingAssumption DEF HealthProgress, TargetFails, TypeOK, AllTargets
  <1>7. CASE \/ Start \/ ResolveNotFound \/ Defer \/ Resolve
             \/ ListTargets("list", "reset") \/ ListTargets("cleanList", "cleanDeregister")
             \/ ResetCheckpoint \/ TrackBefore \/ TrackAfter \/ UpdateGates
             \/ SaveCheckpoint \/ CleanNotFound \/ CleanMap \/ CleanPods \/ Unfinalize
             \/ RunFails
    BY <1>7 DEF Start, ResolveNotFound, Defer, Resolve, ListTargets, ResetCheckpoint,
                TrackBefore, TrackAfter, UpdateGates, SaveCheckpoint, CleanNotFound, CleanMap,
                CleanPods, Unfinalize, RunFails
  <1>8. CASE \/ NetworkFails \/ ReconcileFails \/ Restart \/ handleDeferredItemError
             \/ (\E ps \in SUBSET GatedPods : GatesFail(ps))
    BY <1>8 DEF NetworkFails, ReconcileFails, Restart, handleDeferredItemError, GatesFail
  <1>9. CASE \/ ChangeEndpoints \/ ChangeService \/ DeleteBinding \/ CacheExpires
             \/ ProcessedExpires \/ handleDeferredItem \/ InformerSync \/ Resync
    BY <1>9 DEF ChangeEndpoints, ChangeService, DeleteBinding, CacheExpires,
                ProcessedExpires, handleDeferredItem, InformerSync, Resync
  <1>10. CASE UNCHANGED vars
    BY <1>10 DEF vars
  <1>11. ASSUME NEW done, CleanRefused(done)
         PROVE  elb'[f] = elb[f]
    BY <1>11, DeregisterKeeps DEF CleanRefused
  <1> QED
    BY <1>1, <1>2, <1>3, <1>4, <1>5, <1>6, <1>7, <1>8, <1>9, <1>10, <1>11
       DEF Next, Fixed, Worker, Failures, Environment

\* Other clusters keep targets only in target groups that the binding declares as
\* shared (spec.multiClusterTargetGroup).
SharedOnly == \A s \in Settings : s.foreign # {} => s.multi

\* What a target group that is not shared holds is this cluster's.
Unshared == ~MultiCluster => \A f \in Foreign : elb[f] = "absent"

LEMMA UnsharedInit ==
    ASSUME SharedOnly
    PROVE  Init => Unshared
  BY SettingType DEF SharedOnly, Init, Unshared, MultiCluster, AllTargets

LEMMA SettingFixed ==
    [Next]_vars => UNCHANGED setting
  BY DEF Next, Fixed, vars, DeleteTargetGroup, CleanRefused

LEMMA UnsharedNext ==
    ASSUME TypeOK, Unshared, [Next]_vars
    PROVE  Unshared'
  <1>1. CASE DeleteTargetGroup
    BY <1>1 DEF DeleteTargetGroup, NoTargets, AllTargets, Unshared
  <1>2. CASE ~DeleteTargetGroup
    BY <1>2, OthersStep, SettingFixed DEF Unshared, MultiCluster
  <1> QED
    BY <1>1, <1>2

LEMMA UntouchedStep ==
    ASSUME TypeOK, Unshared, [Next]_vars
    PROVE  \A f \in Foreign : elb[f] = "healthy" /\ tg' => elb'[f] = "healthy"
  <1>1. tg' => ~DeleteTargetGroup
    BY DEF DeleteTargetGroup
  <1> QED
    BY <1>1, OthersStep DEF Unshared

\* No step of the controller, no failed call and no restart takes a target of
\* another cluster out of a shared target group: deregisterTargets and Cleanup
\* only pass on what FilterTargetsForDeregistration found in this cluster's config
\* map.
THEOREM OthersKept ==
    ASSUME SharedOnly
    PROVE  Spec => ForeignUntouched
  <1>1. Init => TypeOK /\ Unshared
    BY TypeInit, UnsharedInit
  <1>2. TypeOK /\ Unshared /\ [Next]_vars => TypeOK' /\ Unshared'
    BY TypeNext, UnsharedNext
  <1>3. TypeOK /\ Unshared /\ [Next]_vars
           => [\A f \in Foreign : elb[f] = "healthy" /\ tg' => elb'[f] = "healthy"]_vars
    BY UntouchedStep
  <1> QED
    BY <1>1, <1>2, <1>3, PTL DEF Spec, ForeignUntouched

-----------------------------------------------------------------------------
(***************************************************************************)
(* What the calls do to the targets this cluster has registered, and what  *)
(* the cache knows of them.                                                *)
(***************************************************************************)
LEMMA AfterRegister ==
    ASSUME TypeOK, NEW ts \in SUBSET Targets, elb' = registered(ts), UNCHANGED left
    PROVE  Registered' = Registered \cup ts /\ Ours' = Ours \cup (ts \ left)
  <1>1. Registered' = Registered \cup ts
    BY DEF TypeOK, Registered, registered, AllTargets, States
  <1> QED
    BY <1>1 DEF Ours

LEMMA AfterDeregister ==
    ASSUME TypeOK, NEW ts, elb' = deregistered(ts)
    PROVE  Registered' = Registered \ ts /\ (UNCHANGED left => Ours' = Ours \ ts)
  <1>1. Registered' = Registered \ ts
    BY DEF TypeOK, Registered, deregistered, AllTargets, States
  <1> QED
    BY <1>1 DEF Ours

LEMMA SameRegistered ==
    ASSUME UNCHANGED <<elb, left>>
    PROVE  Registered' = Registered /\ Ours' = Ours
  BY DEF Registered, Ours

LEMMA HealthKeeps ==
    ASSUME TypeOK, NEW t \in Targets, HealthProgress(t) \/ TargetFails(t), UNCHANGED left
    PROVE  Registered' = Registered /\ Ours' = Ours
  <1>1. Registered' = Registered
    BY DEF TypeOK, HealthProgress, TargetFails, Registered, AllTargets
  <1> QED
    BY <1>1 DEF Ours

LEMMA CacheKept ==
    ASSUME CacheTrue, Registered' = Registered, cache' \in {cache, None}
    PROVE  CacheTrue'
  BY DEF CacheTrue

LEMMA CacheRegister ==
    ASSUME TypeOK, CacheTrue, NEW ts \in SUBSET Targets, elb' = registered(ts),
           recordSuccessfulRegister(ts), UNCHANGED left
    PROVE  CacheTrue'
  <1>1. Registered' = Registered \cup ts
    BY AfterRegister
  <1> QED
    BY <1>1 DEF TypeOK, CacheTrue, recordSuccessfulRegister, AllTargets

LEMMA CacheDeregister ==
    ASSUME TypeOK, CacheTrue, NEW ts, elb' = deregistered(ts),
           recordSuccessfulDeregister(ts)
    PROVE  CacheTrue'
  <1>1. Registered' = Registered \ ts
    BY AfterDeregister
  <1> QED
    BY <1>1 DEF TypeOK, CacheTrue, recordSuccessfulDeregister, AllTargets

LEMMA CacheList ==
    ASSUME TypeOK, CacheTrue, cache' = listed, UNCHANGED elb
    PROVE  CacheTrue'
  BY DEF TypeOK, CacheTrue, listed, refreshUnhealthyTargets, Registered, AllTargets

\* A listing tells what is registered, whatever the cache answered of it.
LEMMA ListedRight ==
    ASSUME TypeOK, CacheTrue
    PROVE  /\ NotDraining(listed) \cap Targets = Registered
           /\ \A t \in Registered : listed[t] # "absent"
  BY DEF TypeOK, CacheTrue, listed, refreshUnhealthyTargets, Registered, AllTargets,
         NotDraining, States

\* Of what is registered the filter holds nothing back, but what was left before.
LEMMA FilterAll ==
    ASSUME TypeOK, Owned, NEW ts
    PROVE  /\ Ours \cap ts \subseteq FilterTargetsForDeregistration(ts)
           /\ FilterTargetsForDeregistration(ts) \subseteq ts
  BY BindingAssumption DEF TypeOK, Owned, FilterTargetsForDeregistration, trackedTargets, ConfigMaps

LEMMA LoadKeeps ==
    ASSUME Owned, loadConfigMap, UNCHANGED cm
    PROVE  cmCache' \in {None, cm'}
  BY DEF Owned, loadConfigMap, trackedTargets

\* What is computed from the endpoints and the listing of a run.
LEMMA SameRun ==
    ASSUME run'.ep = run.ep, run'.ts = run.ts
    PROVE  /\ matched' = matched
           /\ unmatchedEndpoints' = unmatchedEndpoints
           /\ unmatchedTargets' = unmatchedTargets
           /\ NotDraining(run.ts)' = NotDraining(run.ts)
           /\ AddrsOf(run.ep)' = AddrsOf(run.ep)
           /\ AddrsOf(matched)' = AddrsOf(matched)
  BY DEF matched, unmatchedEndpoints, unmatchedTargets, NotDraining, AddrsOf

\* A run that ends.
LEMMA Ended ==
    ASSUME pc' = "idle", run' = Idle
    PROVE  Moded' /\ Worked'
  BY DEF Moded, Worked, Idle, Cleaning

-----------------------------------------------------------------------------
(***************************************************************************)
(* The steps that go on beside the worker, and those that end its run      *)
(* without another call.                                                   *)
(***************************************************************************)
\* The deferred reconciler and the informer do not write a checkpoint.
Untouched == ~setting.stale /\ ~setting.service => svc' = svc /\ seen' = cp' /\ cp' \in {cp, None}

LEMMA Beside ==
    ASSUME TypeOK, Sound, UNCHANGED <<setting, left, pc, cm, cmCache, fin>>,
           run'.ep = run.ep, run'.ts = run.ts, run'.mode = run.mode, run'.old = run.old,
           cache' \in {cache, None}, Registered' = Registered, Ours' = Ours,
           tgb' = tgb \/ (tgb = "present" /\ tgb' = IF fin THEN "deleting" ELSE "gone"),
           Untouched
    PROVE  Sound'
  <1>s. /\ matched' = matched
        /\ unmatchedEndpoints' = unmatchedEndpoints
        /\ unmatchedTargets' = unmatchedTargets
        /\ NotDraining(run.ts)' = NotDraining(run.ts)
        /\ AddrsOf(run.ep)' = AddrsOf(run.ep)
        /\ AddrsOf(matched)' = AddrsOf(matched)
    BY SameRun
  <1>m. MaxTargets' = MaxTargets /\ MultiCluster' = MultiCluster
    BY DEF MaxTargets, MultiCluster
  <1>1. Finalized'
    BY DEF Sound, Finalized, TypeOK
  <1>2. Moded'
    BY DEF Sound, Moded
  <1>3. CacheTrue'
    BY CacheKept DEF Sound
  <1>4. Worked'
    <2>1. Right(run.ep)' <=> Right(run.ep)
      BY <1>s, <1>m DEF Right
    <2> QED
      BY <2>1, <1>s DEF Sound, Worked
  <1>5. Owned'
    BY <1>s, <1>m DEF Sound, Owned
  <1>6. Trusted'
    <2> SUFFICES ASSUME ~setting.stale, ~setting.service
                 PROVE  Trusted'
      BY DEF Trusted
    <2>1. cp' # None => (Right(cp)' <=> Right(cp))
      BY <1>m DEF Right, AddrsOf, Untouched
    <2> QED
      BY <2>1, <1>s DEF Sound, Trusted, Untouched
  <1> QED
    BY <1>1, <1>2, <1>3, <1>4, <1>5, <1>6 DEF Sound

LEMMA SoundBeside ==
    ASSUME TypeOK, Sound, UNCHANGED <<setting, tg, left>>,
           \/ NetworkFails \/ handleDeferredItemError \/ Environment \/ UNCHANGED vars
    PROVE  Sound'
  <1>s. ~setting.stale /\ ~setting.service => seen = cp
    BY DEF Sound, Trusted
  <1>1. CASE NetworkFails
    <2>1. run'.ep = run.ep /\ run'.ts = run.ts /\ run'.mode = run.mode /\ run'.old = run.old
      BY <1>1 DEF NetworkFails, TypeOK, Runs
    <2> QED
      BY <1>1, <1>s, <2>1, Beside, SameRegistered DEF NetworkFails, env, Untouched
  <1>2. CASE handleDeferredItemError
    BY <1>2, <1>s, Beside, SameRegistered DEF handleDeferredItemError, env, Untouched
  <1>3. CASE ChangeEndpoints
    BY <1>3, <1>s, Beside, SameRegistered DEF ChangeEndpoints, Rest, Untouched
  <1>4. CASE ChangeService
    BY <1>4, <1>s, Beside, SameRegistered DEF ChangeService, Rest, Untouched
  <1>5. CASE DeleteBinding
    BY <1>5, <1>s, Beside, SameRegistered DEF DeleteBinding, Rest, Untouched
  <1>6. ASSUME NEW t \in Targets, HealthProgress(t) \/ TargetFails(t)
        PROVE  Sound'
    <2>1. Registered' = Registered /\ Ours' = Ours
      BY <1>6, HealthKeeps
    <2> QED
      BY <1>6, <1>s, <2>1, Beside DEF HealthProgress, TargetFails, Rest, env, Untouched
  <1>7. CASE CacheExpires
    BY <1>7, <1>s, Beside, SameRegistered DEF CacheExpires, env, Untouched
  <1>8. CASE ProcessedExpires \/ Resync
    BY <1>8, <1>s, Beside, SameRegistered DEF ProcessedExpires, Resync, env, Untouched
  <1>9. CASE handleDeferredItem
    <2>1. Untouched
      BY <1>9, <1>s DEF handleDeferredItem, env, patchCheckpoint, Untouched
    <2> QED
      BY <1>9, <2>1, Beside, SameRegistered DEF handleDeferredItem, env
  <1>10. CASE InformerSync
    BY <1>10, <1>s, Beside, SameRegistered DEF InformerSync, env, Untouched
  <1>11. CASE UNCHANGED vars
    BY <1>11, <1>s, Beside, SameRegistered DEF vars, Untouched
  <1> QED
    BY <1>1, <1>2, <1>3, <1>4, <1>5, <1>6, <1>7, <1>8, <1>9, <1>10, <1>11 DEF Environment

LEMMA RunEnds ==
    ASSUME TypeOK, Sound, UNCHANGED <<setting, left, cm, fin, tgb>>, pc' = "idle", run' = Idle,
           cmCache' \in {cmCache, None}, cache' \in {cache, None}, Registered' = Registered,
           Ours' = Ours,
           Untouched
    PROVE  Sound'
  <1>m. MaxTargets' = MaxTargets /\ MultiCluster' = MultiCluster
    BY DEF MaxTargets, MultiCluster
  <1>1. Finalized'
    BY DEF Sound, Finalized, TypeOK
  <1>2. Moded' /\ Worked'
    BY Ended
  <1>3. CacheTrue'
    BY CacheKept DEF Sound
  <1>4. Owned'
    BY <1>m DEF Sound, Owned
  <1>5. Trusted'
    <2> SUFFICES ASSUME ~setting.stale, ~setting.service
                 PROVE  Trusted'
      BY DEF Trusted
    <2>1. cp' # None => (Right(cp)' <=> Right(cp))
      BY <1>m DEF Right, AddrsOf, Untouched
    <2>2. run'.mode = "none"
      BY DEF Idle
    <2> QED
      BY <2>1, <2>2 DEF Sound, Trusted, Untouched
  <1> QED
    BY <1>1, <1>2, <1>3, <1>4, <1>5 DEF Sound

LEMMA SoundEnds ==
    ASSUME TypeOK, Sound, UNCHANGED <<setting, tg, left>>,
           \/ Defer \/ (RunFails /\ tg) \/ ReconcileFails \/ Restart \/ \E ps \in SUBSET GatedPods : GatesFail(ps)
    PROVE  Sound'
  <1>s. ~setting.stale /\ ~setting.service => seen = cp
    BY DEF Sound, Trusted
  <1>1. CASE Defer
    BY <1>1, <1>s, RunEnds, SameRegistered DEF Defer, env, Goto, Untouched
  <1>2. CASE ReconcileFails
    BY <1>2, <1>s, RunEnds, SameRegistered DEF ReconcileFails, Fail, env, Goto, Untouched
  <1>3. CASE Restart
    BY <1>3, <1>s, RunEnds, SameRegistered DEF Restart, env, Goto, Untouched
  <1>4. ASSUME NEW ps \in SUBSET GatedPods, GatesFail(ps)
        PROVE  Sound'
    BY <1>4, <1>s, RunEnds, SameRegistered DEF GatesFail, Fail, env, Goto, Untouched
  <1>5. CASE RunFails /\ tg
    BY <1>5, <1>s, RunEnds, SameRegistered DEF RunFails, env, Goto, Untouched
  <1> QED
    BY <1>1, <1>2, <1>3, <1>4, <1>5

-----------------------------------------------------------------------------
(***************************************************************************)
(* The worker.                                                             *)
(***************************************************************************)
\* A step of the worker that changes nothing outside it but the annotation, which
\* it leaves alone or empties.
LEMMA WorkerMoves ==
    ASSUME TypeOK, Sound, UNCHANGED <<setting, left, svc, tgb, elb, cm, cmCache>>,
           cp' \in {cp, None}, ~setting.stale => seen' = cp' \/ UNCHANGED <<cp, seen>>,
           fin' = fin \/ fin', pc' # "idle" => fin', tgb = "gone" => ~fin', CacheTrue'
    PROVE  /\ Registered' = Registered /\ Ours' = Ours
           /\ Finalized' /\ cmCache' \in {None, cm'}
           /\ MultiCluster' => Ours' \subseteq (IF cm' = None THEN {} ELSE cm')
           /\ ~setting.stale /\ ~setting.service =>
                /\ svc' /\ seen' = cp'
                /\ cp' # None /\ tgb' = "present" => Right(cp)'
  <1>1. Registered' = Registered /\ Ours' = Ours
    BY SameRegistered
  <1>2. Finalized' /\ cmCache' \in {None, cm'}
    BY <1>1 DEF Sound, Finalized, Owned, TypeOK
  <1>3. MultiCluster' => Ours' \subseteq (IF cm' = None THEN {} ELSE cm')
    BY <1>1 DEF Sound, Owned, MultiCluster
  <1>4. ASSUME ~setting.stale, ~setting.service
        PROVE  /\ svc' /\ seen' = cp'
               /\ cp' # None /\ tgb' = "present" => Right(cp)'
    <2>1. cp' # None => (Right(cp)' <=> Right(cp))
      BY <1>1 DEF Right, AddrsOf, MaxTargets
    <2> QED
      BY <1>4, <2>1 DEF Sound, Trusted
  <1> QED
    BY <1>1, <1>2, <1>3, <1>4

\* Assembling the invariant after such a step.
LEMMA WorkerSound ==
    ASSUME Finalized', cmCache' \in {None, cm'},
           MultiCluster' => Ours' \subseteq (IF cm' = None THEN {} ELSE cm'),
           pc' = "register" /\ MultiCluster' => cm' = AddrsOf(run.ep)',
           CacheTrue', Moded', Worked', Trusted'
    PROVE  Sound'
  BY DEF Sound, Owned

LEMMA SoundStart ==
    ASSUME TypeOK, Sound, UNCHANGED <<setting, tg, left>>, Start
    PROVE  Sound'
  <1>1. CacheTrue'
    BY CacheKept, SameRegistered DEF Start, Sound
  <1>2. fin' /\ tgb # "gone"
    BY DEF Start, Sound, Finalized, TypeOK
  <1>3. pc' \in {"resolve", "cleanList"}
    BY DEF Start, Goto
  <1>4. /\ run'.mode = IF tgb = "present" THEN "reconcile" ELSE "delete"
        /\ run'.old = seen
    BY DEF Start, Idle
  <1>5. Moded' /\ Worked'
    BY <1>3, <1>4 DEF Start, Goto, Moded, Worked, Cleaning
  <1>6. /\ Finalized' /\ cmCache' \in {None, cm'}
        /\ MultiCluster' => Ours' \subseteq (IF cm' = None THEN {} ELSE cm')
        /\ ~setting.stale /\ ~setting.service =>
             /\ svc' /\ seen' = cp'
             /\ cp' # None /\ tgb' = "present" => Right(cp)'
    BY <1>1, <1>2, WorkerMoves DEF Start
  <1>7. Trusted'
    BY <1>3, <1>4, <1>6 DEF Trusted, Start, Sound
  <1> QED
    BY <1>1, <1>3, <1>5, <1>6, <1>7, WorkerSound

LEMMA SoundResolve ==
    ASSUME TypeOK, Sound, UNCHANGED <<setting, tg, left>>, ResolveNotFound \/ Resolve
    PROVE  Sound'
  <1>1. UNCHANGED <<svc, tgb, elb, cm, cmCache, cp, seen, fin, cache>> /\ pc = "resolve"
    BY DEF ResolveNotFound, Resolve, env
  <1>2. CacheTrue'
    BY <1>1, CacheKept, SameRegistered DEF Sound
  <1>3. fin /\ tgb # "gone"
    BY <1>1 DEF Sound, Finalized
  <1>4. /\ run'.old = run.old
        /\ \/ pc' = "cleanList" /\ run'.mode = "notfound" /\ ~svc
           \/ pc' = "list" /\ run'.mode = run.mode
    BY DEF ResolveNotFound, Resolve, Goto, TypeOK, Runs
  <1>5. Moded' /\ Worked'
    BY <1>1, <1>4 DEF Moded, Worked, Cleaning, Sound
  <1>6. /\ Finalized' /\ cmCache' \in {None, cm'}
        /\ MultiCluster' => Ours' \subseteq (IF cm' = None THEN {} ELSE cm')
        /\ ~setting.stale /\ ~setting.service =>
             /\ svc' /\ seen' = cp'
             /\ cp' # None /\ tgb' = "present" => Right(cp)'
    BY <1>1, <1>2, <1>3, WorkerMoves
  <1>7. Trusted'
    BY <1>1, <1>4, <1>6 DEF Trusted, Sound
  <1> QED
    BY <1>2, <1>4, <1>5, <1>6, <1>7, WorkerSound

LEMMA SoundList ==
    ASSUME TypeOK, Sound, UNCHANGED <<setting, tg, left>>,
           ListTargets("list", "reset") \/ ListTargets("cleanList", "cleanDeregister")
    PROVE  Sound'
  <1>1. /\ UNCHANGED <<svc, tgb, elb, cm, cmCache, cp, seen, fin>>
        /\ pc \in {"list", "cleanList"}
        /\ pc' = IF pc = "list" THEN "reset" ELSE "cleanDeregister"
        /\ cache' = listed
    BY DEF ListTargets, env, Goto
  <1>2. CacheTrue'
    BY <1>1, CacheList DEF Sound
  <1>3. fin /\ tgb # "gone"
    BY <1>1 DEF Sound, Finalized
  <1>4. run'.old = run.old /\ run'.mode = run.mode /\ run'.ts = listed
    BY DEF ListTargets, TypeOK, Runs
  <1>5. Moded'
    BY <1>1, <1>4 DEF Moded, Cleaning, Sound
  <1>6. Worked'
    <2>1. NotDraining(run.ts)' = NotDraining(listed)
      BY <1>4 DEF NotDraining
    <2>2. Registered' = Registered
      BY <1>1, SameRegistered
    <2> QED
      BY <1>1, <1>4, <2>1, <2>2, ListedRight DEF Worked, Sound
  <1>7. /\ Finalized' /\ cmCache' \in {None, cm'}
        /\ MultiCluster' => Ours' \subseteq (IF cm' = None THEN {} ELSE cm')
        /\ ~setting.stale /\ ~setting.service =>
             /\ svc' /\ seen' = cp'
             /\ cp' # None /\ tgb' = "present" => Right(cp)'
    BY <1>1, <1>2, <1>3, WorkerMoves
  <1>8. Trusted'
    BY <1>1, <1>4, <1>7 DEF Trusted, Sound
  <1> QED
    BY <1>1, <1>2, <1>5, <1>6, <1>7, <1>8, WorkerSound

LEMMA SoundReset ==
    ASSUME TypeOK, Sound, UNCHANGED <<setting, tg, left>>, ResetCheckpoint
    PROVE  Sound'
  <1>1. /\ UNCHANGED <<svc, tgb, elb, cm, cmCache, fin, cache, run>>
        /\ pc = "reset" /\ pc' = "deregister"
    BY DEF ResetCheckpoint, env, Goto
  <1>2. /\ cp' \in {cp, None}
        /\ ~setting.stale => seen' = cp' \/ UNCHANGED <<cp, seen>>
    BY DEF ResetCheckpoint, updateTGBCheckPoint, patchCheckpoint
  <1>3. CacheTrue'
    BY <1>1, CacheKept, SameRegistered DEF Sound
  <1>4. fin /\ tgb # "gone"
    BY <1>1 DEF Sound, Finalized
  <1>s. /\ unmatchedEndpoints' = unmatchedEndpoints
        /\ unmatchedTargets' = unmatchedTargets
        /\ NotDraining(run.ts)' = NotDraining(run.ts)
    BY <1>1, SameRun
  <1>5. Moded'
    BY <1>1 DEF Moded, Cleaning, Sound
  <1>6. Worked'
    BY <1>1, <1>s, SameRegistered DEF Worked, Sound
  <1>7. /\ Finalized' /\ cmCache' \in {None, cm'}
        /\ MultiCluster' => Ours' \subseteq (IF cm' = None THEN {} ELSE cm')
        /\ ~setting.stale /\ ~setting.service =>
             /\ svc' /\ seen' = cp'
             /\ cp' # None /\ tgb' = "present" => Right(cp)'
    BY <1>1, <1>2, <1>3, <1>4, WorkerMoves
  <1>8. Trusted'
    <2> SUFFICES ASSUME ~setting.stale, ~setting.service
                 PROVE  Trusted'
      BY DEF Trusted
    <2>1. cp \in {run.old, None}
      BY <1>1 DEF Sound, Trusted
    <2>2. cp' # None => unmatchedEndpoints = {} /\ unmatchedTargets = {}
      BY <2>1 DEF ResetCheckpoint, updateTGBCheckPoint, patchCheckpoint, willChange
    <2> QED
      BY <1>1, <1>2, <1>7, <1>s, <2>1, <2>2 DEF Trusted, Sound
  <1> QED
    BY <1>1, <1>3, <1>5, <1>6, <1>7, <1>8, WorkerSound

\* Without what matches no endpoint, the addresses of the matched ones are left.
LEMMA MatchedLeft ==
    ASSUME TypeOK, NotDraining(run.ts) \cap Targets = Registered
    PROVE  Ours \ unmatchedTargets = AddrsOf(matched) \ left
  <1>1. AddrsOf(run.ep) \in SUBSET Targets
    BY AddrsType, RunFields DEF TypeOK
  <1>2. AddrsOf(matched) = AddrsOf(run.ep) \cap NotDraining(run.ts)
    BY DEF AddrsOf, matched
  <1> QED
    BY <1>1, <1>2 DEF unmatchedTargets, Ours

LEMMA SoundDeregister ==
    ASSUME TypeOK, Sound, UNCHANGED <<setting, tg, left>>, Deregister
    PROVE  Sound'
  <1>1. /\ UNCHANGED <<svc, tgb, cm, fin, cp, seen>>
        /\ pc = "deregister" /\ pc' = "track"
    BY DEF Deregister, env, Goto
  <1>2. fin /\ tgb # "gone" /\ run.mode = "reconcile"
    BY <1>1 DEF Sound, Finalized, Moded, Cleaning
  <1>3. /\ run'.ep = run.ep /\ run'.ts = run.ts /\ run'.mode = run.mode /\ run'.old = run.old
    BY DEF Deregister, TypeOK, Runs
  <1>4. /\ CacheTrue' /\ cmCache' \in {None, cm'}
        /\ Ours' = Ours \ unmatchedTargets
    <2>1. CASE unmatchedTargets = {}
      BY <1>1, <2>1, CacheKept, SameRegistered DEF Deregister, Sound, Owned
    <2>2. CASE unmatchedTargets # {}
      <3>1. PICK ts : /\ ts = FilterTargetsForDeregistration(unmatchedTargets)
                      /\ elb' = deregistered(ts)
                      /\ recordSuccessfulDeregister(ts)
                      /\ loadConfigMap
        BY <2>2 DEF Deregister
      <3>2. CacheTrue' /\ Ours' = Ours \ ts
        BY <3>1, CacheDeregister, AfterDeregister DEF Sound
      <3>3. cmCache' \in {None, cm'}
        BY <1>1, <3>1, LoadKeeps DEF Sound
      <3>4. /\ Ours \cap unmatchedTargets \subseteq ts
            /\ ts \subseteq unmatchedTargets
        BY <3>1, FilterAll DEF Sound
      <3> QED
        BY <3>2, <3>3, <3>4
    <2> QED
      BY <2>1, <2>2
  <1>s. /\ unmatchedEndpoints' = unmatchedEndpoints
        /\ unmatchedTargets' = unmatchedTargets
        /\ AddrsOf(matched)' = AddrsOf(matched)
    BY <1>3, SameRun
  <1>5. Moded'
    BY <1>1, <1>2, <1>3 DEF Moded, Cleaning
  <1>6. Worked'
    <2>1. Ours' = AddrsOf(matched)' \ left'
      BY <1>1, <1>4, <1>s, MatchedLeft DEF Sound, Worked
    <2> QED
      BY <1>1, <2>1 DEF Worked
  <1>7. Finalized'
    BY <1>1, <1>2 DEF Finalized, Sound
  <1>8. MultiCluster' => Ours' \subseteq (IF cm' = None THEN {} ELSE cm')
    BY <1>1, <1>4 DEF Sound, Owned, MultiCluster
  <1>9. Trusted'
    <2> SUFFICES ASSUME ~setting.stale, ~setting.service
                 PROVE  Trusted'
      BY DEF Trusted
    <2>1. cp # None => unmatchedTargets = {} /\ unmatchedEndpoints = {}
      BY <1>1 DEF Sound, Trusted
    <2>2. cp' # None /\ tgb' = "present" => Right(cp)'
      BY <1>1, <1>4, <2>1 DEF Sound, Trusted, Right, AddrsOf, MaxTargets
    <2> QED
      BY <1>1, <1>2, <1>3, <1>s, <2>1, <2>2 DEF Trusted, Sound
  <1> QED
    BY <1>1, <1>4, <1>5, <1>6, <1>7, <1>8, <1>9, WorkerSound

\* Past the deregistration: what updateTrackedTargets may write.
LEMMA TrackedKeeps ==
    ASSUME TypeOK, Sound, NEW r, updateTrackedTargets(r), UNCHANGED <<setting, elb, left>>,
           Ours \subseteq AddrsOf(run.ep)
    PROVE  /\ cmCache' \in {None, cm'}
           /\ MultiCluster' => Ours' \subseteq (IF cm' = None THEN {} ELSE cm')
  <1>1. AddrsOf(run.ep) # None
    BY AddrsType, RunFields, BindingAssumption DEF TypeOK
  <1>2. Ours' = Ours
    BY SameRegistered
  <1> QED
    BY <1>1, <1>2 DEF updateTrackedTargets, persistConfigMap, Sound, Owned, MultiCluster

LEMMA MatchedSome ==
    AddrsOf(matched) \subseteq AddrsOf(run.ep)
  BY DEF AddrsOf, matched

LEMMA MatchedAll ==
    ASSUME unmatchedEndpoints = {}
    PROVE  AddrsOf(matched) = AddrsOf(run.ep)
  BY DEF unmatchedEndpoints, matched, AddrsOf

LEMMA SoundTrackBefore ==
    ASSUME TypeOK, Sound, UNCHANGED <<setting, tg, left>>, TrackBefore
    PROVE  Sound'
  <1>1. /\ UNCHANGED <<svc, tgb, elb, fin, cp, seen, cache>>
        /\ pc = "track"
        /\ pc' = IF unmatchedEndpoints = {} THEN "trackAfter" ELSE "register"
    BY DEF TrackBefore, env, Goto
  <1>2. /\ fin /\ tgb # "gone" /\ run.mode = "reconcile"
        /\ Ours = AddrsOf(matched) \ left
    BY <1>1 DEF Sound, Finalized, Moded, Cleaning, Worked
  <1>3. /\ run'.ep = run.ep /\ run'.ts = run.ts /\ run'.mode = run.mode /\ run'.old = run.old
    BY DEF TrackBefore, TypeOK, Runs
  <1>s. /\ unmatchedEndpoints' = unmatchedEndpoints
        /\ unmatchedTargets' = unmatchedTargets
        /\ AddrsOf(matched)' = AddrsOf(matched)
        /\ AddrsOf(run.ep)' = AddrsOf(run.ep)
    BY <1>3, SameRun
  <1>r. Registered' = Registered /\ Ours' = Ours
    BY <1>1, SameRegistered
  <1>4. CacheTrue'
    BY <1>1, <1>r, CacheKept DEF Sound
  <1>5. /\ cmCache' \in {None, cm'}
        /\ MultiCluster' => Ours' \subseteq (IF cm' = None THEN {} ELSE cm')
        /\ pc' = "register" /\ MultiCluster' => cm' = AddrsOf(run.ep)'
    <2>1. CASE unmatchedEndpoints = {}
      BY <1>1, <1>r, <2>1 DEF TrackBefore, Sound, Owned, MultiCluster
    <2>2. CASE unmatchedEndpoints # {}
      <3>1. updateTrackedTargets(TRUE)
        BY <2>2 DEF TrackBefore
      <3>2. Ours \subseteq AddrsOf(run.ep)
        BY <1>2, MatchedSome
      <3>3. /\ cmCache' \in {None, cm'}
            /\ MultiCluster' => Ours' \subseteq (IF cm' = None THEN {} ELSE cm')
        BY <1>1, <3>1, <3>2, TrackedKeeps
      <3>4. MultiCluster' => cm' = AddrsOf(run.ep)'
        BY <3>1, <1>s DEF updateTrackedTargets, persistConfigMap, MultiCluster
      <3> QED
        BY <3>3, <3>4
    <2> QED
      BY <2>1, <2>2
  <1>6. Moded'
    BY <1>1, <1>2, <1>3 DEF Moded, Cleaning
  <1>7. Worked'
    <2>1. CASE unmatchedEndpoints = {}
      <3>1. Right(run.ep)'
        BY <1>2, <1>r, <1>s, <2>1, MatchedAll DEF Right
      <3> QED
        BY <1>1, <2>1, <3>1 DEF Worked
    <2>2. CASE unmatchedEndpoints # {}
      BY <1>1, <1>2, <1>r, <1>s, <2>2 DEF Worked
    <2> QED
      BY <2>1, <2>2
  <1>8. Finalized'
    BY <1>1, <1>2 DEF Finalized, Sound
  <1>9. Trusted'
    <2> SUFFICES ASSUME ~setting.stale, ~setting.service
                 PROVE  Trusted'
      BY DEF Trusted
    <2>1. cp' # None /\ tgb' = "present" => Right(cp)'
      BY <1>1, <1>r DEF Sound, Trusted, Right, AddrsOf, MaxTargets
    <2> QED
      BY <1>1, <1>2, <1>3, <1>s, <2>1 DEF Trusted, Sound
  <1> QED
    BY <1>4, <1>5, <1>6, <1>7, <1>8, <1>9, WorkerSound

LEMMA SoundTrackAfter ==
    ASSUME TypeOK, Sound, UNCHANGED <<setting, tg, left>>, TrackAfter
    PROVE  Sound'
  <1>1. /\ UNCHANGED <<svc, tgb, elb, fin, cp, seen, cache, run>>
        /\ pc = "trackAfter" /\ pc' = "gates"
        /\ updateTrackedTargets(run.upd)
    BY DEF TrackAfter, env, Goto
  <1>2. /\ fin /\ tgb # "gone" /\ run.mode = "reconcile"
        /\ Right(run.ep)
    BY <1>1 DEF Sound, Finalized, Moded, Cleaning, Worked
  <1>s. /\ unmatchedEndpoints' = unmatchedEndpoints
        /\ unmatchedTargets' = unmatchedTargets
        /\ AddrsOf(run.ep)' = AddrsOf(run.ep)
    BY <1>1, SameRun
  <1>r. Registered' = Registered /\ Ours' = Ours
    BY <1>1, SameRegistered
  <1>3. CacheTrue'
    BY <1>1, <1>r, CacheKept DEF Sound
  <1>4. /\ cmCache' \in {None, cm'}
        /\ MultiCluster' => Ours' \subseteq (IF cm' = None THEN {} ELSE cm')
    BY <1>1, <1>2, TrackedKeeps DEF Right
  <1>5. Moded'
    BY <1>1, <1>2 DEF Moded, Cleaning
  <1>6. Worked'
    <2>1. Right(run.ep)'
      BY <1>2, <1>r, <1>s DEF Right, MaxTargets
    <2> QED
      BY <1>1, <2>1 DEF Worked
  <1>7. Finalized'
    BY <1>1, <1>2 DEF Finalized, Sound
  <1>8. Trusted'
    <2> SUFFICES ASSUME ~setting.stale, ~setting.service
                 PROVE  Trusted'
      BY DEF Trusted
    <2>1. cp' # None /\ tgb' = "present" => Right(cp)'
      BY <1>1, <1>r DEF Sound, Trusted, Right, AddrsOf, MaxTargets
    <2> QED
      BY <1>1, <1>2, <1>s, <2>1 DEF Trusted, Sound
  <1> QED
    BY <1>1, <1>3, <1>4, <1>5, <1>6, <1>7, <1>8, WorkerSound

\* What a registration, whole or in part, leaves of the invariant.
LEMMA RegisterKeepsSound ==
    ASSUME TypeOK, Sound, pc = "register", UNCHANGED <<setting, left, cm, cmCache>>,
           NEW ts, ts \subseteq AddrsOf(unmatchedEndpoints),
           elb' = registered(ts), recordSuccessfulRegister(ts)
    PROVE  /\ Ours' = (AddrsOf(matched) \cup ts) \ left
           /\ CacheTrue'
           /\ cmCache' \in {None, cm'}
           /\ MultiCluster' => Ours' \subseteq (IF cm' = None THEN {} ELSE cm')
           /\ ~setting.stale /\ ~setting.service /\ cp # None => ts = {}
  <1>1. AddrsOf(run.ep) \in SUBSET Targets /\ AddrsOf(unmatchedEndpoints) \subseteq AddrsOf(run.ep)
    BY AddrsType, RunFields DEF TypeOK, unmatchedEndpoints, AddrsOf
  <1>2. Ours' = (AddrsOf(matched) \cup ts) \ left
    BY <1>1, AfterRegister DEF Sound, Worked
  <1>3. CacheTrue'
    BY <1>1, CacheRegister DEF Sound
  <1>4. cmCache' \in {None, cm'}
    BY DEF Sound, Owned
  <1>5. MultiCluster' => Ours' \subseteq (IF cm' = None THEN {} ELSE cm')
    <2>1. Ours' \subseteq AddrsOf(run.ep)
      BY <1>1, <1>2, MatchedSome
    <2>2. AddrsOf(run.ep) # None
      BY <1>1, BindingAssumption
    <2> QED
      BY <2>1, <2>2 DEF Sound, Owned, MultiCluster
  <1>6. ~setting.stale /\ ~setting.service /\ cp # None => ts = {}
    BY DEF Sound, Trusted, AddrsOf
  <1> QED
    BY <1>2, <1>3, <1>4, <1>5, <1>6

LEMMA SoundRegister ==
    ASSUME TypeOK, Sound, UNCHANGED <<setting, tg, left>>, Register
    PROVE  Sound'
  <1>1. /\ UNCHANGED <<svc, tgb, fin, cp, seen, cm, cmCache>>
        /\ pc = "register" /\ pc' = "trackAfter"
    BY DEF Register, env, Goto
  <1>2. /\ fin /\ tgb # "gone" /\ run.mode = "reconcile"
    BY <1>1 DEF Sound, Finalized, Moded, Cleaning
  <1>p. PICK ps \in SUBSET unmatchedEndpoints :
          /\ Cardinality(ps) = eligible
          /\ elb' = registered(AddrsOf(ps))
          /\ recordSuccessfulRegister(AddrsOf(ps))
          /\ run' = [run EXCEPT !.reg = ps]
    BY DEF Register
  <1>3. /\ run'.ep = run.ep /\ run'.ts = run.ts /\ run'.mode = run.mode /\ run'.old = run.old
    BY <1>p DEF TypeOK, Runs
  <1>s. /\ unmatchedEndpoints' = unmatchedEndpoints
        /\ unmatchedTargets' = unmatchedTargets
        /\ AddrsOf(run.ep)' = AddrsOf(run.ep)
    BY <1>3, SameRun
  <1>a. AddrsOf(ps) \subseteq AddrsOf(unmatchedEndpoints)
    BY DEF AddrsOf
  <1>4. /\ Ours' = (AddrsOf(matched) \cup AddrsOf(ps)) \ left
        /\ CacheTrue'
        /\ cmCache' \in {None, cm'}
        /\ MultiCluster' => Ours' \subseteq (IF cm' = None THEN {} ELSE cm')
        /\ ~setting.stale /\ ~setting.service /\ cp # None => AddrsOf(ps) = {}
    BY <1>1, <1>p, <1>a, RegisterKeepsSound
  <1>5. Moded'
    BY <1>1, <1>2, <1>3 DEF Moded, Cleaning
  <1>6. Worked'
    <2>1. Ours' \subseteq AddrsOf(run.ep)'
      BY <1>4, <1>s DEF AddrsOf, matched, unmatchedEndpoints
    <2>2. ASSUME MaxTargets' = 0
          PROVE  Ours' = AddrsOf(run.ep)' \ left'
      <3>1. IsFiniteSet(unmatchedEndpoints)
        BY FS_Subset, BindingAssumption, RunFields DEF TypeOK, unmatchedEndpoints
      <3>2. eligible = Cardinality(unmatchedEndpoints)
        BY <2>2 DEF eligible, MaxTargets
      <3>3. ps = unmatchedEndpoints
        BY <1>p, <3>1, <3>2, FS_Subset
      <3>4. AddrsOf(matched) \cup AddrsOf(unmatchedEndpoints) = AddrsOf(run.ep)
        BY DEF AddrsOf, matched, unmatchedEndpoints
      <3> QED
        BY <1>4, <1>s, <3>3, <3>4
    <2>3. Right(run.ep)'
      BY <2>1, <2>2 DEF Right
    <2> QED
      BY <1>1, <2>3 DEF Worked
  <1>7. Finalized'
    BY <1>1, <1>2 DEF Finalized, Sound
  <1>8. Trusted'
    <2> SUFFICES ASSUME ~setting.stale, ~setting.service
                 PROVE  Trusted'
      BY DEF Trusted
    <2>1. cp # None => Ours' = Ours
      BY <1>1, <1>4 DEF Sound, Worked
    <2>2. cp' # None /\ tgb' = "present" => Right(cp)'
      BY <1>1, <2>1 DEF Sound, Trusted, Right, AddrsOf, MaxTargets
    <2> QED
      BY <1>1, <1>2, <1>3, <1>s, <2>2 DEF Trusted, Sound
  <1> QED
    BY <1>1, <1>4, <1>5, <1>6, <1>7, <1>8, WorkerSound

\* The run that ends with a call that failed in part.
LEMMA FailedSound ==
    ASSUME TypeOK, Sound, UNCHANGED <<setting, left, svc, tgb, fin, cp, seen>>, pc # "idle",
           pc' = "idle", run' = Idle, CacheTrue', cmCache' \in {None, cm'},
           MultiCluster' => Ours' \subseteq (IF cm' = None THEN {} ELSE cm'),
           ~setting.stale /\ ~setting.service /\ cp # None /\ tgb = "present"
              => Ours' = Ours
    PROVE  Sound'
  <1>1. fin
    BY DEF Sound, Finalized
  <1>2. Finalized'
    BY <1>1 DEF Sound, Finalized
  <1>3. Moded' /\ Worked'
    BY Ended
  <1>4. Trusted'
    <2> SUFFICES ASSUME ~setting.stale, ~setting.service
                 PROVE  Trusted'
      BY DEF Trusted
    <2>1. cp' # None /\ tgb' = "present" => Right(cp)'
      BY DEF Sound, Trusted, Right, AddrsOf, MaxTargets
    <2>2. run'.mode = "none"
      BY DEF Idle
    <2> QED
      BY <2>1, <2>2 DEF Trusted, Sound
  <1> QED
    BY <1>2, <1>3, <1>4, WorkerSound

LEMMA SoundRegisterFails ==
    ASSUME TypeOK, Sound, UNCHANGED <<setting, tg, left>>, NEW done, RegisterFails(done, {})
    PROVE  Sound'
  <1>1. /\ pc = "register" /\ pc' = "idle" /\ run' = Idle
        /\ UNCHANGED <<svc, tgb, fin, cp, seen, cm, cmCache>>
        /\ done \subseteq AddrsOf(unmatchedEndpoints)
        /\ elb' = registered(done \cup {}) /\ recordSuccessfulRegister(done)
    BY DEF RegisterFails, Fail, env, Goto
  <1>2. elb' = registered(done)
    BY <1>1 DEF registered
  <1>3. /\ Ours' = (AddrsOf(matched) \cup done) \ left
        /\ CacheTrue'
        /\ cmCache' \in {None, cm'}
        /\ MultiCluster' => Ours' \subseteq (IF cm' = None THEN {} ELSE cm')
        /\ ~setting.stale /\ ~setting.service /\ cp # None => done = {}
    BY <1>1, <1>2, RegisterKeepsSound
  <1>4. ~setting.stale /\ ~setting.service /\ cp # None => Ours' = Ours
    BY <1>1, <1>3 DEF Sound, Worked
  <1> QED
    BY <1>1, <1>3, <1>4, FailedSound

LEMMA SoundDeregisterFails ==
    ASSUME TypeOK, Sound, UNCHANGED <<setting, tg, left>>, NEW done, DeregisterFails(done, {})
    PROVE  Sound'
  <1>1. /\ pc \in {"deregister", "cleanDeregister"} /\ pc' = "idle" /\ run' = Idle
        /\ UNCHANGED <<svc, tgb, fin, cp, seen, cm>> /\ loadConfigMap
        /\ done # {} /\ done \subseteq FilterTargetsForDeregistration(deregistering)
        /\ elb' = deregistered(done \cup {}) /\ recordSuccessfulDeregister(done)
    BY DEF DeregisterFails, Fail, env, Goto
  <1>2. elb' = deregistered(done)
    BY <1>1 DEF deregistered
  <1>3. CacheTrue' /\ Ours' = Ours \ done
    BY <1>1, <1>2, CacheDeregister, AfterDeregister DEF Sound
  <1>4. cmCache' \in {None, cm'}
    BY <1>1, LoadKeeps DEF Sound
  <1>5. MultiCluster' => Ours' \subseteq (IF cm' = None THEN {} ELSE cm')
    BY <1>1, <1>3 DEF Sound, Owned, MultiCluster
  <1>6. ASSUME ~setting.stale, ~setting.service, cp # None, tgb = "present"
        PROVE  Ours' = Ours
    <2>1. done \subseteq deregistering
      BY <1>1, FilterAll DEF Sound
    <2>2. pc # "cleanDeregister"
      BY <1>6 DEF Sound, Moded, Trusted, Cleaning
    <2>3. deregistering = {}
      BY <1>1, <1>6, <2>2 DEF deregistering, Sound, Trusted
    <2> QED
      BY <1>1, <1>3, <2>1, <2>3
  <1> QED
    BY <1>1, <1>3, <1>4, <1>5, <1>6, FailedSound

LEMMA SoundGates ==
    ASSUME TypeOK, Sound, UNCHANGED <<setting, tg, left>>, UpdateGates
    PROVE  Sound'
  <1>1. /\ UNCHANGED <<svc, tgb, elb, fin, cp, seen, cache, cm, cmCache>>
        /\ pc = "gates"
        /\ \/ pc' = "idle" /\ run' = Idle
           \/ pc' = "save" /\ UNCHANGED run
    BY DEF UpdateGates, env, Goto
  <1>2. CASE pc' = "idle" /\ run' = Idle
    <2>1. Untouched
      BY <1>1 DEF Untouched, Sound, Trusted
    <2> QED
      BY <1>1, <1>2, <2>1, RunEnds, SameRegistered
  <1>3. CASE pc' = "save" /\ UNCHANGED run
    <2>1. CacheTrue'
      BY <1>1, CacheKept, SameRegistered DEF Sound
    <2>2. fin /\ tgb # "gone" /\ run.mode = "reconcile" /\ Right(run.ep)
      BY <1>1 DEF Sound, Finalized, Moded, Cleaning, Worked
    <2>s. /\ unmatchedEndpoints' = unmatchedEndpoints
          /\ unmatchedTargets' = unmatchedTargets
          /\ AddrsOf(run.ep)' = AddrsOf(run.ep)
      BY <1>3, SameRun
    <2>3. Moded'
      BY <1>3, <2>2 DEF Moded, Cleaning
    <2>4. Worked'
      <3>1. Right(run.ep)'
        BY <1>1, <2>2, <2>s, SameRegistered DEF Right, MaxTargets
      <3> QED
        BY <1>3, <3>1 DEF Worked
    <2>5. /\ Finalized' /\ cmCache' \in {None, cm'}
          /\ MultiCluster' => Ours' \subseteq (IF cm' = None THEN {} ELSE cm')
          /\ ~setting.stale /\ ~setting.service =>
               /\ svc' /\ seen' = cp'
               /\ cp' # None /\ tgb' = "present" => Right(cp)'
      BY <1>1, <2>1, <2>2, WorkerMoves
    <2>6. Trusted'
      BY <1>1, <1>3, <2>s, <2>5 DEF Trusted, Sound
    <2> QED
      BY <1>3, <2>1, <2>3, <2>4, <2>5, <2>6, WorkerSound
  <1> QED
    BY <1>1, <1>2, <1>3

LEMMA SoundSave ==
    ASSUME TypeOK, Sound, UNCHANGED <<setting, tg, left>>, SaveCheckpoint
    PROVE  Sound'
  <1>1. /\ UNCHANGED <<svc, tgb, elb, fin, cache, cm, cmCache>>
        /\ pc = "save" /\ pc' = "idle" /\ run' = Idle
        /\ updateTGBCheckPoint(IF run.mode = "notfound" THEN None ELSE run.ep, run.old)
    BY DEF SaveCheckpoint, env, Goto
  <1>r. Registered' = Registered /\ Ours' = Ours
    BY <1>1, SameRegistered
  <1>2. CacheTrue'
    BY <1>1, <1>r, CacheKept DEF Sound
  <1>3. Moded' /\ Worked'
    BY <1>1, Ended
  <1>4. Finalized' /\ Owned'
    BY <1>1, <1>r DEF Sound, Finalized, Owned, MultiCluster
  <1>5. Trusted'
    <2> SUFFICES ASSUME ~setting.stale, ~setting.service
                 PROVE  Trusted'
      BY DEF Trusted
    <2>1. Right(run.ep) /\ run.mode # "notfound" /\ seen = cp /\ svc
      BY <1>1 DEF Sound, Trusted, Worked
    <2>2. cp' \in {cp, run.ep} /\ seen' = cp'
      BY <1>1, <2>1 DEF updateTGBCheckPoint, patchCheckpoint
    <2>3. cp' # None /\ tgb' = "present" => Right(cp)'
      <3>1. CASE cp' = cp
        BY <1>1, <1>r, <3>1 DEF Sound, Trusted, Right, AddrsOf, MaxTargets
      <3>2. CASE cp' = run.ep
        BY <1>r, <2>1, <3>2 DEF Right, AddrsOf, MaxTargets
      <3> QED
        BY <2>2, <3>1, <3>2
    <2>4. run'.mode = "none"
      BY <1>1 DEF Idle
    <2> QED
      BY <1>1, <2>1, <2>2, <2>3, <2>4 DEF Trusted, Sound
  <1> QED
    BY <1>2, <1>3, <1>4, <1>5 DEF Sound

LEMMA SoundCleanDeregister ==
    ASSUME TypeOK, Sound, UNCHANGED <<setting, tg, left>>, CleanDeregister
    PROVE  Sound'
  <1>1. /\ UNCHANGED <<svc, tgb, fin, cp, seen, cm, run>> /\ loadConfigMap
        /\ pc = "cleanDeregister" /\ pc' = "cleanMap"
    BY DEF CleanDeregister, env, Goto
  <1>2. PICK ts : /\ ts = FilterTargetsForDeregistration({t \in AllTargets : run.ts[t] # "absent"})
                  /\ elb' = deregistered(ts)
                  /\ recordSuccessfulDeregister(ts)
    BY DEF CleanDeregister
  <1>3. CacheTrue' /\ Ours' = Ours \ ts
    BY <1>2, CacheDeregister, AfterDeregister DEF Sound
  <1>4. Ours' = {}
    <2>1. Ours \subseteq {t \in AllTargets : run.ts[t] # "absent"}
      BY <1>1 DEF Sound, Worked, Registered, AllTargets, Ours
    <2>2. Ours \subseteq ts
      BY <1>2, <2>1, FilterAll DEF Sound
    <2> QED
      BY <1>3, <2>2
  <1>5. fin /\ tgb # "gone" /\ run.mode \in {"delete", "notfound"}
    BY <1>1 DEF Sound, Finalized, Moded, Cleaning
  <1>6. cmCache' \in {None, cm'}
    BY <1>1, LoadKeeps DEF Sound
  <1>7. Finalized' /\ Moded' /\ Worked'
    BY <1>1, <1>4, <1>5 DEF Finalized, Moded, Worked, Cleaning
  <1>8. Trusted'
    BY <1>1, <1>5 DEF Trusted, Sound
  <1> QED
    BY <1>1, <1>3, <1>4, <1>6, <1>7, <1>8, WorkerSound

LEMMA SoundClean ==
    ASSUME TypeOK, Sound, UNCHANGED <<setting, tg, left>>, CleanMap \/ CleanPods
    PROVE  Sound'
  <1>1. /\ UNCHANGED <<svc, tgb, fin, cp, seen, elb, cache, run>>
        /\ pc \in {"cleanMap", "cleanPods"}
        /\ pc' \in {"cleanPods", "unfinalize", "save"}
        /\ pc' = "save" => run.mode # "delete"
    BY DEF CleanMap, CleanPods, env, Goto
  <1>2. /\ fin /\ tgb # "gone" /\ run.mode \in {"delete", "notfound"}
        /\ Ours = {}
    BY <1>1 DEF Sound, Finalized, Moded, Cleaning, Worked
  <1>r. Registered' = Registered /\ Ours' = {}
    BY <1>1, <1>2, SameRegistered
  <1>3. CacheTrue'
    BY <1>1, <1>2, <1>r, CacheKept DEF Sound
  <1>4. cmCache' \in {None, cm'}
    BY DEF CleanMap, CleanPods, Sound, Owned
  <1>5. Finalized' /\ Moded' /\ Worked'
    BY <1>1, <1>2, <1>r DEF Finalized, Moded, Worked, Cleaning, Sound
  <1>6. Trusted'
    BY <1>1, <1>2 DEF Trusted, Sound
  <1> QED
    BY <1>1, <1>r, <1>3, <1>4, <1>5, <1>6, WorkerSound

LEMMA SoundUnfinalize ==
    ASSUME TypeOK, Sound, UNCHANGED <<setting, tg, left>>, Unfinalize
    PROVE  Sound'
  <1>1. /\ UNCHANGED <<svc, cp, seen, elb, cache, cm, cmCache>>
        /\ pc = "unfinalize" /\ pc' = "idle" /\ run' = Idle
        /\ ~fin' /\ tgb' = "gone"
    BY DEF Unfinalize, Goto
  <1>2. Ours = {}
    BY <1>1 DEF Sound, Worked
  <1>r. Registered' = Registered /\ Ours' = {}
    BY <1>1, <1>2, SameRegistered
  <1>3. CacheTrue'
    BY <1>1, <1>2, <1>r, CacheKept DEF Sound
  <1>4. Moded' /\ Worked'
    BY <1>1, Ended
  <1>5. Finalized' /\ Owned'
    BY <1>1, <1>r DEF Finalized, Sound, Owned
  <1>6. Trusted'
    BY <1>1 DEF Trusted, Sound, Idle
  <1> QED
    BY <1>3, <1>4, <1>5, <1>6 DEF Sound

\* What a refused clean-up should have deregistered is what it leaves.
LEMMA SoundRefused ==
    ASSUME TypeOK, Sound, NEW done, CleanRefused(done)
    PROVE  Sound'
  <1>1. /\ UNCHANGED <<setting, svc, tgb, fin, cp, seen, cm, run>>
        /\ pc \in {"cleanList", "cleanDeregister"} /\ pc' = "cleanMap"
        /\ left' = left \cup (FilterTargetsForDeregistration(Registered) \ done)
    BY DEF CleanRefused, env, Goto
  <1>2. CacheTrue' /\ Registered' = Registered \ done /\ cmCache' \in {None, cm'}
    <2>1. CASE UNCHANGED <<elb, cache, cmCache>> /\ done = {}
      BY <1>1, <2>1, CacheKept DEF Sound, Owned, Registered
    <2>2. CASE elb' = deregistered(done) /\ recordSuccessfulDeregister(done) /\ loadConfigMap
      BY <1>1, <2>2, CacheDeregister, AfterDeregister, LoadKeeps DEF Sound
    <2> QED
      BY <2>1, <2>2 DEF CleanRefused
  <1>3. Ours' = {}
    <2>1. Ours \subseteq FilterTargetsForDeregistration(Registered)
      BY FilterAll DEF Sound, Ours
    <2> QED
      BY <1>1, <1>2, <2>1 DEF Ours
  <1>4. fin /\ tgb # "gone" /\ run.mode \in {"delete", "notfound"}
    BY <1>1 DEF Sound, Finalized, Moded, Cleaning
  <1>5. Finalized' /\ Moded' /\ Worked'
    BY <1>1, <1>3, <1>4 DEF Finalized, Moded, Worked, Cleaning
  <1>6. Trusted'
    BY <1>1, <1>4 DEF Trusted, Sound
  <1> QED
    BY <1>1, <1>2, <1>3, <1>5, <1>6, WorkerSound

-----------------------------------------------------------------------------
(***************************************************************************)
(* The theorems.                                                           *)
(***************************************************************************)
LEMMA SoundInit ==
    ASSUME Init
    PROVE  Sound
  <1>1. Registered = {} /\ Ours = {}
    BY BindingAssumption, SettingType DEF Init, Registered, Ours, AllTargets
  <1> QED
    BY <1>1 DEF Init, Sound, Finalized, Moded, CacheTrue, Worked, Owned, Trusted, Idle, Cleaning

\* Without the target group no call takes effect.
LEMMA GroupNext ==
    ASSUME TypeOK, NoGroup, [Next]_vars
    PROVE  NoGroup'
  <1>1. CASE DeleteTargetGroup
    BY <1>1 DEF DeleteTargetGroup, NoTargets, AllTargets, NoGroup, Registered
  <1>2. CASE ~DeleteTargetGroup
    <2> SUFFICES ASSUME ~tg, Registered = {}
                 PROVE  Registered' = {}
      BY <1>2 DEF Next, Fixed, vars, CleanRefused, NoGroup
    <2>1. CASE Deregister
      <3>1. CASE unmatchedTargets = {}
        BY <2>1, <3>1 DEF Deregister, Registered
      <3>2. CASE unmatchedTargets # {}
        <4>1. PICK ts : elb' = deregistered(ts)
          BY <2>1, <3>2 DEF Deregister
        <4> QED
          BY <4>1, AfterDeregister
      <3> QED
        BY <3>1, <3>2
    <2>2. CASE CleanDeregister
      <3>1. PICK ts : elb' = deregistered(ts)
        BY <2>2 DEF CleanDeregister
      <3> QED
        BY <3>1, AfterDeregister
    <2>3. CASE Register
      <3>1. PICK ps \in SUBSET unmatchedEndpoints : Answered(ps) /\ elb' = registered(AddrsOf(ps))
        BY <2>3 DEF Register
      <3>2. AddrsOf(ps) = {}
        BY <3>1 DEF Answered, AddrsOf
      <3> QED
        BY <3>1, <3>2 DEF registered, Registered, AllTargets
    <2>4. ASSUME NEW t \in Targets, HealthProgress(t) \/ TargetFails(t)
          PROVE  Registered' = {}
      BY <2>4 DEF TypeOK, HealthProgress, TargetFails, Registered, AllTargets
    <2>5. CASE UNCHANGED elb
      BY <2>5 DEF Registered
    <2>6. CASE \/ Start \/ ResolveNotFound \/ Defer \/ Resolve
               \/ ListTargets("list", "reset") \/ ListTargets("cleanList", "cleanDeregister")
               \/ ResetCheckpoint \/ TrackBefore \/ TrackAfter \/ UpdateGates
               \/ SaveCheckpoint \/ CleanNotFound \/ CleanMap \/ CleanPods \/ Unfinalize
               \/ RunFails
      BY <2>5, <2>6 DEF Start, ResolveNotFound, Defer, Resolve, ListTargets, ResetCheckpoint,
                  TrackBefore, TrackAfter, UpdateGates, SaveCheckpoint, CleanNotFound, CleanMap,
                  CleanPods, Unfinalize, RunFails
    <2>7. CASE \/ NetworkFails \/ ReconcileFails \/ Restart \/ handleDeferredItemError
               \/ (\E ps \in SUBSET GatedPods : GatesFail(ps))
      BY <2>5, <2>7 DEF NetworkFails, ReconcileFails, Restart, handleDeferredItemError, GatesFail
    <2>8. CASE \/ ChangeEndpoints \/ ChangeService \/ DeleteBinding \/ CacheExpires
               \/ ProcessedExpires \/ handleDeferredItem \/ InformerSync \/ Resync
      BY <2>5, <2>8 DEF ChangeEndpoints, ChangeService, DeleteBinding, CacheExpires,
                  ProcessedExpires, handleDeferredItem, InformerSync, Resync
    <2>9. CASE UNCHANGED vars
      BY <2>5, <2>9 DEF vars
    <2>10. ~(\E done, lost : RegisterFails(done, lost) \/ DeregisterFails(done, lost))
           /\ ~(\E done : CleanRefused(done))
      BY DEF RegisterFails, DeregisterFails, CleanRefused
    <2> QED
      BY <1>2, <2>1, <2>2, <2>3, <2>4, <2>6, <2>7, <2>8, <2>9, <2>10
         DEF Next, Fixed, Worker, Failures, Environment
  <1> QED
    BY <1>1, <1>2

LEMMA SoundNext ==
    ASSUME TypeOK, Sound, [Next]_vars, ~setting.lost, tg, tg'
    PROVE  Sound'
  <1>u. (Fixed(Worker) \/ Fixed(Failures) \/ Fixed(Environment) \/ UNCHANGED vars)
           => UNCHANGED <<setting, tg, left>>
    BY DEF Fixed, vars
  <1>n. ~CleanNotFound
    BY DEF CleanNotFound
  <1>1. CASE Fixed(Worker)
    BY <1>1, <1>u, <1>n, SoundStart, SoundResolve, SoundEnds, SoundList, SoundReset, SoundDeregister,
       SoundTrackBefore, SoundRegister, SoundTrackAfter, SoundGates, SoundSave,
       SoundCleanDeregister, SoundClean, SoundUnfinalize DEF Worker, Fixed
  <1>2. CASE Fixed(Failures)
    <2>1. ASSUME NEW done, NEW lost \in LostSets, RegisterFails(done, lost) \/ DeregisterFails(done, lost)
          PROVE  Sound'
      <3>1. lost = {}
        BY DEF LostSets
      <3> QED
        BY <1>2, <1>u, <2>1, <3>1, SoundRegisterFails, SoundDeregisterFails
    <2> QED
      BY <1>2, <1>u, <2>1, SoundBeside, SoundEnds DEF Failures, Fixed
  <1>3. CASE Fixed(Environment) \/ UNCHANGED vars
    BY <1>3, <1>u, SoundBeside DEF Fixed
  <1>4. ~DeleteTargetGroup
    BY DEF DeleteTargetGroup
  <1> QED
    BY <1>1, <1>2, <1>3, <1>4, SoundRefused DEF Next

\* The inductive invariant: what a run of the resource manager knows of the target
\* group, of the caches and of the config map at each of its steps.
THEOREM Invariance ==
    Spec => []Inv
  <1>1. Init => Inv
    BY TypeInit, SoundInit DEF Inv, NoGroup, Init
  <1>2. Inv /\ [Next]_vars => Inv'
    <2> SUFFICES ASSUME Inv, [Next]_vars
                 PROVE  Inv'
      OBVIOUS
    <2>1. TypeOK' /\ NoGroup'
      BY TypeNext, GroupNext DEF Inv
    <2>2. tg' => tg
      BY DEF Next, Fixed, vars, DeleteTargetGroup, CleanRefused
    <2>3. UNCHANGED setting
      BY SettingFixed
    <2> QED
      BY <2>1, <2>2, <2>3, SoundNext DEF Inv
  <1> QED
    BY <1>1, <1>2, PTL DEF Spec

\* A binding that is gone left none of its targets in the target group, and every
\* target this cluster has registered in a shared target group is in its config
\* map, whatever failed in part or was restarted in between, but for targets whose
\* deregistration ELB refused as invalid: cleanupTargets takes that for success.
\* For calls that have no effect when they report an error.
THEOREM AllClean ==
    Spec => []CleanedUp
  <1>1. Inv => CleanedUp
    <2> SUFFICES ASSUME Inv, ~setting.lost
                 PROVE  CleanedUp
      BY DEF CleanedUp
    <2>1. CASE ~tg
      BY <2>1 DEF Inv, NoGroup, CleanedUp
    <2>2. CASE tg
      BY <2>2 DEF Inv, Sound, Finalized, Owned, Ours, CleanedUp
    <2> QED
      BY <2>1, <2>2
  <1> QED
    BY <1>1, Invariance, PTL

\* reconcileWithIPTargetType and reconcileWithInstanceTargetType skip a run only
\* where the target group already serves the endpoints: between runs no interleaving
\* of failed runs, restarts, reused addresses, cached listings and deferred resets
\* leaves a matching checkpoint over another set of targets.
THEOREM SkipsRight ==
    Spec => []CheckpointSound
  <1>1. Inv => CheckpointSound
    BY DEF Inv, Sound, Trusted, Right, Ours, CheckpointSound, CheckpointMatches
  <1> QED
    BY <1>1, Invariance, PTL
=============================================================================
