--------------------------- MODULE GatewayProofs ---------------------------
(***************************************************************************)
(* Proofs about Gateway for every set of Gateways, services, LBCs and      *)
(* add-ons and every number of changes, failures and restarts: the service *)
(* reference counter is exact, add-ons are never orphaned, finalizers      *)
(* outlive the load balancers they protect, and a TGC is only released     *)
(* when the counter may call its service unused.                           *)
(***************************************************************************)
EXTENDS Gateway, FiniteSetTheorems, TLAPS

Labels == {"idle", "built", "cleaned", "update", "deploy", "status", "removals",
           "delete", "unfinalize"}

TypeOK ==
    /\ setting \in Settings
    /\ svc \in [Services -> BOOLEAN]
    /\ phase \in [Gateways -> {"present", "deleting", "gone"}]
    /\ fin \in [Gateways -> BOOLEAN]
    /\ wants \in [Gateways -> SUBSET Services]
    /\ enabled \in [Gateways -> SUBSET Addons]
    /\ conf \in [Gateways -> Configs \cup {None}]
    /\ dryRun \in [Gateways -> BOOLEAN]
    /\ plan \in [Gateways -> BOOLEAN]
    /\ stored \in [Gateways -> SUBSET Addons]
    /\ accepted \in [Gateways -> BOOLEAN]
    /\ queued \in [Gateways -> BOOLEAN]
    /\ lb \in [Gateways -> (SUBSET Services) \cup {None}]
    /\ active \in [Gateways -> SUBSET Addons]
    /\ relations \in [Gateways -> (SUBSET Services) \cup {None}]
    /\ refCount \in [Services -> Int]
    /\ pc \in [Gateways -> Labels]
    /\ run \in [Gateways -> [del : BOOLEAN, svcs : SUBSET Services, cur : SUBSET Addons,
                             new : SUBSET Addons, dry : BOOLEAN]]
    /\ tgc \in [Services -> {"present", "deleting", "gone"}]
    /\ tgcPc \in [Services -> {"idle", "check", "remove"}]
    /\ tgcExpected \in [Services -> SUBSET Gateways]
    /\ lbc \in [Configs -> {"present", "deleting", "gone"}]
    /\ lbcFin \in [Configs -> BOOLEAN]
    /\ lbcPc \in [Configs -> {"idle", "remove"}]

\* What the annotations hold at each stage of a run: the add-ons stored when it
\* began, these and the new ones, and at the end all that is attached is wanted.
Recorded(g) ==
    /\ active[g] \subseteq stored[g]
    /\ pc[g] \in {"built", "cleaned"} => run[g].cur = stored[g]
    /\ pc[g] \in {"update", "deploy", "status", "removals"} =>
         stored[g] = run[g].cur \cup run[g].new
    /\ pc[g] \in {"status", "removals"} => active[g] \subseteq run[g].new

\* A run past the update has the finalizer, one past the dry-run branch has no
\* plan, and a dry run was decided when there was no finalizer.
Finalized(g) ==
    /\ fin[g] => phase[g] # "gone"
    /\ lb[g] # None => fin[g] /\ ~plan[g]
    /\ pc[g] \in {"deploy", "status", "removals", "unfinalize"} => fin[g]
    /\ pc[g] \notin {"idle", "built"} => ~plan[g]
    /\ pc[g] = "unfinalize" => lb[g] = None
    /\ pc[g] = "built" /\ run[g].dry => ~fin[g]

\* An LBC that a live Gateway resolved is there and cannot go without its
\* controller; the controller about to let it go has seen no user of it.
Protected(c) == lbc[c] # "gone" /\ (lbc[c] = "present" => lbcFin[c])

Resolved(g) ==
    /\ phase[g] # "gone" /\ conf[g] # None
    /\ pc[g] # "idle" \/ lb[g] # None

ConfigKept ==
    ~setting.reconf =>
        /\ \A g \in Gateways : Resolved(g) => Protected(conf[g])
        /\ \A c \in Configs : lbcPc[c] = "remove" => ~IsLBConfigInUse(c)

\* The counter knows the Gateway of every load balancer about to be deployed, and
\* the TGC controller expects the accepted ones the counter has lost.
Known(g) == pc[g] \in {"deploy", "status", "removals"} => relations[g] # None

Expected ==
    \A s \in Services, g \in Gateways :
        /\ tgcPc[s] = "check" /\ relations[g] = None
        /\ lb[g] # None /\ accepted[g]
        => g \in tgcExpected[s]

Inv ==
    /\ TypeOK
    /\ RefCountExact
    /\ \A g \in Gateways : Recorded(g) /\ Finalized(g) /\ Known(g)
    /\ ConfigKept
    /\ Expected

-----------------------------------------------------------------------------
(***************************************************************************)
(* Types.                                                                  *)
(***************************************************************************)
\* Before the controller starts nothing is finalized, counted or deployed.
LEMMA InitInv == Init => Inv
<1> SUFFICES ASSUME Init PROVE Inv
  OBVIOUS
<1> USE GatewayAssumption DEF Init
<1>1. TypeOK
  <2>1. setting.services \subseteq Services /\ setting.configs \subseteq Configs
        /\ setting.addons \subseteq Addons /\ setting.dryRun \in BOOLEAN
    OBVIOUS
  <2>2. /\ wants \in [Gateways -> SUBSET Services] /\ enabled \in [Gateways -> SUBSET Addons]
        /\ conf \in [Gateways -> Configs \cup {None}] /\ dryRun \in [Gateways -> BOOLEAN]
    BY <2>1
  <2> QED BY <2>2 DEF TypeOK, Labels, Idle
<1>2. RefCountExact
  <2> SUFFICES ASSUME NEW s \in Services
               PROVE {g \in Gateways : s \in servicesOf(relations, g)} = {}
    BY FS_EmptySet DEF RefCountExact
  <2> QED BY DEF servicesOf
<1>3. \A g \in Gateways : Recorded(g) /\ Finalized(g) /\ Known(g)
  BY DEF Recorded, Finalized, Known, Idle
<1>4. ConfigKept /\ Expected
  BY DEF ConfigKept, Resolved, Expected
<1> QED BY <1>1, <1>2, <1>3, <1>4 DEF Inv

LEMMA AcceptedType ==
    ASSUME accepted \in [Gateways -> BOOLEAN], NEW g \in Gateways, handleReconcileError(g)
    PROVE  accepted' \in [Gateways -> BOOLEAN]
BY DEF handleReconcileError

LEMMA CounterType ==
    ASSUME TypeOK, NEW g \in Gateways, UpdateRelations(run[g].svcs, g, FALSE)
    PROVE  /\ relations' \in [Gateways -> (SUBSET Services) \cup {None}]
           /\ refCount' \in [Services -> Int]
<1>1. run[g].svcs \in SUBSET Services
  BY DEF TypeOK
<1>2. relations' \in [Gateways -> (SUBSET Services) \cup {None}]
  BY <1>1 DEF TypeOK, UpdateRelations
<1>3. refCount' \in [Services -> Int]
  BY DEF TypeOK, UpdateRelations, updateRefCount
<1> QED BY <1>2, <1>3

\* A step of a Gateway's worker, or of a user on a Gateway, keeps the types.
LEMMA GatewayStepType ==
    ASSUME TypeOK, NEW g \in Gateways, Fixed(GatewayStep(g))
    PROVE  TypeOK'
<1> USE GatewayAssumption DEF TypeOK, Labels, Idle, Fixed, Goto, Done, Requeue, gwVars,
    awsVars, counter, worker, tgcVars, lbcVars, bounds
<1>1. CASE Build(g)
  <2>1. lbcFin' \in [Configs -> BOOLEAN]
    BY <1>1 DEF Build, protectConfig
  <2>2. run' \in [Gateways -> [del : BOOLEAN, svcs : SUBSET Services, cur : SUBSET Addons,
                               new : SUBSET Addons, dry : BOOLEAN]]
    BY <1>1 DEF Build
  <2>3. pc' \in [Gateways -> Labels] /\ queued' \in [Gateways -> BOOLEAN]
    BY <1>1 DEF Build
  <2> QED BY <1>1, <2>1, <2>2, <2>3 DEF Build
<1>2. CASE BuildWithoutConfig(g)
  BY <1>2 DEF BuildWithoutConfig
<1>3. CASE reconcileDryRun(g)
  BY <1>3 DEF reconcileDryRun
<1>4. CASE cleanupDryRunState(g)
  BY <1>4 DEF cleanupDryRunState
<1>5. CASE persistAdditions(g)
  BY <1>5 DEF persistAdditions, additions
<1>6. CASE reconcileUpdate(g)
  BY <1>6, CounterType DEF reconcileUpdate
<1>7. CASE addFinalizerRefused(g)
  BY <1>7, CounterType DEF addFinalizerRefused
<1>8. CASE deployModel(g)
  BY <1>8 DEF deployModel, addonsAfter
<1>9. CASE updateGatewayStatusSuccess(g)
  <2>1. accepted' \in [Gateways -> BOOLEAN]
    BY <1>9 DEF updateGatewayStatusSuccess
  <2>2. CASE Goto(g, "removals") /\ UNCHANGED <<run, queued>>
    BY <1>9, <2>1, <2>2 DEF updateGatewayStatusSuccess
  <2>3. CASE Done(g) /\ Requeue(g)
    BY <1>9, <2>1, <2>3 DEF updateGatewayStatusSuccess
  <2> QED BY <1>9, <2>2, <2>3 DEF updateGatewayStatusSuccess
<1>10. CASE persistRemovals(g)
  BY <1>10 DEF persistRemovals, removals
<1>11. CASE reconcileDelete(g)
  BY <1>11 DEF reconcileDelete, UpdateRelations, updateRefCount
<1>12. CASE reconcileDeleteNothing(g)
  BY <1>12 DEF reconcileDeleteNothing
<1>13. CASE RemoveFinalizers(g)
  BY <1>13 DEF RemoveFinalizers
<1>14. CASE BuildFails(g)
  <2>1. accepted' \in [Gateways -> BOOLEAN]
    BY <1>14, AcceptedType DEF BuildFails
  <2>2. lbcFin' \in [Configs -> BOOLEAN]
    BY <1>14 DEF BuildFails, protectConfig
  <2> QED BY <1>14, <2>1, <2>2 DEF BuildFails
<1>15. CASE addFinalizerFails(g)
  BY <1>15, CounterType DEF addFinalizerFails
<1>16. CASE deployModelFails(g)
  <2>1. active' \in [Gateways -> SUBSET Addons]
    <3>1. CASE UNCHANGED active
      BY <3>1
    <3>2. CASE \E on \in SUBSET additions(g), off \in SUBSET removals(g) :
                  active' = [active EXCEPT ![g] = (@ \cup on) \ off]
      BY <3>2 DEF additions
    <3> QED BY <1>16, <3>1, <3>2 DEF deployModelFails
  <2>2. lb' \in [Gateways -> (SUBSET Services) \cup {None}]
    <3>1. lb' = lb \/ lb' = [lb EXCEPT ![g] = run[g].svcs]
      BY <1>16 DEF deployModelFails
    <3>2. run[g].svcs \in SUBSET Services
      OBVIOUS
    <3> QED BY <3>1, <3>2
  <2>3. accepted' \in [Gateways -> BOOLEAN]
    BY <1>16, AcceptedType DEF deployModelFails
  <2> QED BY <1>16, <2>1, <2>2, <2>3 DEF deployModelFails
<1>17. CASE reconcileDeleteFails(g)
  BY <1>17 DEF reconcileDeleteFails
<1>18. CASE ReconcileFails(g)
  BY <1>18 DEF ReconcileFails
<1>19. CASE ChangeRoutes(g)
  <2>1. wants' \in [Gateways -> SUBSET Services]
    BY <1>19 DEF ChangeRoutes
  <2>2. queued' \in [Gateways -> BOOLEAN]
    BY <1>19 DEF ChangeRoutes
  <2> QED BY <1>19, <2>1, <2>2 DEF ChangeRoutes
<1>20. CASE ChangeAddons(g)
  <2>1. PICK as \in SUBSET setting.addons : enabled' = [enabled EXCEPT ![g] = as]
    BY <1>20 DEF ChangeAddons
  <2>2. enabled' \in [Gateways -> SUBSET Addons]
    BY <2>1
  <2> QED BY <1>20, <2>2 DEF ChangeAddons
<1>21. CASE ChangeDryRun(g)
  BY <1>21 DEF ChangeDryRun
<1>22. CASE ChangeConfig(g)
  <2>1. PICK c \in setting.configs \cup {None} : conf' = [conf EXCEPT ![g] = c]
    BY <1>22 DEF ChangeConfig
  <2>2. conf' \in [Gateways -> Configs \cup {None}]
    BY <2>1
  <2> QED BY <1>22, <2>2 DEF ChangeConfig
<1>23. CASE DeleteGateway(g)
  BY <1>23 DEF DeleteGateway
<1> QED
  BY <1>1, <1>2, <1>3, <1>4, <1>5, <1>6, <1>7, <1>8, <1>9, <1>10, <1>11, <1>12, <1>13,
     <1>14, <1>15, <1>16, <1>17, <1>18, <1>19, <1>20, <1>21, <1>22, <1>23
  DEF GatewayStep, Reconcile

\* So do the other controllers, their users and a restart.
LEMMA TGCStepType ==
    ASSUME TypeOK, NEW s \in Services, Fixed(ReconcileTGC(s) \/ DeleteTGC(s))
    PROVE  TypeOK'
<1> USE DEF TypeOK, Fixed, gwVars, awsVars, counter, worker, lbcVars, bounds
<1>1. CASE tgcListGateways(s)
  BY <1>1 DEF tgcListGateways
<1>2. CASE tgcCheck(s)
  BY <1>2 DEF tgcCheck
<1>3. CASE tgcRemoveFinalizer(s)
  BY <1>3 DEF tgcRemoveFinalizer
<1>4. CASE DeleteTGC(s)
  BY <1>4 DEF DeleteTGC
<1> QED BY <1>1, <1>2, <1>3, <1>4 DEF ReconcileTGC

LEMMA LBCStepType ==
    ASSUME TypeOK, NEW c \in Configs, Fixed(ReconcileLBC(c) \/ DeleteLBC(c))
    PROVE  TypeOK'
<1> USE DEF TypeOK, Fixed, gwVars, awsVars, counter, worker, tgcVars, bounds
<1>1. CASE lbcHandleUpdate(c)
  BY <1>1 DEF lbcHandleUpdate
<1>2. CASE lbcHandleDelete(c)
  BY <1>2 DEF lbcHandleDelete
<1>3. CASE lbcRemoveFinalizer(c)
  BY <1>3 DEF lbcRemoveFinalizer
<1>4. CASE DeleteLBC(c)
  BY <1>4 DEF DeleteLBC
<1> QED BY <1>1, <1>2, <1>3, <1>4 DEF ReconcileLBC

\* A deleted Service changes what the Gateways want and who is queued.
LEMMA ServiceStep ==
    ASSUME NEW s \in Services, DeleteService(s)
    PROVE  UNCHANGED <<setting, phase, fin, enabled, conf, dryRun, plan, stored, accepted, lb, active,
                        relations, refCount, pc, run, tgc, tgcPc, tgcExpected, lbc, lbcFin, lbcPc>>
BY DEF DeleteService, awsVars, counter, worker, tgcVars, lbcVars

LEMMA TypeStep == ASSUME TypeOK, [Next]_vars PROVE TypeOK'
<1>1. CASE UNCHANGED vars
  BY <1>1 DEF vars, gwVars, awsVars, counter, worker, tgcVars, lbcVars, TypeOK
<1>2. CASE Fixed(Restart)
  <2>1. UNCHANGED <<setting, svc, gwVars, awsVars, tgc, lbc, lbcFin>>
    BY <1>2 DEF Fixed, Restart
  <2>4. /\ relations' \in [Gateways -> (SUBSET Services) \cup {None}]
        /\ refCount' \in [Services -> Int]
        /\ tgcPc' \in [Services -> {"idle", "check", "remove"}]
        /\ tgcExpected' \in [Services -> SUBSET Gateways]
        /\ lbcPc' \in [Configs -> {"idle", "remove"}]
    BY <1>2 DEF Fixed, Restart
  <2>2. pc' \in [Gateways -> Labels] /\ queued' \in [Gateways -> BOOLEAN]
    BY <1>2 DEF Fixed, Restart, Labels
  <2>3. run' \in [Gateways -> [del : BOOLEAN, svcs : SUBSET Services, cur : SUBSET Addons,
                               new : SUBSET Addons, dry : BOOLEAN]]
    BY <1>2 DEF Fixed, Restart, Idle
  <2> QED BY <2>1, <2>2, <2>3, <2>4 DEF gwVars, awsVars, TypeOK
<1>3. ASSUME NEW s \in Services, DeleteService(s)
      PROVE  TypeOK'
  <2>1. wants' \in [Gateways -> SUBSET Services] /\ queued' \in [Gateways -> BOOLEAN]
        /\ svc' \in [Services -> BOOLEAN]
    BY <1>3 DEF DeleteService, TypeOK
  <2> QED BY <1>3, <2>1, ServiceStep DEF TypeOK
<1> QED BY <1>1, <1>2, <1>3, GatewayStepType, TGCStepType, LBCStepType DEF Next

-----------------------------------------------------------------------------
(***************************************************************************)
(* The service reference counter.                                          *)
(***************************************************************************)
Users(rel, s) == {g \in Gateways : s \in servicesOf(rel, g)}

One(P) == IF P THEN 1 ELSE 0

Relations == [Gateways -> (SUBSET Services) \cup {None}]

\* Whether one Gateway is among the users of a service makes a difference of one.
LEMMA CountOne ==
    ASSUME NEW rel \in Relations, NEW g \in Gateways, NEW s \in Services
    PROVE  /\ Cardinality(Users(rel, s) \ {g}) \in Int
           /\ Cardinality(Users(rel, s)) =
                Cardinality(Users(rel, s) \ {g}) + One(s \in servicesOf(rel, g))
<1> DEFINE U == Users(rel, s)
<1>1. IsFiniteSet(U)
  BY FS_Subset, GatewayAssumption DEF Users
<1>2. Cardinality(U) \in Nat
  BY <1>1, FS_CardinalityType
<1>3. IsFiniteSet(U \ {g}) /\ Cardinality(U \ {g}) = IF g \in U THEN Cardinality(U) - 1
                                                   ELSE Cardinality(U)
  BY <1>1, FS_RemoveElement
<1>4. Cardinality(U \ {g}) \in Nat
  BY <1>3, FS_CardinalityType
<1>5. g \in U <=> s \in servicesOf(rel, g)
  BY DEF Users
<1> HIDE DEF U
<1>6. Cardinality(U) = Cardinality(U \ {g}) + One(s \in servicesOf(rel, g))
  BY <1>2, <1>3, <1>4, <1>5 DEF One
<1> QED BY <1>4, <1>6 DEF U

\* Replacing the services of one Gateway takes it off the count of the old ones and
\* adds it to the count of the new ones.
LEMMA CountUpdate ==
    ASSUME NEW rel \in Relations, NEW g \in Gateways,
           NEW new \in (SUBSET Services) \cup {None}, NEW rel2,
           rel2 = [rel EXCEPT ![g] = new], NEW s \in Services
    PROVE  /\ Cardinality(Users(rel, s)) \in Int
           /\ Cardinality(Users(rel2, s)) =
                Cardinality(Users(rel, s)) - One(s \in servicesOf(rel, g))
                                           + One(s \in servicesOf(rel2, g))
<1>1. rel2 \in Relations
  BY DEF Relations
<1>2. Users(rel2, s) \ {g} = Users(rel, s) \ {g}
  BY DEF Users, servicesOf, Relations
<1>3. One(s \in servicesOf(rel, g)) \in Int /\ One(s \in servicesOf(rel2, g)) \in Int
  BY DEF One
<1>4. /\ Cardinality(Users(rel, s) \ {g}) \in Int
      /\ Cardinality(Users(rel, s)) =
           Cardinality(Users(rel, s) \ {g}) + One(s \in servicesOf(rel, g))
  BY CountOne
<1>5. Cardinality(Users(rel2, s)) =
        Cardinality(Users(rel, s) \ {g}) + One(s \in servicesOf(rel2, g))
  BY <1>1, <1>2, CountOne
<1> QED BY <1>3, <1>4, <1>5

\* UpdateRelations keeps the count exact, for an update as for a delete.
LEMMA UpdateRelationsExact ==
    ASSUME TypeOK, RefCountExact, NEW g \in Gateways, NEW svcs \in SUBSET Services,
           NEW isDelete \in BOOLEAN, UpdateRelations(svcs, g, isDelete)
    PROVE  RefCountExact'
<1> DEFINE new == IF isDelete THEN None ELSE svcs
<1>1. relations \in Relations /\ new \in (SUBSET Services) \cup {None}
  BY DEF TypeOK, Relations
<1>2. relations' = [relations EXCEPT ![g] = new]
  BY DEF UpdateRelations
<1>3. servicesOf(relations', g) = IF isDelete THEN {} ELSE svcs
  BY <1>1, <1>2, GatewayAssumption DEF servicesOf, Relations
<1> HIDE DEF new
<1> SUFFICES ASSUME NEW s \in Services
             PROVE  refCount'[s] = Cardinality(Users(relations', s))
  BY DEF RefCountExact, Users, servicesOf
<1>4. refCount[s] = Cardinality(Users(relations, s))
  BY DEF RefCountExact, Users
<1>5. refCount'[s] = refCount[s] - One(s \in servicesOf(relations, g))
                                 + One(s \in servicesOf(relations', g))
  BY <1>3 DEF UpdateRelations, updateRefCount, One
<1> QED BY <1>1, <1>2, <1>4, <1>5, CountUpdate

\* No other step than an update, a delete or a restart touches the counter.
LEMMA CounterStep ==
    ASSUME [Next]_vars
    PROVE  \/ UNCHANGED counter
           \/ \E g \in Gateways : UpdateRelations(run[g].svcs, g, FALSE)
           \/ \E g \in Gateways : UpdateRelations({}, g, TRUE)
           \/ Restart
<1> USE DEF counter
<1>1. ASSUME NEW g \in Gateways, Fixed(GatewayStep(g))
      PROVE  \/ UNCHANGED counter
             \/ UpdateRelations(run[g].svcs, g, FALSE)
             \/ UpdateRelations({}, g, TRUE)
  BY <1>1 DEF Fixed, GatewayStep, Reconcile, Build, BuildWithoutConfig, reconcileDryRun,
     cleanupDryRunState, persistAdditions, reconcileUpdate, addFinalizerRefused,
     deployModel, updateGatewayStatusSuccess, persistRemovals, reconcileDelete,
     reconcileDeleteNothing, RemoveFinalizers, BuildFails, addFinalizerFails,
     deployModelFails, reconcileDeleteFails, ReconcileFails, ChangeRoutes, ChangeAddons,
     ChangeDryRun, ChangeConfig, DeleteGateway
<1>2. ASSUME NEW s \in Services, Fixed(ReconcileTGC(s) \/ DeleteTGC(s))
      PROVE  UNCHANGED counter
  BY <1>2 DEF Fixed, ReconcileTGC, tgcListGateways, tgcCheck, tgcRemoveFinalizer, DeleteTGC
<1>3. ASSUME NEW c \in Configs, Fixed(ReconcileLBC(c) \/ DeleteLBC(c))
      PROVE  UNCHANGED counter
  BY <1>3 DEF Fixed, ReconcileLBC, lbcHandleUpdate, lbcHandleDelete, lbcRemoveFinalizer,
     DeleteLBC
<1>4. CASE UNCHANGED vars
  BY <1>4 DEF vars
<1> QED BY <1>1, <1>2, <1>3, <1>4, ServiceStep DEF Next, Fixed

LEMMA RefCountStep ==
    ASSUME TypeOK, RefCountExact, [Next]_vars
    PROVE  RefCountExact'
<1>1. CASE UNCHANGED counter
  BY <1>1 DEF counter, RefCountExact, servicesOf
<1>2. ASSUME NEW g \in Gateways, UpdateRelations(run[g].svcs, g, FALSE)
      PROVE  RefCountExact'
  BY <1>2, UpdateRelationsExact DEF TypeOK
<1>3. ASSUME NEW g \in Gateways, UpdateRelations({}, g, TRUE)
      PROVE  RefCountExact'
  BY <1>3, UpdateRelationsExact
<1>4. CASE Restart
  <2> SUFFICES ASSUME NEW s \in Services
               PROVE  {g \in Gateways : s \in servicesOf(relations', g)} = {} /\ refCount'[s] = 0
    BY FS_EmptySet DEF RefCountExact, servicesOf
  <2> QED BY <1>4 DEF Restart, servicesOf
<1> QED BY <1>1, <1>2, <1>3, <1>4, CounterStep

-----------------------------------------------------------------------------
(***************************************************************************)
(* What a step leaves alone.                                               *)
(***************************************************************************)
LEMMA DoneOther ==
    ASSUME TypeOK, NEW g \in Gateways, NEW h \in Gateways, h # g, Done(g)
    PROVE  pc'[h] = pc[h] /\ run'[h] = run[h]
BY DEF TypeOK, Done, Goto

\* A step of one Gateway leaves what belongs to another alone.
LEMMA OtherGateway ==
    ASSUME TypeOK, NEW g \in Gateways, Fixed(GatewayStep(g)), NEW h \in Gateways, h # g
    PROVE  /\ phase'[h] = phase[h] /\ fin'[h] = fin[h] /\ conf'[h] = conf[h]
           /\ plan'[h] = plan[h] /\ stored'[h] = stored[h] /\ accepted'[h] = accepted[h]
           /\ lb'[h] = lb[h] /\ active'[h] = active[h] /\ relations'[h] = relations[h]
           /\ pc'[h] = pc[h] /\ run'[h] = run[h]
<1> USE DEF TypeOK, Fixed, Goto, Done, gwVars, awsVars, counter, worker
<1>1. CASE Build(g) \/ BuildWithoutConfig(g) \/ reconcileDryRun(g) \/ cleanupDryRunState(g)
  <2>1. CASE Build(g)
    BY <2>1 DEF Build
  <2>2. CASE BuildWithoutConfig(g)
    BY <2>2 DEF BuildWithoutConfig
  <2>3. CASE reconcileDryRun(g)
    BY <2>3 DEF reconcileDryRun
  <2>4. CASE cleanupDryRunState(g)
    BY <2>4 DEF cleanupDryRunState
  <2> QED BY <1>1, <2>1, <2>2, <2>3, <2>4
<1>2. CASE persistAdditions(g) \/ reconcileUpdate(g) \/ addFinalizerRefused(g)
  <2>1. CASE persistAdditions(g)
    BY <2>1 DEF persistAdditions
  <2>2. CASE reconcileUpdate(g)
    BY <2>2 DEF reconcileUpdate, UpdateRelations
  <2>3. CASE addFinalizerRefused(g)
    BY <2>3 DEF addFinalizerRefused, UpdateRelations
  <2> QED BY <1>2, <2>1, <2>2, <2>3
<1>3. CASE deployModel(g) \/ updateGatewayStatusSuccess(g) \/ persistRemovals(g)
  <2>1. CASE deployModel(g)
    BY <2>1 DEF deployModel
  <2>2. CASE updateGatewayStatusSuccess(g)
    <3>1. accepted'[h] = accepted[h]
      BY <2>2 DEF updateGatewayStatusSuccess
    <3>2. pc'[h] = pc[h] /\ run'[h] = run[h]
      <4>1. CASE Goto(g, "removals") /\ UNCHANGED <<run, queued>>
        BY <4>1
      <4>2. CASE Done(g)
        BY <4>2, DoneOther
      <4> QED BY <2>2, <4>1, <4>2 DEF updateGatewayStatusSuccess
    <3> QED BY <2>2, <3>1, <3>2 DEF updateGatewayStatusSuccess
  <2>3. CASE persistRemovals(g)
    BY <2>3 DEF persistRemovals
  <2> QED BY <1>3, <2>1, <2>2, <2>3
<1>4. CASE reconcileDelete(g) \/ reconcileDeleteNothing(g) \/ RemoveFinalizers(g)
  <2>1. CASE reconcileDelete(g)
    BY <2>1 DEF reconcileDelete, UpdateRelations
  <2>2. CASE reconcileDeleteNothing(g)
    BY <2>2 DEF reconcileDeleteNothing
  <2>3. CASE RemoveFinalizers(g)
    BY <2>3 DEF RemoveFinalizers
  <2> QED BY <1>4, <2>1, <2>2, <2>3
<1>5. CASE BuildFails(g) \/ addFinalizerFails(g) \/ deployModelFails(g)
  <2>1. CASE BuildFails(g)
    BY <2>1 DEF BuildFails, handleReconcileError
  <2>2. CASE addFinalizerFails(g)
    BY <2>2 DEF addFinalizerFails, UpdateRelations
  <2>3. CASE deployModelFails(g)
    <3>1. accepted'[h] = accepted[h]
      BY <2>3 DEF deployModelFails, handleReconcileError
    <3>2. lb'[h] = lb[h]
      BY <2>3 DEF deployModelFails
    <3>3. active'[h] = active[h]
      <4>1. active' = active \/ \E as : active' = [active EXCEPT ![g] = as]
        BY <2>3 DEF deployModelFails
      <4> QED BY <4>1
    <3>4. pc'[h] = pc[h] /\ run'[h] = run[h]
      BY <2>3, DoneOther DEF deployModelFails
    <3> QED BY <2>3, <3>1, <3>2, <3>3, <3>4 DEF deployModelFails
  <2> QED BY <1>5, <2>1, <2>2, <2>3
<1>6. CASE reconcileDeleteFails(g) \/ ReconcileFails(g) \/ DeleteGateway(g)
  <2>1. CASE reconcileDeleteFails(g)
    <3>1. lb'[h] = lb[h] /\ active'[h] = active[h]
      BY <2>1 DEF reconcileDeleteFails
    <3>2. pc'[h] = pc[h] /\ run'[h] = run[h]
      BY <2>1, DoneOther DEF reconcileDeleteFails
    <3> QED BY <2>1, <3>1, <3>2 DEF reconcileDeleteFails
  <2>2. CASE ReconcileFails(g)
    BY <2>2 DEF ReconcileFails
  <2>3. CASE DeleteGateway(g)
    BY <2>3 DEF DeleteGateway
  <2> QED BY <1>6, <2>1, <2>2, <2>3
<1>7. CASE ChangeRoutes(g) \/ ChangeAddons(g) \/ ChangeDryRun(g) \/ ChangeConfig(g)
  BY <1>7 DEF ChangeRoutes, ChangeAddons, ChangeDryRun, ChangeConfig
<1> QED BY <1>1, <1>2, <1>3, <1>4, <1>5, <1>6, <1>7 DEF GatewayStep, Reconcile

\* The other controllers and their users leave all Gateways alone.
LEMMA OtherController ==
    ASSUME \/ \E s \in Services : Fixed(ReconcileTGC(s) \/ DeleteTGC(s))
           \/ \E c \in Configs : Fixed(ReconcileLBC(c) \/ DeleteLBC(c))
           \/ UNCHANGED vars
    PROVE  UNCHANGED <<setting, gwVars, awsVars, counter, worker>>
<1>1. ASSUME NEW s \in Services, Fixed(ReconcileTGC(s) \/ DeleteTGC(s))
      PROVE  UNCHANGED <<setting, gwVars, awsVars, counter, worker>>
  BY <1>1 DEF Fixed, ReconcileTGC, tgcListGateways, tgcCheck, tgcRemoveFinalizer, DeleteTGC
<1>2. ASSUME NEW c \in Configs, Fixed(ReconcileLBC(c) \/ DeleteLBC(c))
      PROVE  UNCHANGED <<setting, gwVars, awsVars, counter, worker>>
  BY <1>2 DEF Fixed, ReconcileLBC, lbcHandleUpdate, lbcHandleDelete, lbcRemoveFinalizer,
     DeleteLBC
<1> QED BY <1>1, <1>2 DEF vars

-----------------------------------------------------------------------------
(***************************************************************************)
(* Add-ons.                                                                *)
(***************************************************************************)
\* A run that is over.
LEMMA DoneIdle == ASSUME TypeOK, NEW g \in Gateways, Done(g) PROVE pc'[g] = "idle"
BY DEF TypeOK, Done, Goto

LEMMA RecordedIdle ==
    ASSUME NEW g, active'[g] \subseteq stored'[g], pc'[g] = "idle"
    PROVE  Recorded(g)'
BY DEF Recorded

\* Add-ons are recorded before the deployment and forgotten after it.
LEMMA RecordedOwn ==
    ASSUME TypeOK, NEW g \in Gateways, Recorded(g), Fixed(GatewayStep(g))
    PROVE  Recorded(g)'
<1> USE DEF TypeOK, Recorded, Fixed, Goto, Done, Idle, gwVars, awsVars, worker
<1>1. CASE Build(g)
  BY <1>1 DEF Build
<1>2. CASE BuildWithoutConfig(g) \/ reconcileDryRun(g) \/ cleanupDryRunState(g)
  <2>1. CASE BuildWithoutConfig(g)
    BY <2>1 DEF BuildWithoutConfig
  <2>2. CASE reconcileDryRun(g)
    BY <2>2 DEF reconcileDryRun
  <2>3. CASE cleanupDryRunState(g)
    BY <2>3 DEF cleanupDryRunState
  <2> QED BY <1>2, <2>1, <2>2, <2>3
<1>3. CASE persistAdditions(g)
  BY <1>3 DEF persistAdditions, additions
<1>4. CASE reconcileUpdate(g) \/ addFinalizerRefused(g)
  <2>1. CASE reconcileUpdate(g)
    BY <2>1 DEF reconcileUpdate
  <2>2. CASE addFinalizerRefused(g)
    BY <2>2 DEF addFinalizerRefused
  <2> QED BY <1>4, <2>1, <2>2
<1>5. CASE deployModel(g)
  BY <1>5 DEF deployModel, addonsAfter
<1>6. CASE updateGatewayStatusSuccess(g)
  <2>1. active' = active /\ stored' = stored /\ pc[g] = "status"
    BY <1>6 DEF updateGatewayStatusSuccess
  <2>2. CASE Goto(g, "removals") /\ run' = run
    BY <2>1, <2>2
  <2>3. CASE Done(g)
    BY <2>1, <2>3, DoneIdle, RecordedIdle
  <2> QED BY <1>6, <2>2, <2>3 DEF updateGatewayStatusSuccess
<1>7. CASE persistRemovals(g)
  BY <1>7 DEF persistRemovals, removals
<1>8. CASE reconcileDelete(g)
  BY <1>8 DEF reconcileDelete
<1>13. CASE reconcileDeleteNothing(g) \/ RemoveFinalizers(g)
  <2>1. CASE reconcileDeleteNothing(g)
    BY <2>1 DEF reconcileDeleteNothing
  <2>2. CASE RemoveFinalizers(g)
    BY <2>2 DEF RemoveFinalizers
  <2> QED BY <1>13, <2>1, <2>2
<1>9. CASE BuildFails(g) \/ addFinalizerFails(g)
  <2>1. CASE BuildFails(g)
    BY <2>1 DEF BuildFails
  <2>2. CASE addFinalizerFails(g)
    BY <2>2 DEF addFinalizerFails
  <2> QED BY <1>9, <2>1, <2>2
<1>10. CASE deployModelFails(g)
  <2>1. stored' = stored /\ pc[g] = "deploy" /\ Done(g)
    BY <1>10 DEF deployModelFails
  <2>2. active'[g] \subseteq stored[g]
    <3>1. CASE active' = active
      BY <3>1
    <3>2. ASSUME NEW on \in SUBSET additions(g), NEW off \in SUBSET removals(g),
                 active' = [active EXCEPT ![g] = (@ \cup on) \ off]
          PROVE  active'[g] \subseteq stored[g]
      <4>1. on \subseteq run[g].new /\ run[g].new \subseteq stored[g]
        BY <2>1 DEF additions
      <4> QED BY <3>2, <4>1
    <3> QED BY <1>10, <3>1, <3>2 DEF deployModelFails
  <2> QED BY <2>1, <2>2, DoneIdle, RecordedIdle
<1>11. CASE reconcileDeleteFails(g) \/ ReconcileFails(g)
  <2>1. CASE reconcileDeleteFails(g)
    <3>1. stored' = stored /\ Done(g)
      BY <2>1 DEF reconcileDeleteFails
    <3>2. active'[g] = active[g] \/ active'[g] = {}
      BY <2>1 DEF reconcileDeleteFails
    <3> QED BY <3>1, <3>2, DoneIdle, RecordedIdle
  <2>2. CASE ReconcileFails(g)
    BY <2>2 DEF ReconcileFails
  <2> QED BY <1>11, <2>1, <2>2
<1>12. CASE ChangeRoutes(g) \/ ChangeAddons(g) \/ ChangeDryRun(g) \/ ChangeConfig(g)
            \/ DeleteGateway(g)
  BY <1>12 DEF ChangeRoutes, ChangeAddons, ChangeDryRun, ChangeConfig, DeleteGateway
<1> QED BY <1>1, <1>2, <1>3, <1>4, <1>5, <1>6, <1>7, <1>8, <1>9, <1>10, <1>11, <1>12,
           <1>13
        DEF GatewayStep, Reconcile

-----------------------------------------------------------------------------
(***************************************************************************)
(* Finalizers and plans.                                                   *)
(***************************************************************************)
LEMMA FinalizedIdle ==
    ASSUME NEW g, pc'[g] = "idle", fin'[g] => phase'[g] # "gone",
           lb'[g] # None => fin'[g] /\ ~plan'[g]
    PROVE  Finalized(g)'
BY DEF Finalized

\* The finalizer comes before the load balancer and goes after it; a dry run leaves
\* its plan only where there is no finalizer.
LEMMA FinalizedOwn ==
    ASSUME TypeOK, NEW g \in Gateways, Finalized(g), Fixed(GatewayStep(g))
    PROVE  Finalized(g)'
<1> USE DEF TypeOK, Finalized, Fixed, Goto, Done, Idle, gwVars, awsVars, worker
<1>1. CASE Build(g)
  BY <1>1 DEF Build
<1>2. CASE BuildWithoutConfig(g) \/ cleanupDryRunState(g) \/ persistAdditions(g)
  <2>1. CASE BuildWithoutConfig(g)
    BY <2>1 DEF BuildWithoutConfig
  <2>2. CASE cleanupDryRunState(g)
    BY <2>2 DEF cleanupDryRunState
  <2>3. CASE persistAdditions(g)
    BY <2>3 DEF persistAdditions
  <2> QED BY <1>2, <2>1, <2>2, <2>3
<1>3. CASE reconcileDryRun(g)
  BY <1>3 DEF reconcileDryRun
<1>4. CASE reconcileUpdate(g)
  BY <1>4 DEF reconcileUpdate
<1>5. CASE addFinalizerRefused(g)
  BY <1>5 DEF addFinalizerRefused
<1>6. CASE deployModel(g) \/ persistRemovals(g)
  <2>1. CASE deployModel(g)
    BY <2>1 DEF deployModel
  <2>2. CASE persistRemovals(g)
    BY <2>2 DEF persistRemovals
  <2> QED BY <1>6, <2>1, <2>2
<1>7. CASE updateGatewayStatusSuccess(g)
  <2>1. UNCHANGED <<phase, fin, plan, lb>> /\ pc[g] = "status"
    BY <1>7 DEF updateGatewayStatusSuccess
  <2>2. CASE Goto(g, "removals") /\ run' = run
    BY <2>1, <2>2
  <2>3. CASE Done(g)
    BY <2>1, <2>3, DoneIdle, FinalizedIdle
  <2> QED BY <1>7, <2>2, <2>3 DEF updateGatewayStatusSuccess
<1>8. CASE reconcileDelete(g)
  BY <1>8 DEF reconcileDelete
<1>15. CASE reconcileDeleteNothing(g)
  BY <1>15 DEF reconcileDeleteNothing
<1>9. CASE RemoveFinalizers(g)
  BY <1>9 DEF RemoveFinalizers
<1>10. CASE BuildFails(g) \/ addFinalizerFails(g)
  <2>1. CASE BuildFails(g)
    BY <2>1 DEF BuildFails
  <2>2. CASE addFinalizerFails(g)
    BY <2>2 DEF addFinalizerFails
  <2> QED BY <1>10, <2>1, <2>2
<1>11. CASE deployModelFails(g)
  <2>1. UNCHANGED <<phase, fin, plan>> /\ pc[g] = "deploy" /\ Done(g)
    BY <1>11 DEF deployModelFails
  <2>2. fin[g] /\ ~plan[g] /\ phase[g] # "gone"
    BY <2>1
  <2> QED BY <2>1, <2>2, DoneIdle, FinalizedIdle
<1>12. CASE reconcileDeleteFails(g) \/ ReconcileFails(g)
  <2>1. CASE reconcileDeleteFails(g)
    <3>1. UNCHANGED <<phase, fin, plan>> /\ pc[g] = "delete" /\ fin[g] /\ Done(g)
      BY <2>1 DEF reconcileDeleteFails
    <3>2. ~plan[g] /\ phase[g] # "gone"
      BY <3>1
    <3> QED BY <3>1, <3>2, DoneIdle, FinalizedIdle
  <2>2. CASE ReconcileFails(g)
    BY <2>2 DEF ReconcileFails
  <2> QED BY <1>12, <2>1, <2>2
<1>13. CASE ChangeRoutes(g) \/ ChangeAddons(g) \/ ChangeDryRun(g) \/ ChangeConfig(g)
  BY <1>13 DEF ChangeRoutes, ChangeAddons, ChangeDryRun, ChangeConfig
<1>14. CASE DeleteGateway(g)
  BY <1>14 DEF DeleteGateway
<1> QED BY <1>1, <1>2, <1>3, <1>4, <1>5, <1>6, <1>7, <1>8, <1>9, <1>10, <1>11, <1>12,
           <1>13, <1>14, <1>15
        DEF GatewayStep, Reconcile

\* The services are counted before the model is deployed.
LEMMA KnownOwn ==
    ASSUME TypeOK, NEW g \in Gateways, Known(g), Fixed(GatewayStep(g))
    PROVE  Known(g)'
<1> USE DEF TypeOK, Known, Fixed, Goto, Done, counter, worker
<1>1. CASE Build(g) \/ BuildWithoutConfig(g)
  <2>1. CASE Build(g)
    BY <2>1 DEF Build
  <2>2. CASE BuildWithoutConfig(g)
    BY <2>2 DEF BuildWithoutConfig
  <2> QED BY <1>1, <2>1, <2>2
<1>7. CASE cleanupDryRunState(g) \/ persistAdditions(g)
  <2>1. CASE cleanupDryRunState(g)
    BY <2>1 DEF cleanupDryRunState
  <2>2. CASE persistAdditions(g)
    BY <2>2 DEF persistAdditions
  <2> QED BY <1>7, <2>1, <2>2
<1>2. CASE reconcileUpdate(g)
  BY <1>2, GatewayAssumption DEF reconcileUpdate, UpdateRelations
<1>3. CASE deployModel(g) \/ updateGatewayStatusSuccess(g)
  BY <1>3 DEF deployModel, updateGatewayStatusSuccess
<1>4. CASE reconcileDelete(g)
  BY <1>4 DEF reconcileDelete
<1>5. CASE BuildFails(g) \/ ChangeRoutes(g) \/ ChangeAddons(g) \/ ChangeDryRun(g)
           \/ ChangeConfig(g) \/ DeleteGateway(g)
  BY <1>5 DEF BuildFails, ChangeRoutes, ChangeAddons, ChangeDryRun, ChangeConfig,
     DeleteGateway
<1>6. CASE Done(g)
  BY <1>6
<1> QED BY <1>1, <1>2, <1>3, <1>4, <1>5, <1>6, <1>7
        DEF GatewayStep, Reconcile, reconcileDryRun, addFinalizerRefused, persistRemovals,
            reconcileDeleteNothing, RemoveFinalizers, addFinalizerFails, deployModelFails,
            reconcileDeleteFails, ReconcileFails

\* Together: what holds of every Gateway by itself.
LEMMA OwnStep ==
    ASSUME TypeOK, [Next]_vars, NEW h \in Gateways, Recorded(h), Finalized(h), Known(h)
    PROVE  (Recorded(h) /\ Finalized(h) /\ Known(h))'
<1>1. ASSUME NEW g \in Gateways, Fixed(GatewayStep(g))
      PROVE  (Recorded(h) /\ Finalized(h) /\ Known(h))'
  <2>1. CASE h = g
    BY <1>1, <2>1, RecordedOwn, FinalizedOwn, KnownOwn
  <2>2. CASE h # g
    <3>1. /\ phase'[h] = phase[h] /\ fin'[h] = fin[h] /\ plan'[h] = plan[h]
          /\ stored'[h] = stored[h] /\ lb'[h] = lb[h] /\ active'[h] = active[h]
          /\ relations'[h] = relations[h] /\ pc'[h] = pc[h] /\ run'[h] = run[h]
      BY <1>1, <2>2, OtherGateway
    <3>2. Recorded(h)'
      BY <3>1 DEF Recorded
    <3>3. Finalized(h)'
      BY <3>1 DEF Finalized
    <3>4. Known(h)'
      BY <3>1 DEF Known
    <3> QED BY <3>2, <3>3, <3>4
  <2> QED BY <2>1, <2>2
<1>2. CASE UNCHANGED <<setting, gwVars, awsVars, counter, worker>>
  BY <1>2 DEF gwVars, awsVars, counter, worker, Recorded, Finalized, Known
<1>3. CASE Fixed(Restart)
  BY <1>3 DEF Fixed, Restart, gwVars, awsVars, Idle, Recorded, Finalized, Known
<1>4. ASSUME NEW s \in Services, DeleteService(s)
      PROVE  (Recorded(h) /\ Finalized(h) /\ Known(h))'
  BY <1>4, ServiceStep DEF Recorded, Finalized, Known
<1> QED BY <1>1, <1>2, <1>3, <1>4, OtherController DEF Next

-----------------------------------------------------------------------------
(***************************************************************************)
(* Configurations.                                                         *)
(***************************************************************************)
\* A Gateway's steps never take an LBC's finalizer away, a Gateway that is gone does
\* not come back, and only a run that resolved its LBC leads to a load balancer.
LEMMA ConfigFrame ==
    ASSUME TypeOK, ~setting.reconf, NEW g \in Gateways, Fixed(GatewayStep(g))
    PROVE  /\ UNCHANGED <<setting, conf, lbc, lbcPc>>
           /\ \A c \in Configs : lbcFin[c] => lbcFin'[c]
           /\ \A h \in Gateways : phase[h] = "gone" => phase'[h] = "gone"
           /\ Resolved(g)' => Resolved(g) \/ Build(g)
<1> USE DEF TypeOK, Resolved, Fixed, Goto, Done, gwVars, awsVars, worker, lbcVars
<1>1. CASE Build(g)
  <2>1. \A c \in Configs : lbcFin[c] => lbcFin'[c]
    BY <1>1 DEF Build, protectConfig
  <2> QED BY <1>1, <2>1 DEF Build
<1>2. CASE BuildWithoutConfig(g) \/ reconcileDryRun(g) \/ cleanupDryRunState(g)
  <2>1. CASE BuildWithoutConfig(g)
    BY <2>1 DEF BuildWithoutConfig
  <2>2. CASE reconcileDryRun(g)
    BY <2>2 DEF reconcileDryRun
  <2>3. CASE cleanupDryRunState(g)
    BY <2>3 DEF cleanupDryRunState
  <2> QED BY <1>2, <2>1, <2>2, <2>3
<1>3. CASE persistAdditions(g) \/ reconcileUpdate(g) \/ addFinalizerRefused(g)
  BY <1>3 DEF persistAdditions, reconcileUpdate, addFinalizerRefused
<1>4. CASE deployModel(g) \/ updateGatewayStatusSuccess(g) \/ persistRemovals(g)
  BY <1>4 DEF deployModel, updateGatewayStatusSuccess, persistRemovals
<1>5. CASE reconcileDelete(g) \/ reconcileDeleteNothing(g)
  BY <1>5 DEF reconcileDelete, reconcileDeleteNothing
<1>6. CASE RemoveFinalizers(g) \/ addFinalizerFails(g) \/ deployModelFails(g)
  <2>1. CASE RemoveFinalizers(g)
    BY <2>1 DEF RemoveFinalizers
  <2>2. CASE addFinalizerFails(g)
    BY <2>2 DEF addFinalizerFails
  <2>3. CASE deployModelFails(g)
    BY <2>3 DEF deployModelFails
  <2> QED BY <1>6, <2>1, <2>2, <2>3
<1>7. CASE BuildFails(g)
  <2>1. \A c \in Configs : lbcFin[c] => lbcFin'[c]
    BY <1>7 DEF BuildFails, protectConfig
  <2> QED BY <1>7, <2>1 DEF BuildFails
<1>8. CASE reconcileDeleteFails(g) \/ ReconcileFails(g)
  BY <1>8 DEF reconcileDeleteFails, ReconcileFails
<1>9. CASE ChangeRoutes(g) \/ ChangeAddons(g) \/ ChangeDryRun(g) \/ ChangeConfig(g)
  BY <1>9 DEF ChangeRoutes, ChangeAddons, ChangeDryRun, ChangeConfig
<1>10. CASE DeleteGateway(g)
  BY <1>10 DEF DeleteGateway
<1> QED BY <1>1, <1>2, <1>3, <1>4, <1>5, <1>6, <1>7, <1>8, <1>9, <1>10
        DEF GatewayStep, Reconcile

\* Resolving the LBC protects it.
LEMMA BuildProtects ==
    ASSUME TypeOK, NEW g \in Gateways, Fixed(Build(g)), conf[g] # None
    PROVE  Protected(conf[g])'
<1>1. conf[g] \in Configs /\ lbc[conf[g]] # "gone" /\ lbc' = lbc /\ conf' = conf
  BY GatewayAssumption DEF TypeOK, Fixed, Build, gwVars, configAvailable
<1>2. lbc[conf[g]] = "present" => lbcFin'[conf[g]]
  BY <1>1 DEF TypeOK, Fixed, Build, protectConfig
<1> QED BY <1>1, <1>2 DEF Protected

\* An LBC stays as long as a Gateway that resolved it, provided that Gateways do not
\* turn to other LBCs.
LEMMA ConfigStep ==
    ASSUME TypeOK, ConfigKept, [Next]_vars
    PROVE  ConfigKept'
<1> SUFFICES ASSUME ~setting'.reconf PROVE ConfigKept'
  BY DEF ConfigKept
<1>1. ~setting.reconf /\ setting' = setting
  BY ServiceStep DEF Next, Fixed, vars
<1>2. /\ \A g \in Gateways : Resolved(g) => Protected(conf[g])
      /\ \A c \in Configs : lbcPc[c] = "remove" => ~IsLBConfigInUse(c)
  BY <1>1 DEF ConfigKept
<1>3. ASSUME NEW g \in Gateways, Fixed(GatewayStep(g))
      PROVE  ConfigKept'
  <2>1. /\ UNCHANGED <<setting, conf, lbc, lbcPc>>
        /\ \A c \in Configs : lbcFin[c] => lbcFin'[c]
        /\ \A h \in Gateways : phase[h] = "gone" => phase'[h] = "gone"
        /\ Resolved(g)' => Resolved(g) \/ Build(g)
    BY <1>1, <1>3, ConfigFrame
  <2>2. ASSUME NEW h \in Gateways, Resolved(h)'
        PROVE  Protected(conf[h])'
    <3>1. conf[h] \in Configs /\ conf'[h] = conf[h] /\ conf[h] # None
      <4>1. conf' = conf /\ conf'[h] # None
        BY <2>1, <2>2 DEF Resolved
      <4>2. conf[h] \in Configs \cup {None}
        BY DEF TypeOK
      <4> QED BY <4>1, <4>2
    <3>2. CASE Resolved(h)
      BY <1>2, <2>1, <3>1, <3>2 DEF Protected
    <3>3. CASE ~Resolved(h)
      <4>1. h = g
        BY <1>3, <2>1, <2>2, <3>3, OtherGateway DEF Resolved
      <4>2. Fixed(Build(g))
        BY <1>3, <2>1, <2>2, <3>3, <4>1 DEF Fixed
      <4> QED BY <3>1, <4>1, <4>2, BuildProtects
    <3> QED BY <3>2, <3>3
  <2>3. ASSUME NEW c \in Configs, lbcPc'[c] = "remove"
        PROVE  ~IsLBConfigInUse(c)'
    BY <1>2, <2>1, <2>3 DEF IsLBConfigInUse
  <2> QED BY <2>2, <2>3 DEF ConfigKept
<1>4. ASSUME NEW c \in Configs, Fixed(ReconcileLBC(c) \/ DeleteLBC(c))
      PROVE  ConfigKept'
  <2>0. UNCHANGED <<phase, conf, pc, lb>>
    BY <1>4, OtherController DEF gwVars, awsVars, worker
  <2>1. \A g \in Gateways : /\ Resolved(g)' = Resolved(g)
                            /\ Resolved(g) => Protected(conf[g]) /\ conf[g] \in Configs
    <3> SUFFICES ASSUME NEW g \in Gateways
                 PROVE  /\ Resolved(g)' = Resolved(g)
                        /\ Resolved(g) => Protected(conf[g]) /\ conf[g] \in Configs
      OBVIOUS
    <3>1. Resolved(g)' = Resolved(g)
      BY <2>0 DEF Resolved
    <3>2. Resolved(g) => conf[g] \in Configs
      BY DEF Resolved, TypeOK
    <3> QED BY <1>2, <3>1, <3>2
  <2>2. \A d \in Configs : IsLBConfigInUse(d)' = IsLBConfigInUse(d)
    BY <2>0 DEF IsLBConfigInUse
  <2>3. \A g \in Gateways : Resolved(g) => IsLBConfigInUse(conf[g])
    BY DEF Resolved, IsLBConfigInUse
  <2>4. CASE lbcHandleUpdate(c)
    BY <2>4, <1>2, <2>0, <2>1, <2>2 DEF lbcHandleUpdate, TypeOK, Protected, ConfigKept
  <2>7. CASE lbcHandleDelete(c)
    BY <2>7, <1>2, <2>0, <2>1, <2>2 DEF lbcHandleDelete, TypeOK, Protected, ConfigKept
  <2>5. CASE lbcRemoveFinalizer(c)
    BY <2>5, <1>2, <2>0, <2>1, <2>2, <2>3
    DEF lbcRemoveFinalizer, TypeOK, Protected, ConfigKept
  <2>6. CASE DeleteLBC(c)
    BY <2>6, <1>2, <2>0, <2>1, <2>2 DEF DeleteLBC, TypeOK, Protected, ConfigKept
  <2> QED BY <1>4, <2>4, <2>5, <2>6, <2>7 DEF Fixed, ReconcileLBC
<1>5. CASE Fixed(Restart)
  BY <1>5, <1>2 DEF Fixed, Restart, gwVars, awsVars, ConfigKept, Resolved, Protected
<1>6. CASE UNCHANGED vars
  BY <1>6, <1>2 DEF vars, gwVars, awsVars, worker, lbcVars, ConfigKept, Resolved, Protected,
     IsLBConfigInUse
<1>7. ASSUME NEW s \in Services, Fixed(ReconcileTGC(s) \/ DeleteTGC(s))
      PROVE  ConfigKept'
  <2>1. UNCHANGED <<phase, conf, pc, lb, lbc, lbcFin, lbcPc>>
    BY <1>7 DEF Fixed, ReconcileTGC, tgcListGateways, tgcCheck, tgcRemoveFinalizer, DeleteTGC,
       gwVars, awsVars, worker, lbcVars
  <2> QED BY <1>2, <2>1 DEF ConfigKept, Resolved, Protected, IsLBConfigInUse
<1>8. ASSUME NEW s \in Services, DeleteService(s)
      PROVE  ConfigKept'
  BY <1>2, <1>8, ServiceStep DEF ConfigKept, Resolved, Protected, IsLBConfigInUse
<1> QED BY <1>3, <1>4, <1>5, <1>6, <1>7, <1>8 DEF Next

-----------------------------------------------------------------------------
(***************************************************************************)
(* The TGC controller.                                                     *)
(***************************************************************************)
\* A load balancer of an accepted Gateway that the counter does not know is one the
\* counter has lost: no run deploys one, and none is accepted, before it is counted.
Lost(g) == relations[g] = None /\ lb[g] # None /\ accepted[g]

LEMMA CountedKnown ==
    ASSUME TypeOK, NEW g \in Gateways, UpdateRelations(run[g].svcs, g, FALSE)
    PROVE  relations'[g] # None
<1>1. run[g].svcs \in SUBSET Services
  BY DEF TypeOK
<1>2. relations'[g] = run[g].svcs
  BY DEF TypeOK, UpdateRelations
<1> QED BY <1>1, <1>2, GatewayAssumption

LEMMA LostOwn ==
    ASSUME TypeOK, NEW g \in Gateways, Known(g), Fixed(GatewayStep(g)), Lost(g)'
    PROVE  Lost(g)
<1> USE DEF TypeOK, Lost, Known, Fixed, gwVars, awsVars, counter
<1>1. CASE Build(g) \/ BuildWithoutConfig(g) \/ reconcileDryRun(g) \/ cleanupDryRunState(g)
  BY <1>1 DEF Build, BuildWithoutConfig, reconcileDryRun, cleanupDryRunState
<1>2. CASE \/ reconcileUpdate(g) \/ addFinalizerRefused(g) \/ addFinalizerFails(g)
  <2>1. CASE reconcileUpdate(g)
    BY <2>1, CountedKnown DEF reconcileUpdate
  <2>2. CASE addFinalizerRefused(g)
    BY <2>2, CountedKnown DEF addFinalizerRefused
  <2>3. CASE addFinalizerFails(g)
    BY <2>3, CountedKnown DEF addFinalizerFails
  <2> QED BY <1>2, <2>1, <2>2, <2>3
<1>3. CASE deployModel(g) \/ updateGatewayStatusSuccess(g) \/ deployModelFails(g)
  BY <1>3 DEF deployModel, updateGatewayStatusSuccess, deployModelFails
<1>4. CASE persistAdditions(g) \/ persistRemovals(g) \/ RemoveFinalizers(g)
  BY <1>4 DEF persistAdditions, persistRemovals, RemoveFinalizers
<1>5. CASE reconcileDelete(g) \/ reconcileDeleteNothing(g) \/ reconcileDeleteFails(g)
  BY <1>5 DEF reconcileDelete, reconcileDeleteNothing, reconcileDeleteFails
<1>6. CASE BuildFails(g) \/ ReconcileFails(g) \/ DeleteGateway(g)
  BY <1>6 DEF BuildFails, handleReconcileError, ReconcileFails, DeleteGateway
<1>7. CASE ChangeRoutes(g) \/ ChangeAddons(g) \/ ChangeDryRun(g) \/ ChangeConfig(g)
  BY <1>7 DEF ChangeRoutes, ChangeAddons, ChangeDryRun, ChangeConfig
<1> QED BY <1>1, <1>2, <1>3, <1>4, <1>5, <1>6, <1>7 DEF GatewayStep, Reconcile

\* The Gateways listed before the check are still all that matter when it is made.
LEMMA ExpectedStep ==
    ASSUME Inv, [Next]_vars
    PROVE  Expected'
<1> USE DEF Inv
<1> SUFFICES ASSUME NEW s \in Services, NEW g \in Gateways, tgcPc'[s] = "check", Lost(g)'
             PROVE  g \in tgcExpected'[s]
  BY DEF Expected, Lost
<1>0. Lost(g) /\ tgcPc[s] = "check" => g \in tgcExpected[s]
  BY DEF Expected, Lost
<1>1. ASSUME NEW h \in Gateways, Fixed(GatewayStep(h))
      PROVE  g \in tgcExpected'[s]
  <2>1. UNCHANGED <<tgcPc, tgcExpected>>
    BY <1>1 DEF Fixed, GatewayStep, Reconcile, Build, BuildWithoutConfig, reconcileDryRun,
       cleanupDryRunState, persistAdditions, reconcileUpdate, addFinalizerRefused,
       deployModel, updateGatewayStatusSuccess, persistRemovals, reconcileDelete,
       reconcileDeleteNothing, RemoveFinalizers, BuildFails, addFinalizerFails,
       deployModelFails, reconcileDeleteFails, ReconcileFails, ChangeRoutes, ChangeAddons,
       ChangeDryRun, ChangeConfig, DeleteGateway, tgcVars
  <2>2. Lost(g)
    <3>1. CASE g = h
      BY <1>1, <3>1, LostOwn
    <3>2. CASE g # h
      BY <1>1, <3>2, OtherGateway DEF Lost
    <3> QED BY <3>1, <3>2
  <2> QED BY <1>0, <2>1, <2>2
<1>2. ASSUME NEW r \in Services, Fixed(ReconcileTGC(r) \/ DeleteTGC(r))
      PROVE  g \in tgcExpected'[s]
  <2>1. UNCHANGED <<phase, accepted, relations, lb>>
    BY <1>2, OtherController DEF gwVars, awsVars, counter
  <2>2. Lost(g) /\ phase[g] # "gone" /\ accepted[g]
    BY <2>1 DEF Lost, Finalized
  <2>3. CASE tgcListGateways(r)
    BY <1>0, <2>2, <2>3 DEF tgcListGateways, TypeOK
  <2>4. CASE tgcCheck(r) \/ tgcRemoveFinalizer(r) \/ DeleteTGC(r)
    <3>1. CASE tgcCheck(r)
      BY <3>1, <1>0, <2>2 DEF tgcCheck, TypeOK
    <3>2. CASE tgcRemoveFinalizer(r)
      BY <3>2, <1>0, <2>2 DEF tgcRemoveFinalizer, TypeOK
    <3>3. CASE DeleteTGC(r)
      BY <3>3, <1>0, <2>2 DEF DeleteTGC, TypeOK
    <3> QED BY <2>4, <3>1, <3>2, <3>3
  <2> QED BY <1>2, <2>3, <2>4 DEF Fixed, ReconcileTGC
<1>3. ASSUME NEW c \in Configs, Fixed(ReconcileLBC(c) \/ DeleteLBC(c))
      PROVE  g \in tgcExpected'[s]
  <2>1. UNCHANGED <<accepted, relations, lb, tgcPc, tgcExpected>>
    BY <1>3 DEF Fixed, ReconcileLBC, lbcHandleUpdate, lbcHandleDelete, lbcRemoveFinalizer,
       DeleteLBC, gwVars, awsVars, counter, tgcVars
  <2> QED BY <1>0, <2>1 DEF Lost
<1>4. CASE Fixed(Restart)
  BY <1>4 DEF Fixed, Restart
<1>5. CASE UNCHANGED vars
  BY <1>0, <1>5 DEF vars, gwVars, awsVars, counter, tgcVars, Lost
<1>6. ASSUME NEW r \in Services, DeleteService(r)
      PROVE  g \in tgcExpected'[s]
  BY <1>0, <1>6, ServiceStep DEF Lost
<1> QED BY <1>1, <1>2, <1>3, <1>4, <1>5, <1>6 DEF Next

-----------------------------------------------------------------------------
(***************************************************************************)
(* The theorems.                                                           *)
(***************************************************************************)
LEMMA InvStep == Inv /\ [Next]_vars => Inv'
<1> SUFFICES ASSUME Inv, [Next]_vars PROVE Inv'
  OBVIOUS
<1>1. TypeOK' /\ RefCountExact'
  BY TypeStep, RefCountStep DEF Inv
<1>2. \A g \in Gateways : (Recorded(g) /\ Finalized(g) /\ Known(g))'
  BY OwnStep DEF Inv
<1>3. ConfigKept' /\ Expected'
  BY ConfigStep, ExpectedStep DEF Inv
<1> QED BY <1>1, <1>2, <1>3 DEF Inv

LEMMA Invariance == Spec => []Inv
BY InitInv, InvStep, PTL DEF Spec

\* The reference counter is exact: after any interleaving of updates, deletes,
\* retries and restarts, refCount is the number of Gateways whose relations name
\* the service (UpdateRelations).
THEOREM CounterExact == Spec => []RefCountExact
<1>1. Inv => RefCountExact
  BY DEF Inv
<1> QED BY <1>1, Invariance, PTL

\* No add-on is ever attached to a load balancer without being recorded in the
\* Gateway's annotations: additions are persisted before the deployment, removals
\* after it, and failures and restarts in between lose nothing (persistAddOns).
THEOREM AddonsRecorded == Spec => []NoOrphanAddon
<1>1. Inv => NoOrphanAddon
  BY DEF Inv, Recorded, NoOrphanAddon
<1> QED BY <1>1, Invariance, PTL

\* While a load balancer exists its Gateway is there and finalized, carries no
\* dry-run plan, and the LBC it refers to exists unless it was pointed at another.
THEOREM FinalizersProtect == Spec => []FinalizerProtects
<1>1. Inv => FinalizerProtects
  <2> SUFFICES ASSUME Inv, NEW g \in Gateways, lb[g] # None, ~setting.reconf
               PROVE  configAvailable(g)
    BY DEF Inv, Finalized, FinalizerProtects
  <2>1. phase[g] # "gone"
    BY DEF Inv, Finalized
  <2> QED BY <2>1 DEF Inv, TypeOK, ConfigKept, Resolved, Protected, configAvailable
<1> QED BY <1>1, Invariance, PTL

\* The TGC controller never finds a service unused that is in a load balancer built
\* from what the counter knows, or in one of an accepted Gateway the counter lost in
\* a restart (IsEligibleForRemoval), as long as the Service exists, although it lists the Gateways before it asks.
THEOREM TGCsKept == Spec => TGCKept
<1> DEFINE Kept ==
      \A s \in Services, g \in Gateways :
         /\ tgcPc[s] = "check" /\ tgcPc'[s] = "remove" /\ svc[s]
         /\ lb[g] # None /\ s \in lb[g]
         => ~(relations[g] = lb[g] \/ (relations[g] = None /\ accepted[g]))
<1>1. Inv /\ [Next]_vars => [Kept]_vars
  <2> SUFFICES ASSUME Inv, Next, NEW s \in Services, NEW g \in Gateways,
                      tgcPc[s] = "check", tgcPc'[s] = "remove", svc[s], lb[g] # None, s \in lb[g],
                      relations[g] = lb[g] \/ (relations[g] = None /\ accepted[g])
               PROVE  FALSE
    OBVIOUS
  <2>1. tgcCheck(s)
    <3>1. ASSUME NEW h \in Gateways, Fixed(GatewayStep(h))
          PROVE  UNCHANGED tgcPc
      BY <3>1 DEF Fixed, GatewayStep, Reconcile, Build, BuildWithoutConfig, reconcileDryRun,
         cleanupDryRunState, persistAdditions, reconcileUpdate, addFinalizerRefused,
         deployModel, updateGatewayStatusSuccess, persistRemovals, reconcileDelete,
         reconcileDeleteNothing, RemoveFinalizers, BuildFails, addFinalizerFails,
         deployModelFails, reconcileDeleteFails, ReconcileFails, ChangeRoutes, ChangeAddons,
         ChangeDryRun, ChangeConfig, DeleteGateway, tgcVars
    <3>2. ASSUME NEW c \in Configs, Fixed(ReconcileLBC(c) \/ DeleteLBC(c))
          PROVE  UNCHANGED tgcPc
      BY <3>2 DEF Fixed, ReconcileLBC, lbcHandleUpdate, lbcHandleDelete, lbcRemoveFinalizer,
         DeleteLBC, tgcVars
    <3>3. ~Fixed(Restart)
      BY DEF Fixed, Restart
    <3>4. PICK r \in Services : Fixed(ReconcileTGC(r) \/ DeleteTGC(r))
      BY <3>1, <3>2, <3>3, ServiceStep DEF Next
    <3>5. tgcPc \in [Services -> {"idle", "check", "remove"}]
      BY DEF Inv, TypeOK
    <3>6. CASE tgcListGateways(r)
      BY <3>5, <3>6 DEF tgcListGateways
    <3>7. CASE tgcCheck(r)
      BY <3>5, <3>7 DEF tgcCheck
    <3>8. CASE tgcRemoveFinalizer(r)
      BY <3>5, <3>8 DEF tgcRemoveFinalizer
    <3>9. CASE DeleteTGC(r)
      BY <3>9 DEF DeleteTGC
    <3> QED BY <3>4, <3>6, <3>7, <3>8, <3>9 DEF Fixed, ReconcileTGC
  <2>2. refCount[s] = 0 /\ \A h \in tgcExpected[s] : relations[h] # None
    BY <2>1 DEF tgcCheck, IsEligibleForRemoval, Inv, TypeOK
  <2>3. CASE relations[g] = lb[g]
    <3>1. g \in Users(relations, s)
      BY <2>3 DEF Users, servicesOf
    <3>2. IsFiniteSet(Users(relations, s)) /\ Cardinality(Users(relations, s)) = 0
      BY <2>2, FS_Subset, GatewayAssumption DEF Inv, RefCountExact, Users
    <3> QED BY <3>1, <3>2, FS_EmptySet
  <2>4. CASE relations[g] = None /\ accepted[g]
    BY <2>2, <2>4 DEF Inv, Expected
  <2> QED BY <2>3, <2>4
<1> QED BY <1>1, Invariance, PTL DEF Spec, TGCKept
=============================================================================
