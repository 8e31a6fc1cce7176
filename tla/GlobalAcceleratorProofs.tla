---------------------- MODULE GlobalAcceleratorProofs ----------------------
(***************************************************************************)
(* Proofs about GlobalAccelerator, for any specs, any number of endpoints, *)
(* regions and listeners, of edits and of faults.                          *)
(*                                                                         *)
(* That there is never a second accelerator rests on the token of the      *)
(* calls that create one: it is the object's UID, which every copy of the  *)
(* object has, however stale, and no patch changes.  So every accelerator  *)
(* there is has this token, and Create answers with it.                    *)
(***************************************************************************)
EXTENDS GlobalAccelerator, FiniteSetTheorems, TLAPS

\* A copy of the object, as far as the token goes.
HasUID(o) == "uid" \in DOMAIN o /\ o.uid = 0

\* Every accelerator was created with the token of the object.
HasToken(x) == "token" \in DOMAIN x /\ x.token = 0

\* The inductive invariant.
Tokens ==
    /\ HasUID(ga) /\ HasUID(cache)
    /\ pc # "idle" => HasUID(seen)
    /\ pc = "idle" => calls = <<>>
    /\ DOMAIN accs = ARNs
    /\ \A a \in Live(accs) : HasToken(accs[a])
    /\ \A a, b \in Live(accs) : a = b

-----------------------------------------------------------------------------
(***************************************************************************)
(* The object and its copies.                                              *)
(***************************************************************************)
\* A patch starts from a copy and leaves the UID as it is.
LEMMA PatchKeepsUID ==
    ASSUME HasUID(ga), HasUID(seen), NEW new, HasUID(new), PatchStatus(new)
    PROVE  HasUID(ga')
  BY DEF HasUID, PatchStatus, Patched

LEMMA FailureKeepsUID ==
    ASSUME HasUID(ga), HasUID(seen), UpdateStatusFailure
    PROVE  HasUID(ga')
  <1>1. HasUID([seen EXCEPT !.ready = "failed", !.observed = seen.gen])
    BY DEF HasUID
  <1> QED
    BY <1>1, PatchKeepsUID DEF UpdateStatusFailure

LEMMA DeletionKeepsUID ==
    ASSUME HasUID(ga), HasUID(seen), UpdateStatusDeletion
    PROVE  HasUID(ga')
  <1>1. HasUID([seen EXCEPT !.ready = "deleting", !.observed = seen.gen])
    BY DEF HasUID
  <1> QED
    BY <1>1, PatchKeepsUID DEF UpdateStatusDeletion

LEMMA SuccessKeepsUID ==
    ASSUME HasUID(ga), HasUID(seen), UpdateStatusSuccess
    PROVE  HasUID(ga')
  <1>1. HasUID([seen EXCEPT !.observed = seen.gen, !.arn = cur.arn,
                            !.ready = IF cur.deployed THEN "true" ELSE "unknown"])
    BY DEF HasUID
  <1> QED
    BY <1>1, PatchKeepsUID DEF UpdateStatusSuccess

LEMMA FailedKeepsUID ==
    ASSUME HasUID(ga), HasUID(seen), Failed
    PROVE  HasUID(ga')
  BY FailureKeepsUID DEF Failed

-----------------------------------------------------------------------------
(***************************************************************************)
(* The accelerators.                                                       *)
(***************************************************************************)
\* No accelerator is added, and those that stay keep their tokens.
Shrinks ==
    /\ DOMAIN accs' = ARNs
    /\ \A a \in Live(accs') : a \in Live(accs) /\ HasToken(accs'[a])

LEMMA ShrinksKeeps ==
    ASSUME Tokens, Shrinks
    PROVE  /\ DOMAIN accs' = ARNs
           /\ \A a \in Live(accs') : HasToken(accs'[a])
           /\ \A a, b \in Live(accs') : a = b
  BY DEF Tokens, Shrinks

LEMMA UnchangedShrinks ==
    ASSUME Tokens, UNCHANGED accs
    PROVE  Shrinks
  BY DEF Tokens, Shrinks, Live

LEMMA RemovedShrinks ==
    ASSUME Tokens, NEW a, accs' = [accs EXCEPT ![a] = None]
    PROVE  Shrinks
  BY DEF Tokens, Shrinks, Live

\* A change to an accelerator that keeps its token.
LEMMA ChangedShrinks ==
    ASSUME Tokens, NEW a \in Live(accs), NEW x, HasToken(x), accs' = [accs EXCEPT ![a] = x]
    PROVE  Shrinks
  BY DEF Tokens, Shrinks, Live

LEMMA TouchShrinks ==
    ASSUME Tokens, NEW a, Touch(a)
    PROVE  Shrinks
  <1>1. CASE accs[a] = None \/ a \notin ARNs
    <2>1. \A b \in ARNs : accs'[b] = accs[b]
      BY <1>1 DEF Tokens, Touch
    <2>2. DOMAIN accs' = ARNs
      BY DEF Tokens, Touch
    <2> QED
      BY <2>1, <2>2 DEF Tokens, Shrinks, Live
  <1>2. CASE accs[a] # None /\ a \in ARNs
    <2>1. a \in Live(accs) /\ accs' = [accs EXCEPT ![a] = [accs[a] EXCEPT !.deployed = FALSE]]
      BY <1>2 DEF Tokens, Touch, Live
    <2>2. HasToken([accs[a] EXCEPT !.deployed = FALSE])
      BY <2>1 DEF Tokens, HasToken
    <2> QED
      BY <2>1, <2>2, ChangedShrinks
  <1> QED
    BY <1>1, <1>2

\* Only creating an accelerator adds one.
LEMMA EffectShrinks ==
    ASSUME Tokens, Effect
    PROVE  Shrinks /\ seen' = seen
  <1>1. Shrinks
    <2>1. CASE UNCHANGED accs
      BY <2>1, UnchangedShrinks
    <2>2. CASE \E a : Touch(a)
      BY <2>2, TouchShrinks
    <2>3. CASE \E a : accs' = [accs EXCEPT ![a] = None]
      BY <2>3, RemovedShrinks
    <2>4. (UNCHANGED accs) \/ (\E a : Touch(a)) \/ (\E a : accs' = [accs EXCEPT ![a] = None])
      BY DEF Effect, CreateListener, UpdateListener, DeleteListener, DeleteGroup, SetGroup, UpdateGroup,
             CreateGroup, AddEndpoints, RemoveEndpoints, DeleteAccelerator
    <2> QED
      BY <2>1, <2>2, <2>3, <2>4
  <1>2. seen' = seen
    BY DEF Effect, CreateListener, UpdateListener, DeleteListener, DeleteGroup, SetGroup, UpdateGroup,
           CreateGroup, AddEndpoints, RemoveEndpoints, DeleteAccelerator, memory
  <1> QED
    BY <1>1, <1>2

LEMMA DisableShrinks ==
    ASSUME Tokens, Disable
    PROVE  Shrinks /\ seen' = seen
  <1>1. \A a \in Live(accs) : HasToken([accs[a] EXCEPT !.enabled = FALSE, !.deployed = FALSE])
    BY DEF Tokens, HasToken
  <1> QED
    BY <1>1 DEF Tokens, Disable, Shrinks, Live, memory

LEMMA UpdateShrinks ==
    ASSUME Tokens, UpdateAccelerator
    PROVE  Shrinks /\ seen' = seen
  <1>1. seen.arn \in Live(accs) /\ seen' = seen
    BY DEF UpdateAccelerator
  <1>2. CASE Drifted(seen.arn)
    <2> DEFINE x == [accs[seen.arn] EXCEPT !.name = d.name, !.enabled = TRUE, !.deployed = FALSE]
    <2>1. accs' = [accs EXCEPT ![seen.arn] = x]
      BY <1>1, <1>2 DEF UpdateAccelerator, Tokens, Live
    <2>2. HasToken(x)
      BY <1>1 DEF Tokens, HasToken
    <2> HIDE DEF x
    <2> QED
      BY <1>1, <2>1, <2>2, ChangedShrinks
  <1>3. CASE ~Drifted(seen.arn)
    BY <1>1, <1>3, UnchangedShrinks DEF UpdateAccelerator
  <1> QED
    BY <1>2, <1>3

\* An accelerator is created only when there is none: another one would have the
\* token of the call.
LEMMA CreateKeeps ==
    ASSUME Tokens, CreateAccelerator
    PROVE  /\ DOMAIN accs' = ARNs /\ seen' = seen
           /\ \A a \in Live(accs') : HasToken(accs'[a])
           /\ \A a, b \in Live(accs') : a = b
  <1>1. HasUID(seen) /\ seen' = seen
    BY DEF Tokens, CreateAccelerator
  <1>2. CASE Created # {}
    BY <1>1, <1>2, UnchangedShrinks, ShrinksKeeps DEF CreateAccelerator
  <1>3. CASE Created = {}
    <2>1. Live(accs) = {}
      BY <1>1, <1>3 DEF Tokens, Created, IdempotencyToken, HasUID, HasToken
    <2>2. PICK a : accs' = [accs EXCEPT ![a] = [token |-> IdempotencyToken, name |-> d.name,
                                                enabled |-> TRUE, deployed |-> FALSE]]
      BY <1>3 DEF CreateAccelerator
    <2>3. HasToken([token |-> IdempotencyToken, name |-> d.name, enabled |-> TRUE, deployed |-> FALSE])
      BY <1>1 DEF HasToken, HasUID, IdempotencyToken
    <2>4. DOMAIN accs' = ARNs /\ Live(accs') \subseteq {a}
      BY <2>1, <2>2 DEF Tokens, Live
    <2>5. ASSUME NEW b \in Live(accs')
          PROVE  HasToken(accs'[b])
      <3>1. b = a /\ a \in DOMAIN accs
        BY <2>2, <2>4, <2>5 DEF Live
      <3> QED
        BY <2>2, <2>3, <3>1
    <2> QED
      BY <1>1, <2>4, <2>5
  <1> QED
    BY <1>2, <1>3

LEMMA SynthesizeKeeps ==
    ASSUME Tokens, SynthesizeAccelerator
    PROVE  /\ DOMAIN accs' = ARNs /\ seen' = seen
           /\ \A a \in Live(accs') : HasToken(accs'[a])
           /\ \A a, b \in Live(accs') : a = b
  BY CreateKeeps, UpdateShrinks, ShrinksKeeps DEF SynthesizeAccelerator

-----------------------------------------------------------------------------
(***************************************************************************)
(* The steps.                                                              *)
(***************************************************************************)
\* Steps that change neither the accelerators nor the object.
LEMMA Beside ==
    ASSUME Tokens, UNCHANGED <<accs, ga>>, cache' \in {cache, ga},
           pc' # "idle" => (pc # "idle" /\ seen' = seen) \/ seen' \in {cache, ga},
           pc' = "idle" => calls' = <<>> \/ (pc = "idle" /\ calls' = calls)
    PROVE  Tokens'
  <1>1. HasUID(ga') /\ HasUID(cache') /\ (pc' # "idle" => HasUID(seen')) /\ (pc' = "idle" => calls' = <<>>)
    BY DEF Tokens
  <1>2. /\ DOMAIN accs' = ARNs
        /\ \A a \in Live(accs') : HasToken(accs'[a])
        /\ \A a, b \in Live(accs') : a = b
    BY UnchangedShrinks, ShrinksKeeps
  <1> QED
    BY <1>1, <1>2 DEF Tokens

\* Steps that change the object and end the run.
LEMMA Ends ==
    ASSUME Tokens, UNCHANGED <<accs, cache>>, HasUID(ga'), pc' = "idle", calls' = <<>>
    PROVE  Tokens'
  <1>1. /\ DOMAIN accs' = ARNs
        /\ \A a \in Live(accs') : HasToken(accs'[a])
        /\ \A a, b \in Live(accs') : a = b
    BY UnchangedShrinks, ShrinksKeeps
  <1> QED
    BY <1>1 DEF Tokens

\* Steps that change the accelerators in a run.
LEMMA Calls ==
    ASSUME Tokens, UNCHANGED <<ga, cache>>, pc # "idle", pc' # "idle", seen' = seen,
           DOMAIN accs' = ARNs, \A a \in Live(accs') : HasToken(accs'[a]),
           \A a, b \in Live(accs') : a = b
    PROVE  Tokens'
  BY DEF Tokens

LEMMA RunStep ==
    ASSUME Tokens, Run
    PROVE  Tokens'
  <1>1. CASE Start
    BY <1>1, Beside DEF Start, aws
  <1>2. CASE NothingToDo
    BY <1>2, Beside DEF NothingToDo, aws, memory
  <1>3. CASE AddFinalizers
    <2>1. HasUID([ga EXCEPT !.finalizer = TRUE])
      BY DEF Tokens, HasUID
    <2>2. HasUID(ga') /\ HasUID(seen') /\ pc' = "build" /\ UNCHANGED <<accs, cache>>
      BY <1>3, <2>1 DEF AddFinalizers, aws
    <2>3. /\ DOMAIN accs' = ARNs
          /\ \A a \in Live(accs') : HasToken(accs'[a])
          /\ \A a, b \in Live(accs') : a = b
      BY <2>2, UnchangedShrinks, ShrinksKeeps
    <2> QED
      BY <2>2, <2>3 DEF Tokens
  <1>4. CASE FinalizerThere
    BY <1>4, Beside DEF FinalizerThere, aws
  <1>5. CASE FinalizerRefused
    BY <1>5, Beside DEF FinalizerRefused, Requeue, Done, aws
  <1>6. CASE BuildFails
    <2>1. HasUID(ga')
      BY <1>6, FailureKeepsUID DEF BuildFails, Tokens
    <2> QED
      BY <1>6, <2>1, Ends DEF BuildFails, Requeue, Done, aws
  <1>7. CASE Build
    BY <1>7, Beside DEF Build, aws
  <1>8. CASE AcceleratorDone
    <2>1. pc # "idle" /\ UNCHANGED <<ga, cache>>
      BY <1>8 DEF AcceleratorDone, SynthesizeAccelerator, CreateAccelerator, UpdateAccelerator
    <2> QED
      BY <1>8, <2>1, SynthesizeKeeps, Calls DEF AcceleratorDone
  <1>9. CASE PlanListeners
    BY <1>9, Beside DEF PlanListeners, aws, memory
  <1>10. CASE PlanConflicts
    BY <1>10, Beside DEF PlanConflicts, aws, memory
  <1>11. CASE PlanGroups
    BY <1>11, Beside DEF PlanGroups, aws, memory
  <1>12. CASE UpdateStatusSuccess
    <2>1. HasUID(ga')
      BY <1>12, SuccessKeepsUID DEF UpdateStatusSuccess, Tokens
    <2> QED
      BY <1>12, <2>1, Ends DEF UpdateStatusSuccess, Done, aws
  <1>13. CASE DisableDone
    <2>1. pc # "idle" /\ UNCHANGED <<ga, cache>>
      BY <1>13 DEF DisableDone, Disable
    <2> QED
      BY <1>13, <2>1, DisableShrinks, ShrinksKeeps, Calls DEF DisableDone
  <1>14. CASE RemoveFinalizers
    <2>1. HasUID([ga EXCEPT !.finalizer = FALSE, !.alive = FALSE])
      BY DEF Tokens, HasUID
    <2> QED
      BY <1>14, <2>1, Ends DEF RemoveFinalizers, Done, aws
  <1>15. CASE Issue
    <2>1. pc # "idle" /\ pc' = pc /\ UNCHANGED <<ga, cache>>
      BY <1>15 DEF Issue, Effect, Tokens
    <2> QED
      BY <1>15, <2>1, EffectShrinks, ShrinksKeeps, Calls DEF Issue
  <1>16. CASE FlipFlop
    <2>1. pc # "idle" /\ pc' = pc /\ UNCHANGED <<ga, cache, accs, seen>>
      BY <1>16 DEF FlipFlop, Tokens, aws, memory
    <2> QED
      BY <2>1, Beside
  <1>17. CASE Refused
    <2>1. pc # "idle"
      BY <1>17 DEF Refused, Tokens
    <2>2. HasUID(ga')
      BY <1>17, <2>1, FailedKeepsUID, DeletionKeepsUID DEF Refused, Tokens
    <2> QED
      BY <1>17, <2>2, Ends DEF Refused, Failed, Requeue, Done, aws
  <1>18. CASE ListingRefused
    <2>1. HasUID(ga')
      BY <1>18, FailedKeepsUID DEF ListingRefused, Tokens
    <2> QED
      BY <1>18, <2>1, Ends DEF ListingRefused, Failed, Requeue, Done, aws
  <1>19. CASE GiveUp
    <2>1. HasUID(ga')
      BY <1>19, FailedKeepsUID DEF GiveUp, Tokens
    <2> QED
      BY <1>19, <2>1, Ends DEF GiveUp, Failed, Requeue, Done, aws
  <1> QED
    BY <1>1, <1>2, <1>3, <1>4, <1>5, <1>6, <1>7, <1>8, <1>9, <1>10, <1>11, <1>12, <1>13, <1>14,
       <1>15, <1>16, <1>17, <1>18, <1>19 DEF Run

LEMMA FaultStep ==
    ASSUME Tokens, Fails \/ AnswerLost \/ Crash
    PROVE  Tokens'
  <1>1. CASE Fails
    <2>1. HasUID(ga')
      BY <1>1, FailedKeepsUID DEF Fails, Tokens
    <2> QED
      BY <1>1, <2>1, Ends DEF Fails, Failed, Requeue, Done, aws
  <1>2. CASE AnswerLost
    <2>1. pc # "idle" /\ pc' # "idle" /\ UNCHANGED <<ga, cache>>
      BY <1>2 DEF AnswerLost, Effect, SynthesizeAccelerator, CreateAccelerator, UpdateAccelerator, Disable, Tokens
    <2>2. /\ DOMAIN accs' = ARNs /\ seen' = seen
          /\ \A a \in Live(accs') : HasToken(accs'[a])
          /\ \A a, b \in Live(accs') : a = b
      BY <1>2, EffectShrinks, SynthesizeKeeps, DisableShrinks, ShrinksKeeps DEF AnswerLost
    <2> QED
      BY <2>1, <2>2, Calls
  <1>3. CASE Crash
    BY <1>3, Beside DEF Crash, Requeue, Done, aws
  <1> QED
    BY <1>1, <1>2, <1>3

LEMMA EnvironmentStep ==
    ASSUME Tokens, EditSpec \/ Delete \/ Sync \/ LBChange \/ Resync
    PROVE  Tokens'
  <1>1. CASE EditSpec \/ Delete
    <2>1. HasUID([ga EXCEPT !.gen = @ + 1]) /\ HasUID([ga EXCEPT !.deleting = TRUE, !.alive = ga.finalizer])
      BY DEF Tokens, HasUID
    <2>2. HasUID(ga') /\ UNCHANGED <<cache, accs, pc, seen, calls>>
      BY <1>1, <2>1 DEF EditSpec, Delete, aws, memory
    <2> QED
      BY <2>2, UnchangedShrinks, ShrinksKeeps DEF Tokens
  <1>2. CASE Sync
    BY <1>2, Beside DEF Sync, aws, memory
  <1>3. CASE LBChange \/ Resync
    BY <1>3, Beside DEF LBChange, Resync, aws, memory
  <1> QED
    BY <1>1, <1>2, <1>3

LEMMA AcceleratorStep ==
    ASSUME Tokens, NEW a \in ARNs, AcceleratorDeployed(a) \/ AcceleratorVanishes(a)
    PROVE  Tokens'
  <1>1. CASE AcceleratorDeployed(a)
    <2>1. a \in Live(accs) /\ accs' = [accs EXCEPT ![a] = [accs[a] EXCEPT !.deployed = TRUE]]
      BY <1>1 DEF AcceleratorDeployed, Tokens, Live
    <2>2. HasToken([accs[a] EXCEPT !.deployed = TRUE])
      BY <2>1 DEF Tokens, HasToken
    <2>3. Shrinks
      BY <2>1, <2>2, ChangedShrinks
    <2> QED
      BY <1>1, <2>3, ShrinksKeeps DEF AcceleratorDeployed, Tokens, memory
  <1>2. CASE AcceleratorVanishes(a)
    <2>1. Shrinks
      BY <1>2, RemovedShrinks DEF AcceleratorVanishes
    <2> QED
      BY <1>2, <2>1, ShrinksKeeps DEF AcceleratorVanishes, Tokens, memory
  <1> QED
    BY <1>1, <1>2

LEMMA TokensNext ==
    ASSUME Tokens, [Next]_vars
    PROVE  Tokens'
  <1>1. CASE Next
    BY <1>1, RunStep, FaultStep, EnvironmentStep, AcceleratorStep DEF Next
  <1>2. CASE UNCHANGED vars
    BY <1>2, Beside DEF vars, aws, memory
  <1> QED
    BY <1>1, <1>2

LEMMA TokensInit ==
    ASSUME Init
    PROVE  Tokens
  <1>1. HasUID(ga) /\ cache = ga
    BY DEF Init, HasUID
  <1>2. DOMAIN accs = ARNs /\ Live(accs) = {}
    BY DEF Init, Live
  <1>3. pc = "idle" /\ calls = <<>>
    BY DEF Init
  <1> QED
    BY <1>1, <1>2, <1>3 DEF Tokens

\* However stale the copies are that the controller works on, and whichever calls fail
\* or have their answers lost, every accelerator has the token of the object's UID
\* (IdempotencyToken of accelerator_manager.go), and there is at most one.
THEOREM Invariance == Spec => []Tokens
  <1>1. Spec => Init /\ [][Next]_vars
    BY PTL DEF Spec
  <1> QED
    BY <1>1, TokensInit, TokensNext, PTL

\* The object never has two accelerators, however often the deployment that creates it
\* fails, is cut off or works on a copy without the ARN (accelerator_synthesizer.go,
\* Create with an idempotency token).
THEOREM OneForGood == Spec => []OneAccelerator
  <1>1. ASSUME Tokens
        PROVE  OneAccelerator
    <2>1. CASE Live(accs) = {}
      BY <2>1, FS_EmptySet DEF OneAccelerator
    <2>2. CASE Live(accs) # {}
      <3>1. PICK a : Live(accs) = {a}
        BY <1>1, <2>2 DEF Tokens
      <3>2. Cardinality({a}) = 1
        BY FS_Singleton
      <3> QED
        BY <3>1, <3>2 DEF OneAccelerator
    <2> QED
      BY <2>1, <2>2
  <1> QED
    BY <1>1, Invariance, PTL

=============================================================================
