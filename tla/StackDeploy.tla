---------------------------- MODULE StackDeploy ----------------------------
(***************************************************************************)
(* The deployment of one stack (one Service, Ingress group or Gateway):    *)
(* pkg/deploy/stack_deployer.go and the synthesizers and managers of the   *)
(* security group, target groups, load balancer, listeners and             *)
(* TargetGroupBindings (TGBs) that it runs.                                *)
(*                                                                         *)
(* A synthesizer lists what exists, plans the calls that turn it into what *)
(* the stack wants, and issues them one by one; the first error aborts the *)
(* whole deployment, which is retried from the beginning.  The deletions   *)
(* that must wait for a later resource are issued by PostSynthesize, in    *)
(* the reverse order of the synthesizers.  `calls' holds the calls the     *)
(* current synthesizer still has to issue.  Any call may fail without      *)
(* effect, or take effect and have its answer lost: between two calls the  *)
(* user may edit the object the stack is built from.                       *)
(***************************************************************************)
EXTENDS Integers, FiniteSets, SequencesExt

CONSTANTS
    Configs,     \* what the user may ask for: a stack, and whether the object is being deleted
    LBs,         \* load balancer ARNs
    TGs,         \* target group ARNs
    TGIds,       \* target group resource IDs
    Kinds,       \* immutable settings: an LB's scheme and type, a TG's protocol
    Ports,       \* listener ports
    None,
    MaxChanges,  \* bound: edits of the object
    MaxFaults    \* bound: failed or lost calls

VARIABLES
    sg,          \* the frontend security group: "none", "bare" (no ingress rules yet), "open"
    lbs,         \* load balancers by ARN
    listeners,   \* per load balancer, the target group each port forwards to
    tgs,         \* target groups by ARN
    tgbs,        \* TargetGroupBinding objects by name
    want,        \* the configuration the object asks for now
    pending,     \* the object is in the work queue
    pc,          \* the synthesizer in progress, or "idle"
    d,           \* the stack this run deploys
    calls,       \* calls the synthesizer in progress still has to issue
    lbOf,        \* ARN the LB resource resolved to
    lbMatched,   \* whether that LB existed when the run listed the LBs
    arnOf,       \* ARN each TG resource resolved to
    oldTGs,      \* unmatchedSDKTGs
    oldTGBs,     \* unmatchedK8sTGBs
    changes, faults

cloud == <<sg, lbs, listeners, tgs, tgbs>>
memory == <<lbOf, lbMatched, arnOf, oldTGs, oldTGBs>>
vars == <<cloud, want, pending, pc, d, calls, memory, changes, faults>>

Names == TGIds \X Kinds
NoListeners == [p \in Ports |-> None]
NoStack == [lb |-> None, prot |-> FALSE, sg |-> FALSE, cap |-> FALSE, tgs |-> <<>>, ports |-> <<>>]
Live(f) == {x \in DOMAIN f : f[x] # None}

Init ==
    /\ sg = "none"
    /\ lbs = [l \in LBs |-> None]
    /\ listeners = [l \in LBs |-> NoListeners]
    /\ tgs = [t \in TGs |-> None]
    /\ tgbs = [n \in Names |-> None]
    /\ want \in {c \in Configs : ~c.deleted}
    /\ pending = TRUE
    /\ pc = "idle"
    /\ d = NoStack
    /\ calls = <<>>
    /\ lbOf = None /\ lbMatched = FALSE
    /\ arnOf = [i \in TGIds |-> None]
    /\ oldTGs = {} /\ oldTGBs = {}
    /\ changes = 0
    /\ faults = 0

----------------------------------------------------------------------------
(* Plans: what each synthesizer reads, and the calls it derives from it.   *)

Call(op, x) == <<[op |-> op, x |-> x]>>
ForEach(S, C(_)) == FlattenSeq([k \in 1..Cardinality(S) |-> C(SetToSeq(S)[k])])

\* isSDKTargetGroupRequiresReplacement, isSDKLoadBalancerRequiresReplacement:
\* an immutable setting differs.
TGFits(t) == tgs[t].id \in DOMAIN d.tgs /\ tgs[t].kind = d.tgs[tgs[t].id]
LBFits(l) == lbs[l].kind = d.lb

SGPlan ==
    IF ~d.sg THEN <<>>
    ELSE (IF sg = "none" THEN Call("CreateSG", None) ELSE <<>>) \o Call("ReconcileIngress", None)

\* matchResAndSDKTargetGroups: by resource ID, and only if it need not be replaced.
MatchedTGs == {t \in Live(tgs) : TGFits(t)}
UnmatchedSDKTGs == Live(tgs) \ MatchedTGs
UnmatchedResTGs == DOMAIN d.tgs \ {tgs[t].id : t \in MatchedTGs}
\* Mutant: unmatched target groups are deleted in Synthesize.
TGPlan_deleteFirst ==
    ForEach(UnmatchedSDKTGs, LAMBDA t : Call("DeleteTG", t))
        \o ForEach(UnmatchedResTGs, LAMBDA i : Call("CreateTG", i) \o Call("TGAttributes", i))
        \o ForEach(MatchedTGs, LAMBDA t : Call("UpdateTG", t))

TGPlan ==
    ForEach(UnmatchedResTGs, LAMBDA i : Call("CreateTG", i) \o Call("TGAttributes", i))
        \o ForEach(MatchedTGs, LAMBDA t : Call("UpdateTG", t))

\* Unmatched load balancers are deleted first: "a targetGroup can only attach to one LB".
MatchedLBs == {l \in Live(lbs) : LBFits(l)}
UnmatchedSDKLBs == Live(lbs) \ MatchedLBs
LBPlan ==
    ForEach(UnmatchedSDKLBs, LAMBDA l : Call("DeleteLB", l))
        \o (IF d.lb # None /\ MatchedLBs = {} THEN Call("CreateLB", None) \o Call("LBAttributes", None) ELSE <<>>)
        \o ForEach(MatchedLBs, LAMBDA l : Call("UpdateLB", l) \o Call("LBAttributes", None))

\* Mutant: listeners are replaced instead of modified.
LSPlan_replace ==
    IF lbOf = None THEN <<>>
    ELSE ForEach(Live(listeners[lbOf]), LAMBDA p : Call("DeleteListener", p))
            \o ForEach(DOMAIN d.ports, LAMBDA p : Call("CreateListener", p))

\* synthesizeListenersOnLB, matched by port.
LSPlan ==
    IF lbOf = None THEN <<>>
    ELSE LET sdk == Live(listeners[lbOf])
         IN  ForEach(sdk \ DOMAIN d.ports, LAMBDA p : Call("DeleteListener", p))
                \o ForEach(DOMAIN d.ports \ sdk, LAMBDA p : Call("CreateListener", p))
                \o ForEach(DOMAIN d.ports \cap sdk, LAMBDA p : Call("UpdateListener", p))

\* matchResAndK8sTargetGroupBindings: by target group ARN.
ResARNs == {arnOf[i] : i \in DOMAIN d.tgs}
TGBPlan == ForEach({i \in DOMAIN d.tgs : \A n \in Live(tgbs) : tgbs[n].arn # arnOf[i]},
                   LAMBDA i : Call("CreateTGB", i))
UnmatchedK8sTGBs == {n \in Live(tgbs) : tgbs[n].arn \notin ResARNs}

Plan(k) ==
    CASE k = "sg" -> SGPlan
      [] k = "tg" -> TGPlan
      [] k = "lb" -> LBPlan
      [] k = "ls" -> LSPlan
      [] k = "tgb" -> TGBPlan
      [] k = "posttgb" -> ForEach(oldTGBs, LAMBDA n : Call("DeleteTGB", n) \o Call("WaitTGB", n))
      [] k = "postlb" -> IF lbOf # None /\ (lbMatched \/ d.cap) THEN Call("Capacity", None) ELSE <<>>
      [] k = "posttg" -> ForEach(oldTGs, LAMBDA t : Call("DeleteTG", t))
      [] k = "postsg" -> IF ~d.sg /\ sg # "none" THEN Call("DeleteSG", None) ELSE <<>>

----------------------------------------------------------------------------
(* The run of a deployment. *)

Stages == <<"sg", "tg", "lb", "ls", "tgb", "posttgb", "postlb", "posttg", "postsg">>
StageAfter(k) == Stages[1 + CHOOSE j \in DOMAIN Stages : Stages[j] = k]

\* The object is built into a stack, unless it is deleted with deletion
\* protection still asked for, which is a build error.
BuildModel(c) == IF c.deleted THEN NoStack ELSE c.stack

Begin ==
    /\ pc = "idle" /\ pending
    /\ ~(want.deleted /\ want.stack.prot)
    /\ pending' = FALSE
    /\ d' = BuildModel(want)
    /\ pc' = "start"
    /\ UNCHANGED <<cloud, want, calls, memory, changes, faults>>

\* ... and stays in the queue, to be tried again.
BuildRefused ==
    /\ pc = "idle" /\ pending
    /\ want.deleted /\ want.stack.prot
    /\ UNCHANGED vars

\* Synthesize or PostSynthesize of stage k: list, match, and plan.
Enter(k) ==
    /\ pc' = k
    /\ calls' = Plan(k)
    /\ oldTGs' = IF k = "tg" THEN UnmatchedSDKTGs ELSE oldTGs
    /\ arnOf' = IF k # "tg" THEN arnOf
                ELSE [i \in TGIds |-> IF \E t \in MatchedTGs : tgs[t].id = i
                                      THEN CHOOSE t \in MatchedTGs : tgs[t].id = i ELSE None]
    /\ lbOf' = IF k # "lb" THEN lbOf
               ELSE IF MatchedLBs # {} THEN CHOOSE l \in MatchedLBs : TRUE ELSE None
    /\ lbMatched' = IF k = "lb" THEN MatchedLBs # {} ELSE lbMatched
    /\ oldTGBs' = IF k = "tgb" THEN UnmatchedK8sTGBs ELSE oldTGBs
    /\ UNCHANGED <<cloud, want, pending, d, changes, faults>>

Advance ==
    /\ calls = <<>>
    /\ pc \notin {"idle", "postsg"}
    /\ Enter(IF pc = "start" THEN "sg" ELSE StageAfter(pc))

Finish ==
    /\ pc = "postsg" /\ calls = <<>>
    /\ pc' = "idle"
    /\ UNCHANGED <<cloud, want, pending, d, calls, memory, changes, faults>>

\* An error ends the run; the work queue retries it from the beginning.
Abort ==
    /\ pc' = "idle"
    /\ calls' = <<>>
    /\ pending' = TRUE
    /\ UNCHANGED <<want, d, changes>>

Faulty == faults < MaxFaults /\ faults' = faults + 1

\* A call, a listing or the whole process fails.
RunFails ==
    /\ pc # "idle"
    /\ Faulty /\ Abort
    /\ UNCHANGED <<cloud, memory>>

\* A call is answered, or takes effect and its answer is lost.
Answered == calls' = Tail(calls) /\ UNCHANGED <<want, pending, pc, d, changes, faults>>
Lost == Faulty /\ Abort
Op(op) == calls # <<>> /\ Head(calls).op = op
X == Head(calls).x

----------------------------------------------------------------------------
(* The calls.  Each leaves `memory' as it is unless it creates a resource. *)

CreateSG == Op("CreateSG") /\ sg' = "bare" /\ UNCHANGED <<lbs, listeners, tgs, tgbs, memory>>
ReconcileIngress == Op("ReconcileIngress") /\ sg' = "open" /\ UNCHANGED <<lbs, listeners, tgs, tgbs, memory>>
DeleteSG == Op("DeleteSG") /\ sg' = "none" /\ UNCHANGED <<lbs, listeners, tgs, tgbs, memory>>

\* Target groups are created first and get their attributes by a second call.
CreateTG ==
    /\ Op("CreateTG")
    /\ LET t == CHOOSE t \in TGs : tgs[t] = None
       IN  /\ tgs' = [tgs EXCEPT ![t] = [id |-> X, kind |-> d.tgs[X], attr |-> FALSE]]
           /\ arnOf' = [arnOf EXCEPT ![X] = t]
    /\ UNCHANGED <<sg, lbs, listeners, tgbs, lbOf, lbMatched, oldTGs, oldTGBs>>
SetTGAttributes(t) == tgs' = [tgs EXCEPT ![t].attr = TRUE] /\ UNCHANGED <<sg, lbs, listeners, tgbs, memory>>
TGAttributes == Op("TGAttributes") /\ SetTGAttributes(arnOf[X])
\* Mutant: an existing target group's attributes are not looked at.
UpdateTG_noAttributes == Op("UpdateTG") /\ UNCHANGED <<cloud, memory>>
UpdateTG == Op("UpdateTG") /\ SetTGAttributes(X)
DeleteTG == Op("DeleteTG") /\ tgs' = [tgs EXCEPT ![X] = None] /\ UNCHANGED <<sg, lbs, listeners, tgbs, memory>>

CreateLB ==
    /\ Op("CreateLB")
    /\ LET l == CHOOSE l \in LBs : lbs[l] = None
       IN  /\ lbs' = [lbs EXCEPT ![l] = [kind |-> d.lb, prot |-> FALSE, sg |-> d.sg, active |-> FALSE, cap |-> FALSE]]
           /\ lbOf' = l
    /\ UNCHANGED <<sg, listeners, tgs, tgbs, lbMatched, arnOf, oldTGs, oldTGBs>>
\* Attributes the stack does not name keep their value.
LBAttributes ==
    /\ Op("LBAttributes")
    /\ lbs' = [lbs EXCEPT ![lbOf].prot = @ \/ d.prot]
    /\ UNCHANGED <<sg, listeners, tgs, tgbs, memory>>
UpdateLB ==
    /\ Op("UpdateLB")
    /\ lbs' = [lbs EXCEPT ![X].sg = d.sg]
    /\ UNCHANGED <<sg, listeners, tgs, tgbs, memory>>
Capacity ==
    /\ Op("Capacity")
    /\ lbs[lbOf].active
    /\ lbs' = [lbs EXCEPT ![lbOf].cap = @ \/ d.cap]
    /\ UNCHANGED <<sg, listeners, tgs, tgbs, memory>>

\* Deleting a load balancer deletes its listeners.
RemoveLB(l) ==
    /\ lbs' = [lbs EXCEPT ![l] = None]
    /\ listeners' = [listeners EXCEPT ![l] = NoListeners]
    /\ UNCHANGED <<sg, tgs, tgbs, memory>>
DeleteLB == Op("DeleteLB") /\ ~lbs[X].prot /\ RemoveLB(X)
DeleteLBAgain == Op("DeleteLBAgain") /\ ~lbs[X].prot /\ RemoveLB(X)
DisableProtection ==
    /\ Op("DisableProtection")
    /\ lbs' = [lbs EXCEPT ![X].prot = FALSE]
    /\ UNCHANGED <<sg, listeners, tgs, tgbs, memory>>

SetListener(p, t) ==
    listeners' = [listeners EXCEPT ![lbOf][p] = t] /\ UNCHANGED <<sg, lbs, tgs, tgbs, memory>>
DeleteListener == Op("DeleteListener") /\ SetListener(X, None)
CreateListener == Op("CreateListener") /\ SetListener(X, arnOf[d.ports[X]])
UpdateListener == Op("UpdateListener") /\ SetListener(X, arnOf[d.ports[X]])

\* A binding is named like its target group; the API server refuses a taken name.
CreateTGB ==
    /\ Op("CreateTGB")
    /\ LET n == <<X, d.tgs[X]>>
       IN  /\ tgbs[n] = None
           /\ tgbs' = [tgbs EXCEPT ![n] = [arn |-> arnOf[X], deleting |-> FALSE]]
    /\ UNCHANGED <<sg, lbs, listeners, tgs, memory>>
DeleteTGB ==
    /\ Op("DeleteTGB") /\ tgbs[X] # None
    /\ tgbs' = [tgbs EXCEPT ![X].deleting = TRUE]
    /\ UNCHANGED <<sg, lbs, listeners, tgs, memory>>
\* waitUntilTargetGroupBindingDeleted
WaitTGB == Op("WaitTGB") /\ tgbs[X] = None /\ UNCHANGED <<cloud, memory>>

----------------------------------------------------------------------------
(* Calls that are refused. *)

\* A protected load balancer is not deleted: the protection is turned off,
\* the result of that call is ignored, and the deletion tried once more.
DeleteLBRefused ==
    /\ Op("DeleteLB") /\ lbs[X].prot
    /\ calls' = Call("DisableProtection", X) \o Call("DeleteLBAgain", X) \o Tail(calls)
    /\ UNCHANGED <<cloud, want, pending, pc, d, memory, changes, faults>>
DisableProtectionFails ==
    /\ Op("DisableProtection")
    /\ Faulty
    /\ calls' = Tail(calls)
    /\ UNCHANGED <<cloud, want, pending, pc, d, memory, changes>>
\* ... and refused once more.
StillProtected == Op("DeleteLBAgain") /\ lbs[X].prot /\ Abort /\ UNCHANGED <<cloud, memory, faults>>
\* NotFound: the binding went away after it was listed.
TGBGoneBefore == Op("DeleteTGB") /\ tgbs[X] = None /\ Abort /\ UNCHANGED <<cloud, memory, faults>>
\* The load balancer is still being provisioned: requeue.
RequeueProvisioning == Op("Capacity") /\ ~lbs[lbOf].active /\ Abort /\ UNCHANGED <<cloud, memory, faults>>

----------------------------------------------------------------------------
(* The environment. *)

\* The TargetGroupBinding controller releases a deleted binding.
TGBGone(n) ==
    /\ tgbs[n] # None /\ tgbs[n].deleting
    /\ tgbs' = [tgbs EXCEPT ![n] = None]
    /\ UNCHANGED <<sg, lbs, listeners, tgs, want, pending, pc, d, calls, memory, changes, faults>>

Provisioned(l) ==
    /\ lbs[l] # None /\ ~lbs[l].active
    /\ lbs' = [lbs EXCEPT ![l].active = TRUE]
    /\ UNCHANGED <<sg, listeners, tgs, tgbs, want, pending, pc, d, calls, memory, changes, faults>>

\* The user edits or deletes the object.  A deletion is final.
Edit(c) ==
    /\ changes < MaxChanges
    /\ c # want /\ (want.deleted => c.deleted)
    /\ want' = c
    /\ pending' = TRUE
    /\ changes' = changes + 1
    /\ UNCHANGED <<cloud, pc, d, calls, memory, faults>>

\* The periodic resync queues every object again.
Resync ==
    /\ pc = "idle" /\ ~pending
    /\ pending' = TRUE
    /\ UNCHANGED <<cloud, want, pc, d, calls, memory, changes, faults>>

SGCall == CreateSG \/ ReconcileIngress \/ DeleteSG
TGCall == CreateTG \/ TGAttributes \/ UpdateTG \/ DeleteTG
LBCall == CreateLB \/ LBAttributes \/ UpdateLB \/ Capacity \/ DeleteLB \/ DisableProtection \/ DeleteLBAgain
LSCall == DeleteListener \/ CreateListener \/ UpdateListener
TGBCall == CreateTGB \/ DeleteTGB \/ WaitTGB
ACall == SGCall \/ TGCall \/ LBCall \/ LSCall \/ TGBCall
Refusal == DeleteLBRefused \/ StillProtected \/ TGBGoneBefore \/ RequeueProvisioning

RunStep ==
    \/ Begin
    \/ BuildRefused
    \/ Advance
    \/ Finish
    \/ ACall /\ Answered
    \/ Refusal

Fault ==
    \/ RunFails
    \/ ACall /\ Lost
    \/ DisableProtectionFails

Next ==
    \/ RunStep
    \/ Fault
    \/ \E n \in Names : TGBGone(n)
    \/ \E l \in LBs : Provisioned(l)
    \/ \E c \in Configs : Edit(c)
    \/ Resync

Spec == Init /\ [][Next]_vars

\* The worker goes on with a run it has begun and with a queue that is not
\* empty; the TGB controller, AWS and the resync timer do their part.
Fairness ==
    /\ WF_vars(RunStep)
    /\ WF_vars(Resync)
    /\ \A n \in Names : WF_vars(TGBGone(n))
    /\ \A l \in LBs : WF_vars(Provisioned(l))

FairSpec == Spec /\ Fairness

----------------------------------------------------------------------------
(* Properties. *)

Forwards(l) == {listeners[l][p] : p \in Live(listeners[l])}

\* The comment in loadBalancerSynthesizer.Synthesize: "a targetGroup can only
\* attach to one LB".  Whatever runs failed before, no two load balancers
\* forward to the same target group.
TargetGroupOnOneLB ==
    \A l, m \in LBs : l # m => Forwards(l) \cap Forwards(m) = {}

\* A listener never forwards to, and a binding never points at, a target group
\* that does not exist: target groups are deleted in PostSynthesize, after the
\* listeners were modified and the bindings are known to be gone.
ReferencesExist ==
    /\ \A l \in LBs : Forwards(l) \subseteq Live(tgs)
    /\ \A n \in Live(tgbs) : tgbs[n].arn \in Live(tgs)

\* The security group is not deleted while a load balancer carries it.
SecurityGroupInUse == \A l \in Live(lbs) : lbs[l].sg => sg # "none"

\* The cloud is what the stack s asks for, the bindings aside.
DeployedAs(s) ==
    /\ sg = IF s.sg THEN "open" ELSE "none"
    /\ {lbs[l].kind : l \in Live(lbs)} = {s.lb} \ {None}
    /\ Cardinality(Live(lbs)) <= 1
    /\ \A l \in Live(lbs) :
        /\ lbs[l].sg = s.sg /\ (s.prot => lbs[l].prot) /\ (s.cap => lbs[l].cap)
        /\ Live(listeners[l]) = DOMAIN s.ports
        /\ \A p \in DOMAIN s.ports : tgs[listeners[l][p]].id = s.ports[p]
    /\ {<<tgs[t].id, tgs[t].kind>> : t \in Live(tgs)} = {<<i, s.tgs[i]>> : i \in DOMAIN s.tgs}
    /\ Cardinality(Live(tgs)) = Cardinality(DOMAIN s.tgs)
    /\ \A t \in Live(tgs) : tgs[t].attr

BoundAs(s) ==
    /\ Live(tgbs) = {<<i, s.tgs[i]>> : i \in DOMAIN s.tgs}
    /\ \A n \in Live(tgbs) : ~tgbs[n].deleting /\ tgs[tgbs[n].arn].id = n[1]

\* A run that ends without an error has deployed exactly its stack, whatever
\* earlier runs were cut short: what they left is adopted and completed and not
\* created a second time, nothing of another configuration is left, and
\* no binding is left for a target group the stack has not.
Converged ==
    pc = "postsg" /\ calls = <<>> =>
        DeployedAs(d) /\ \A n \in Live(tgbs) : n[1] \in DOMAIN d.tgs /\ n[2] = d.tgs[n[1]]

\* What the deployed stack wants is never taken away on the way there: a run
\* deletes a listener, a target group or a binding only if its stack has none,
\* or only one that needs another immutable setting.
KeepsWanted ==
    /\ \A l \in LBs, p \in Ports :
         listeners[l][p] # None /\ listeners'[l][p] = None => p \notin DOMAIN d.ports \/ lbs[l].kind # d.lb
    /\ \A t \in Live(tgs) : tgs'[t] = None => ~TGFits(t)
    /\ \A n \in Live(tgbs) :
         ~tgbs[n].deleting /\ tgbs'[n] # None /\ tgbs'[n].deleting => tgbs[n].arn \notin ResARNs

\* The cloud is what the object asks for, its bindings included; unless the
\* object is deleted while deletion protection is asked for, which the model
\* builder refuses.
Deployed ==
    LET s == BuildModel(want) IN (want.deleted /\ want.stack.prot) \/ (DeployedAs(s) /\ BoundAs(s))

============================================================================
