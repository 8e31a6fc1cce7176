------------------------------- MODULE MCDeploy -------------------------------
(* What changes AWS after a stack is built, in one state space: `which` says    *)
(* whether the controller deploys a stack (StackDeploy), requests and deletes   *)
(* its certificates (Certificates), brings the rules of one listener to those   *)
(* of the stack (ListenerRules), or opens the ports of the targets              *)
(* (Networking).  A part leaves the variables of the others alone.              *)
EXTENDS Integers, FiniteSets, Sequences, TLC

CONSTANTS
    Parts,            \* those to consider
    NetworkSettings,  \* those of Networking to consider
    None

VARIABLES
    which, pc, changes, faults,
    sg, lbs, listeners, tgs, tgbs, want, pending, d, calls, lbOf, lbMatched, arnOf, oldTGs, oldTGBs,
    listener, desired, plan, count, maxRules, runs,
    setting, tgb, need, queued, aws, run, comp, snap, permsByTGB, tracked, initialized, cache, sect, granted, restarts,
    wanted, dirty, acm, dns, attached, issuing, edits, arns

stackVars == <<sg, lbs, listeners, tgs, tgbs, want, pending, d, calls, lbOf, lbMatched, arnOf, oldTGs, oldTGBs>>
ruleVars == <<listener, desired, plan, count, maxRules, runs>>
networkVars == <<setting, tgb, need, queued, aws, run, comp, snap, permsByTGB, tracked, initialized, cache, sect, granted, restarts>>
certVars == <<wanted, dirty, acm, dns, attached, issuing, edits, arns>>
vars == <<which, pc, changes, faults, stackVars, ruleVars, networkVars, certVars>>

-------------------------------------------------------------------------------
\* An ALB or NLB with one listener; the same with another target protocol, a
\* second target group and the security group of the user; one of another
\* scheme with deletion protection and a capacity reservation; and a Gateway
\* without listeners.
Plain == [lb |-> "x", prot |-> FALSE, sg |-> TRUE, cap |-> FALSE, tgs |-> (1 :> "x"), ports |-> (80 :> 1)]
Grown == [lb |-> "x", prot |-> FALSE, sg |-> FALSE, cap |-> FALSE,
          tgs |-> (1 :> "y" @@ 2 :> "x"), ports |-> (80 :> 1 @@ 443 :> 2)]
Moved == [lb |-> "y", prot |-> TRUE, sg |-> TRUE, cap |-> TRUE, tgs |-> (1 :> "x"), ports |-> (443 :> 1)]
Bare == [lb |-> "y", prot |-> FALSE, sg |-> FALSE, cap |-> FALSE, tgs |-> <<>>, ports |-> <<>>]
Stacks == [stack : {Plain, Grown, Moved, Bare}, deleted : {FALSE}] \cup [stack : {Plain, Moved}, deleted : {TRUE}]

Stack ==
    INSTANCE StackDeploy WITH Configs <- Stacks, LBs <- {"l1", "l2"}, TGs <- {"t1", "t2", "t3", "t4"}, TGIds <- {1, 2},
                              Kinds <- {"x", "y"}, Ports <- {80, 443}, MaxChanges <- 2, MaxFaults <- 2

\* Reordering, replacing, duplicates, growth past the limit of three, and none;
\* xa and xb are one condition with two backends.
Desired == {<<"xa", "y">>, <<"y", "xb">>, <<"z", "xb", "y">>, <<"y", "y">>, <<"xa", "z", "y">>, <<"z">>,
            <<"z", "y", "xa", "xb">>, <<>>}

Listener ==
    INSTANCE ListenerRules WITH Configs <- Desired, Settings <- {"xa", "xb", "y", "z"}, Rules <- {"r1", "r2", "r3"},
                                Last <- 8, MaxRuns <- 3, MaxFaults <- 2

ASSUME ListenerAssumption == Listener!ConstantsAssumption

\* Pods on one group or both, on a low, a high or both ports.
SomeNeeds == {("s1" :> {1} @@ "s2" :> {}), ("s1" :> {2} @@ "s2" :> {}), ("s1" :> {1, 3} @@ "s2" :> {2})}
\* A rule of the user's that happens to be one we may want, and one we do not.
UserRules == ("s1" :> {[lo |-> 2, hi |-> 2, ours |-> FALSE]} @@ "s2" :> {[lo |-> 3, hi |-> 3, ours |-> FALSE]})

Usual == [restricted |-> TRUE, multi |-> FALSE, lost |-> FALSE, limit |-> 5, faults |-> 0, restarts |-> 1]
Ordered == {Usual,
            [Usual EXCEPT !.restricted = FALSE, !.faults = 1, !.restarts = 0],
            [Usual EXCEPT !.limit = 2, !.restarts = 0],
            [Usual EXCEPT !.multi = TRUE, !.lost = TRUE, !.faults = 1, !.restarts = 0]}
Racing == {[Usual EXCEPT !.multi = TRUE, !.restarts = 0]}

Network ==
    INSTANCE Networking WITH TGBs <- {"t1", "t2"}, Initial <- {"t1"}, SGs <- {"s1", "s2"}, Tagged <- {"s1", "s2"},
                             Ports <- {1, 2, 3}, Needs <- SomeNeeds, Foreign <- UserRules,
                             Settings <- NetworkSettings, MaxChanges <- 2

ASSUME NetworkAssumption == Network!ConstantsAssumption

\* An Ingress without hosts, with one, with two; two Ingresses of one host; and a
\* private authority.
Public(hosts) == [type |-> "public", hosts |-> hosts]
CertStacks == {<<>>, (1 :> Public({"g"})), (1 :> Public({"g", "h"})), (1 :> Public({"g"}) @@ 2 :> Public({"g"})),
               (3 :> [type |-> "private", hosts |-> {"g"}])}

Certs ==
    INSTANCE Certificates WITH Stacks <- CertStacks, MaxEdits <- 2, MaxFaults <- 1, listener <- attached, run <- issuing

-------------------------------------------------------------------------------
NoStack ==
    /\ sg = None /\ lbs = None /\ listeners = None /\ tgs = None /\ tgbs = None /\ want = None /\ pending = None
    /\ d = None /\ calls = None /\ lbOf = None /\ lbMatched = None /\ arnOf = None /\ oldTGs = None /\ oldTGBs = None
NoListener == listener = None /\ desired = None /\ plan = None /\ count = None /\ maxRules = None /\ runs = None
NoNetwork ==
    /\ setting = None /\ tgb = None /\ need = None /\ queued = None /\ aws = None /\ run = None /\ comp = None
    /\ snap = None /\ permsByTGB = None /\ tracked = None /\ initialized = None /\ cache = None /\ sect = None
    /\ granted = None /\ restarts = None
NoCerts ==
    /\ wanted = None /\ dirty = None /\ acm = None /\ dns = None
    /\ attached = None /\ issuing = None /\ edits = None /\ arns = None

Init ==
    /\ which \in Parts
    /\ \/ which = "stack" /\ Stack!Init /\ NoListener /\ NoNetwork /\ NoCerts
       \/ which = "listener" /\ Listener!Init /\ changes = None /\ NoStack /\ NoNetwork /\ NoCerts
       \/ which = "network" /\ Network!Init /\ pc = None /\ NoStack /\ NoListener /\ NoCerts
       \/ which = "certificates" /\ Certs!Init /\ pc = None /\ changes = None /\ NoStack /\ NoListener /\ NoNetwork

InStack(A) == which = "stack" /\ A /\ UNCHANGED <<which, ruleVars, networkVars, certVars>>
InListener(A) == which = "listener" /\ A /\ UNCHANGED <<which, changes, stackVars, networkVars, certVars>>
InNetwork(A) == which = "network" /\ A /\ UNCHANGED <<which, pc, stackVars, ruleVars, certVars>>
InCerts(A) == which = "certificates" /\ A /\ UNCHANGED <<which, pc, changes, stackVars, ruleVars, networkVars>>

Next == InStack(Stack!Next) \/ InListener(Listener!Next) \/ InNetwork(Network!Next) \/ InCerts(Certs!Next)

\* The fairness of StackDeploy, ListenerRules and Certificates, for the part that
\* runs: ACM issues a certificate once its records are there, and time passes.
Fairness ==
    /\ WF_vars(InStack(Stack!RunStep)) /\ WF_vars(InStack(Stack!Resync))
    /\ WF_vars(InStack(\E n \in Stack!Names : Stack!TGBGone(n)))
    /\ WF_vars(InStack(\E l \in {"l1", "l2"} : Stack!Provisioned(l)))
    /\ WF_vars(InListener(Listener!Synthesize))
    /\ WF_vars(InCerts(Certs!Deploy))
    /\ WF_vars(InCerts(\E a \in DOMAIN acm : Certs!Issue(a)))
    /\ WF_vars(InCerts(\E a \in DOMAIN acm : Certs!Age(a)))

Spec == Init /\ [][Next]_vars /\ Fairness

-------------------------------------------------------------------------------
(* Properties                                                                   *)

\* ELB accepts every call of the rule synthesizer: none asks for a priority that
\* another rule has, and a run gives up for want of room only when more rules are
\* wanted than a listener may have.
RulesAccepted == which = "listener" => Listener!UniquePriorities /\ Listener!RefusedOnlyIfTooMany

\* What is deployed and stays wanted is never taken away on the way: not a rule
\* of a listener, and no listener, target group or binding of a stack.
WantedStays ==
    [][(which = "stack" => Stack!KeepsWanted) /\ (which = "listener" => Listener!WantedRulesStay')]_vars

\* What ends without an error is done: a stack is deployed exactly, whatever
\* earlier runs left; a listener has the desired rules at their priorities and no
\* other; a security group has the desired rules, and a user's rules are kept; a
\* listener has an issued certificate of every Ingress that asks for one, and no
\* certificate outlives its Ingress.
Converged ==
    /\ which = "stack" => Stack!Converged
    /\ which = "listener" => Listener!Converged
    /\ which = "network" => Network!Reconciled /\ Network!ForeignKept
    /\ which = "certificates" => Certs!Converged

\* Whatever runs failed before, nothing refers to what is gone or is another's:
\* listeners and bindings have their target groups, a target group is on one load
\* balancer ("a targetGroup can only attach to one LB",
\* load_balancer_synthesizer.go), a load balancer has its security group; and no
\* certificate is deleted that the listener still uses.
NoDanglingReference ==
    /\ which = "certificates" => Certs!ReferencesExist
    /\ which = "stack" => Stack!TargetGroupOnOneLB /\ Stack!ReferencesExist /\ Stack!SecurityGroupInUse

\* Once edits and faults stop, the cloud becomes and remains what the object asks
\* for; and the runs of the rule synthesizer, which creates and deletes in turn and
\* is started MaxRuns times, come to their end.
EventuallyDeployed ==
    <>[]CASE which = "stack" -> Stack!Deployed
          [] which = "certificates" -> Certs!Deployed
          [] which = "listener" -> pc = "idle"
          [] which = "network" -> TRUE

\* No step of the networking manager closes a port of a TGB that is in service.
CoverageKept == [][which = "network" => Network!KeepsCoverage]_vars

\* "ReconcileIngress will reconcile Ingress permission on SecurityGroup to be
\* desiredPermission" (security_group_reconciler.go): when it returns without an
\* error, the security group has every desired rule.
DesiredGranted == which = "network" => Network!DesiredGranted
=============================================================================
