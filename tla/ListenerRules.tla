--------------------------- MODULE ListenerRules ---------------------------
(***************************************************************************)
(* The rules of one ALB listener: how the listener rule synthesizer brings *)
(* them from whatever an earlier run left to the desired ones, one ELBV2   *)
(* call at a time, on a listener that serves traffic meanwhile.            *)
(*                                                                         *)
(* A rule is its settings (conditions, actions and transforms) at a        *)
(* priority.  The model builder numbers the rules it wants from 1, so the  *)
(* desired rules are a sequence of settings.                               *)
(***************************************************************************)
EXTENDS Naturals, Integers, FiniteSets, Sequences

CONSTANTS
    Configs,   \* desired configurations: sequences of settings
    Settings,  \* conditions with actions and transforms
    Rules,     \* rule ARNs; there are as many as the listener may have
    None,      \* no rule
    Last,      \* the last priority, 50000; beyond the rules wanted and those there
    MaxRuns, MaxFaults

\* The rules wanted and those there do not reach the last priority, so that the last
\* ones are free for the rules to be deleted; None is not a rule.
ConstantsAssumption ==
    /\ IsFiniteSet(Rules) /\ None \notin Rules
    /\ Configs \subseteq Seq(Settings)
    /\ Last \in Nat /\ \A d \in Configs : Len(d) + Cardinality(Rules) <= Last
    /\ None \notin [set : Settings, prio : 1 .. Last]

Indices == UNION {DOMAIN d : d \in Configs}

VARIABLES
    listener,  \* ELB: the settings and the priority of each rule, or None
    desired,   \* the configuration of the run
    pc,        \* the step of the synthesizer
    plan,      \* what the run has to do, see matchResAndSDKListenerRules
    count, maxRules, \* ruleCounter and maxRules of createAndDeleteRules
    runs, faults

vars == <<listener, desired, pc, plan, count, maxRules, runs, faults>>

Present == {r \in Rules : listener[r] # None}
Free == Rules \ Present

\* old: the rules listed; move, modify: the rule for each index matched by settings
\* or by priority, None for the others; create: the indices left, in order; delete:
\* the rules left, by priority.
NoPlan == [old |-> [r \in Rules |-> None], move |-> <<>>, modify |-> <<>>,
           create |-> <<>>, delete |-> <<>>]

Init ==
    /\ listener = [r \in Rules |-> None]
    /\ desired = <<>> /\ pc = "idle" /\ plan = NoPlan
    /\ count = 0 /\ maxRules = -1
    /\ runs = 0 /\ faults = 0

-----------------------------------------------------------------------------
(***************************************************************************)
(* Matching.                                                               *)
(***************************************************************************)
\* Settings are matched first, each rule at most once; in which order ELB lists
\* rules with the same settings is open.
matchesBySettings(d) ==
    {m \in [DOMAIN d -> Present \cup {None}] :
        /\ \A i \in DOMAIN d : m[i] # None => listener[m[i]].set = d[i]
        /\ \A i, j \in DOMAIN d : m[i] = m[j] /\ m[i] # None => i = j
        /\ \A i \in DOMAIN d, r \in Present :
             m[i] = None /\ listener[r].set = d[i] => \E j \in DOMAIN d : m[j] = r}

\* The elements of a set of rules, or of indices, in ascending order.
byPriority(rs) ==
    CHOOSE q \in [1..Cardinality(rs) -> rs] :
        \A a, b \in 1..Cardinality(rs) : a < b => listener[q[a]].prio < listener[q[b]].prio
ascending(is) ==
    CHOOSE q \in [1..Cardinality(is) -> is] :
        \A a, b \in 1..Cardinality(is) : a < b => q[a] < q[b]

\* What settings leave over is matched by priority, to be modified in place; the rest
\* is created and deleted.
matchResAndSDKListenerRules(d, m) ==
    LET res == {i \in DOMAIN d : m[i] = None}
        sdk == {r \in Present : \A i \in DOMAIN d : m[i] # r}
        at(i) == {r \in sdk : listener[r].prio = i}
        left == {i \in res : at(i) = {}}
        gone == {r \in sdk : listener[r].prio \notin res}
    IN  [old |-> listener,
         move |-> [i \in DOMAIN d |->
                     IF m[i] # None /\ listener[m[i]].prio # i THEN m[i] ELSE None],
         modify |-> [i \in DOMAIN d |->
                       IF i \in res \ left THEN CHOOSE r \in at(i) : TRUE ELSE None],
         create |-> ascending(left),
         delete |-> byPriority(gone)]

-----------------------------------------------------------------------------
(***************************************************************************)
(* One run of synthesizeListenerRulesOnListener.                           *)
(***************************************************************************)
moving(p) == {i \in DOMAIN p.move : p.move[i] # None}
modifying(p) == {i \in DOMAIN p.modify : p.modify[i] # None}

Start(d) ==
    /\ pc = "idle" /\ runs < MaxRuns /\ runs' = runs + 1
    /\ desired' = d
    /\ \E m \in matchesBySettings(d) : plan' = matchResAndSDKListenerRules(d, m)
    /\ pc' = IF moving(plan') # {} THEN "move" ELSE "modify"
    /\ count' = Cardinality(Present) /\ maxRules' = -1
    /\ UNCHANGED <<listener, faults>>

\* Rules to be deleted are pushed down to the last priorities, in their order.
buildSDKSetRulePrioritiesInput_noPush(r) ==
    IF \E i \in moving(plan) : plan.move[i] = r
    THEN CHOOSE i \in moving(plan) : plan.move[i] = r
    ELSE listener[r].prio

buildSDKSetRulePrioritiesInput(r) ==
    IF \E i \in moving(plan) : plan.move[i] = r
    THEN CHOOSE i \in moving(plan) : plan.move[i] = r
    ELSE IF \E k \in DOMAIN plan.delete : plan.delete[k] = r
    THEN Last - Len(plan.delete) + (CHOOSE k \in DOMAIN plan.delete : plan.delete[k] = r)
    ELSE listener[r].prio

prioritized ==
    [r \in Rules |-> IF r \in Present
                     THEN [listener[r] EXCEPT !.prio = buildSDKSetRulePrioritiesInput(r)]
                     ELSE None]

SetRulePriorities ==
    /\ pc = "move"
    /\ listener' = prioritized
    /\ pc' = "modify"
    /\ UNCHANGED <<desired, plan, count, maxRules, runs, faults>>

modified(i) == [listener EXCEPT ![plan.modify[i]].set = desired[i]]

\* Pairs are modified in the order of their priorities.
UpdateRules(i) ==
    /\ pc = "modify" /\ i \in modifying(plan) /\ \A j \in modifying(plan) : i <= j
    /\ listener' = modified(i)
    /\ plan' = [plan EXCEPT !.modify[i] = None]
    /\ UNCHANGED <<desired, pc, count, maxRules, runs, faults>>

ModifiedAll ==
    /\ pc = "modify" /\ modifying(plan) = {}
    /\ pc' = "cycle"
    /\ UNCHANGED <<listener, desired, plan, count, maxRules, runs, faults>>

toCreate == pc = "cycle" /\ plan.create # <<>> /\ count # maxRules

toDelete == pc = "cycle" /\ ~toCreate /\ plan.delete # <<>>

created(r) == [listener EXCEPT ![r] = [set |-> desired[Head(plan.create)],
                                       prio |-> Head(plan.create)]]

CreateRule(r) ==
    /\ toCreate
    /\ r \in Free
    /\ listener' = created(r)
    /\ plan' = [plan EXCEPT !.create = Tail(@)]
    /\ count' = count + 1
    /\ UNCHANGED <<desired, pc, maxRules, runs, faults>>

\* TooManyRules, for the first time.
createTooMany ==
    /\ toCreate /\ Free = {} /\ maxRules = -1
    /\ maxRules' = count
    /\ UNCHANGED <<listener, desired, pc, plan, count, runs, faults>>

\* TooManyRules again, or nothing left to delete: the run fails.
tooManyAttached ==
    /\ pc = "cycle" /\ plan.create # <<>>
    /\ \/ toCreate /\ Free = {} /\ maxRules # -1
       \/ ~toCreate /\ plan.delete = <<>>

createRefused ==
    /\ tooManyAttached
    /\ pc' = "idle"
    /\ UNCHANGED <<listener, desired, plan, count, maxRules, runs, faults>>

deleted == [listener EXCEPT ![Head(plan.delete)] = None]

DeleteRule ==
    /\ toDelete
    /\ listener' = deleted
    /\ plan' = [plan EXCEPT !.delete = Tail(@)]
    /\ count' = count - 1
    /\ UNCHANGED <<desired, pc, maxRules, runs, faults>>

\* The tags of the rules, which no property looks at, are reconciled last.
CycleDone ==
    /\ pc = "cycle" /\ plan.create = <<>> /\ plan.delete = <<>>
    /\ pc' = "tags"
    /\ UNCHANGED <<listener, desired, plan, count, maxRules, runs, faults>>

UpdateRulesTags ==
    /\ pc = "tags"
    /\ pc' = "idle"
    /\ UNCHANGED <<listener, desired, plan, count, maxRules, runs, faults>>

-----------------------------------------------------------------------------
\* A call fails, before or after it took effect, or the process stops.
Abort ==
    /\ pc # "idle" /\ faults < MaxFaults /\ faults' = faults + 1
    /\ pc' = "idle"
    /\ \/ UNCHANGED listener
       \/ pc = "move" /\ listener' = prioritized
       \/ \E i \in modifying(plan) :
            pc = "modify" /\ (\A j \in modifying(plan) : i <= j) /\ listener' = modified(i)
       \/ \E r \in Free : toCreate /\ listener' = created(r)
       \/ toDelete /\ listener' = deleted
    /\ UNCHANGED <<desired, plan, count, maxRules, runs>>

Synthesize ==
    \/ SetRulePriorities
    \/ \E i \in Indices : UpdateRules(i)
    \/ ModifiedAll
    \/ \E r \in Rules : CreateRule(r)
    \/ createTooMany \/ createRefused \/ DeleteRule \/ CycleDone \/ UpdateRulesTags

Next == (\E d \in Configs : Start(d)) \/ Synthesize \/ Abort

Spec == Init /\ [][Next]_vars

FairSpec == Spec /\ WF_vars(Synthesize)

-----------------------------------------------------------------------------
(***************************************************************************)
(* Properties.                                                             *)
(***************************************************************************)
\* No call ever asks ELB for a priority another rule has, which it would refuse
\* (PriorityInUse): not when rules swap places, nor when they are pushed down again
\* by the run after a failed one.
UniquePriorities ==
    \A q, r \in Present : listener[q].prio = listener[r].prio => q = r

copies(f, s) == Cardinality({r \in Rules : f[r] # None /\ f[r].set = s})
wanted(s) == Cardinality({i \in DOMAIN desired : desired[i] = s})
Least(a, b) == IF a <= b THEN a ELSE b

\* A rule that is on the listener and stays wanted is there all through the run:
\* it is moved, never recreated (matchResAndSDKListenerRules).
WantedRulesStay ==
    pc # "idle" => \A s \in Settings :
                     copies(listener, s) >= Least(copies(plan.old, s), wanted(s))

\* A run that gets to the tags has brought the listener to the desired rules, each
\* at its priority, and left no other.
Converged ==
    pc = "tags" =>
        /\ Cardinality(Present) = Len(desired)
        /\ \A i \in DOMAIN desired : \E r \in Present : listener[r] = [set |-> desired[i], prio |-> i]

\* The run gives up for want of room only when more rules are wanted than a
\* listener may have, however many it had before.
RefusedOnlyIfTooMany == tooManyAttached => Len(desired) > Cardinality(Rules)

=============================================================================
