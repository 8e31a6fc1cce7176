--------------------------- MODULE IngressServing ---------------------------
(* What the Ingress controller promises its users, without finalizers, caches *)
(* or queues: load balancers are only ever given Ingresses that exist, and an *)
(* Ingress does not vanish from the cluster while a load balancer still       *)
(* serves it.  IngressGroups implements this specification.                   *)
EXTENDS FiniteSets

CONSTANTS
  Ingresses,      \* the Ingresses users create
  Groups          \* the IngressGroups, one load balancer each

VARIABLES
  present,        \* the Ingresses in the cluster
  served          \* served[g]: the Ingresses the load balancer of g serves

vars == <<present, served>>

Init ==
  /\ present \in SUBSET Ingresses
  /\ served = [g \in Groups |-> {}]

(* A user creates an Ingress. *)
Appear(i) ==
  /\ i \notin present
  /\ present' = present \cup {i}
  /\ UNCHANGED served

(* The controller gives the load balancer of g another set of Ingresses. *)
Deploy(g) ==
  \E S \in SUBSET present :
     /\ served' = [served EXCEPT ![g] = S]
     /\ UNCHANGED present

(* An Ingress leaves the cluster. *)
Vanish(i) ==
  /\ i \in present
  /\ \A g \in Groups : i \notin served[g]
  /\ present' = present \ {i}
  /\ UNCHANGED served

Next ==
  \/ \E i \in Ingresses : Appear(i) \/ Vanish(i)
  \/ \E g \in Groups : Deploy(g)

Spec == Init /\ [][Next]_vars
=============================================================================
