---------------------------- MODULE MCBackendSG ----------------------------
(* Instances of BackendSG for TLC.                                         *)
EXTENDS BackendSG, TLC

CONSTANTS g1, g2, o1, o2

\* Each object belongs to one group, as Services, Gateways and Ingresses that
\* stay in their group do.
OneHome == (o1 :> {g1}) @@ (o2 :> {g2})
=============================================================================
