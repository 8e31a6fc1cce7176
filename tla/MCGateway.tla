----------------------------- MODULE MCGateway -----------------------------
(***************************************************************************)
(* Instances of Gateway for TLC.                                           *)
(***************************************************************************)
EXTENDS Gateway, TLC

CONSTANTS g1, g2, s1, c1, waf, shield

OneGateway == {g1}
TwoGateways == {g1, g2}
OneService == {s1}
OneConfig == {c1}
OneAddon == {waf}
Nothing == {}
TwoAddons == {waf, shield}

Bare == [gateways |-> {g1, g2}, services |-> {}, configs |-> {}, addons |-> {},
         dryRun |-> FALSE, reconf |-> FALSE, faults |-> 1, restarts |-> 1]

\* Two Gateways share a service; one Gateway has every feature; two share an LBC.
SharedService == [Bare EXCEPT !.services = {s1}, !.restarts = 0]
Features(g) == [Bare EXCEPT !.gateways = {g}, !.configs = {c1}, !.addons = {waf, shield},
                            !.dryRun = TRUE, !.reconf = TRUE, !.faults = 2]
SharedConfig == [Bare EXCEPT !.configs = {c1}]
ColdCounter == [Bare EXCEPT !.services = {s1}, !.faults = 0]

Safe == {SharedService, Features(g1), Features(g2), SharedConfig, ColdCounter}
GatewaySymmetry == Permutations(TwoGateways)
Live == {[Bare EXCEPT !.gateways = {g1}, !.services = {s1}, !.addons = {waf}]}
=============================================================================
