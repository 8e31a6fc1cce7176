----------------------- MODULE MCTargetGroupBinding -----------------------
(***************************************************************************)
(* Instances of TargetGroupBinding for TLC: three pods on two addresses,   *)
(* so that one pod can take over the address of another.                   *)
(***************************************************************************)
EXTENDS TargetGroupBinding

CONSTANTS p1, p2, p3, a, b, f1, f2

ThreePods == {p1, p2, p3}
TwoTargets == {a, b}
ThreeAddr == [p \in ThreePods |-> IF p = p3 THEN b ELSE a]
Gate2 == {p2}
TwoForeign == {f1, f2}

Ordinary == [type |-> "ip", multi |-> FALSE, max |-> 0, pods |-> Pods, foreign |-> {},
             lost |-> FALSE, invalid |-> FALSE, owner |-> FALSE, stale |-> FALSE,
             service |-> FALSE, changes |-> 2, faults |-> 1]

\* A target group of one cluster; one shared with another cluster, whose clean-ups
\* ELB may refuse; instance targets under a limit, and a limit that the other
\* cluster has already passed; and, on one address, everything that may delay
\* convergence, the loss of the target group included.
MCSettings ==
    {Ordinary,
     [Ordinary EXCEPT !.multi = TRUE, !.pods = {p1, p3}, !.foreign = {f1}, !.service = TRUE,
                      !.invalid = TRUE],
     [Ordinary EXCEPT !.type = "instance", !.max = 1, !.pods = {p1, p3}],
     [Ordinary EXCEPT !.type = "instance", !.max = 1, !.pods = {p1}, !.multi = TRUE,
                      !.foreign = {f1, f2}],
     [Ordinary EXCEPT !.pods = {p1, p2}, !.invalid = TRUE, !.owner = TRUE],
     [Ordinary EXCEPT !.pods = {p1, p2}, !.lost = TRUE, !.stale = TRUE, !.service = TRUE, !.faults = 2]}
============================================================================
