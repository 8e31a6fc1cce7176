------------------------------ MODULE Reachability ------------------------------
(* What a load balancer sends to the targets of a target group and what the      *)
(* rules of its TargetGroupBinding let through: the reference against which the  *)
(* builders of Services and Gateways are checked.  It says what AWS does, from   *)
(* the way those builders explain their rules.                                  *)
(*                                                                              *)
(* A load balancer is a record with scheme, subnets and sgs = [groups, backend], *)
(* a target group one with protocol, type, ip, attributes, health and binding =  *)
(* [target, networking].  A rule is <<source, protocol, port>>, the source a     *)
(* security group <<"group", g>> or a range <<"cidr", c>>; a port is <<"int", n>> *)
(* or <<"name", s>>.  The networking of a binding is {rules}, or {} when nothing *)
(* is managed.                                                                  *)
EXTENDS SubnetResolver

CONSTANT Canonical  \* for every address range that parses, its normal form

Ann(a, s, default) == IF s \in DOMAIN a THEN a[s] ELSE default
IntValue(port) == IF port[1] = "int" THEN port[2] ELSE 0

TrafficPort == <<"name", "traffic-port">>
AllPorts == <<"name", "all">>
PreserveKey == "preserve_client_ip.enabled"

Datagram == {"UDP", "TCP_UDP", "QUIC", "TCP_QUIC"}
Both == {"TCP_UDP", "TCP_QUIC"}
\* What a listener or a target group of a protocol carries.
Carried(protocol) ==
    CASE protocol \in Both -> {"TCP", "UDP"}
      [] protocol \in Datagram -> {"UDP"}
      [] OTHER -> {"TCP"}

\* AWS keeps the client's address on datagrams, and otherwise as the attribute
\* says, by default for instances only.  Health checks come from the subnets.
Preserved(tg) ==
    \/ tg.protocol \in Datagram
    \/ Ann(tg.attributes, PreserveKey, IF tg.type = "instance" THEN "true" ELSE "false") = "true"

OfFamily(tg, addresses) == IF tg.ip = "ipv6" THEN addresses \cap V6 ELSE addresses \ V6
Within(tg, ranges) == OfFamily(tg, UNION {Block[Canonical[c]] : c \in ranges \cap DOMAIN Canonical})

\* declared: the ranges the owner of the load balancer names as its clients
Clients(vpc, lb, declared, tg) ==
    Within(tg, CASE declared # {} -> declared
                 [] lb.scheme = "internal" -> vpc.cidrs4 \cup vpc.cidrs6
                 [] OTHER -> {"any4", "any6"})
Senders(lb, tg) == Within(tg, UNION {{n.cidr4} \cup {b.cidr : b \in n.cidr6} : n \in ToSet(lb.subnets)})

Sent(vpc, lb, declared, tg) ==
    LET target == tg.binding.target
        checked == IF tg.health.port = TrafficPort THEN target ELSE tg.health.port
        traffic(from) == {<<f, pr, target>> : f \in from, pr \in Carried(tg.protocol)}
        checks(from) == {<<f, "TCP", checked>> : f \in from}
    IN IF lb.sgs.groups = {}
       THEN traffic({<<"address", x>> : x \in IF Preserved(tg) THEN Clients(vpc, lb, declared, tg) ELSE Senders(lb, tg)})
            \cup checks({<<"address", x>> : x \in Senders(lb, tg)})
       ELSE traffic({<<"group", lb.sgs.backend>>}) \cup checks({<<"group", lb.sgs.backend>>})

Admitted(tg, rules) ==
    UNION {IF r[1][1] = "group" THEN {r} ELSE {<<<<"address", x>>, r[2], r[3]>> : x \in Within(tg, {r[1][2]})} : r \in rules}

\* The rules let through exactly what is sent, or all ports where they are not
\* restricted, and name only security groups that the load balancer has.
Reachable(vpc, lb, declared, restricted, tg) ==
    \A rules \in tg.binding.networking :
        /\ \A r \in rules : r[1][1] = "group" => r[1][2] \in lb.sgs.groups
        /\ LET open == Admitted(tg, rules)
               sent == Sent(vpc, lb, declared, tg)
           IN IF restricted \/ lb.sgs.groups = {} THEN open = sent
              ELSE \A x \in sent : \E y \in open : y[1] = x[1] /\ y[2] = x[2] /\ y[3] \in {x[3], AllPorts}
=============================================================================
