------------------------------- MODULE MCNetwork -------------------------------
(* A network for the builders: addresses, subnets and VPCs.                     *)
EXTENDS Integers, Sequences, TLC

\* Addresses: one in each of four subnets, another one in the VPC, and clients.
MCBlock ==
    ("n1" :> {"a1"}) @@ ("n2" :> {"a2"}) @@ ("n3" :> {"a3"}) @@ ("n4" :> {"a4"}) @@ ("vpc4" :> {"a1", "a2", "a3", "a4", "v"})
    @@ ("office" :> {"i"}) @@ ("any4" :> {"a1", "a2", "a3", "a4", "v", "i", "j"})
    @@ ("s1" :> {"b1"}) @@ ("s2" :> {"b2"}) @@ ("s3" :> {"b3"}) @@ ("vpc6" :> {"b1", "b2", "b3", "w"})
    @@ ("office6" :> {"k"}) @@ ("any6" :> {"b1", "b2", "b3", "w", "k", "l"})
MCV6 == {"s1", "s2", "s3", "vpc6", "office6", "any6"} \cup MCBlock["any6"]
MCCanonical == [c \in DOMAIN MCBlock |-> c] @@ ("office-host-bits" :> "office")

V6Block(c) == {[cidr |-> c, associated |-> TRUE]}
Subnet(id, az, cidr4, cidr6) ==
    [id |-> id, name |-> "net", az |-> az, locale |-> "availabilityZone", tags |-> {<<"role/elb", "1">>, <<"role/internal-elb", "">>},
     clusters |-> {}, ips |-> 8, cidr4 |-> cidr4, cidr6 |-> cidr6]
Subnets ==
    {Subnet(1, "a", "n1", V6Block("s1")), [Subnet(2, "a", "n2", V6Block("s2")) EXCEPT !.clusters = {"mine"}],
     Subnet(3, "b", "n3", V6Block("s3")), [Subnet(4, "c", "n4", {}) EXCEPT !.name = "private", !.tags = {<<"role/internal-elb", "1">>}]}
VPC == [subnets |-> Subnets, tables |-> {[main |-> TRUE, subnets |-> {}, igw |-> FALSE], [main |-> FALSE, subnets |-> {1, 3}, igw |-> TRUE]},
        cluster |-> "mine", cidrs4 |-> {"vpc4"}, cidrs6 |-> {"vpc6"},
        settings |-> [clusterTagCheck |-> TRUE, albSingleSubnet |-> FALSE, byReachability |-> TRUE]]
VPCs == {VPC, [VPC EXCEPT !.settings.clusterTagCheck = FALSE, !.subnets = {[s EXCEPT !.tags = {}, !.clusters = {"other"}] : s \in @}],
         [VPC EXCEPT !.subnets = {IF s.id = 3 THEN [s EXCEPT !.ips = 7, !.locale = "localZone"] ELSE s : s \in @}],
         [VPC EXCEPT !.subnets = {IF s.id = 3 THEN [s EXCEPT !.cidr6 = {[cidr |-> "s3", associated |-> FALSE]}] ELSE s : s \in @}]}
Refs(ids) == [k \in DOMAIN ids |-> <<"id", ids[k]>>]
Prefix(ip) == [ip |-> ip, length |-> 80]
Port(name, n, protocol) == [name |-> name, port |-> n, protocol |-> protocol, nodePort |-> 30000 + n, targetPort |-> <<"int", 8000 + n>>]
===============================================================================
