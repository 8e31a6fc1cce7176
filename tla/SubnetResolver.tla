----------------------------- MODULE SubnetResolver -----------------------------
(* How the subnets of a load balancer are found and which addresses they are     *)
(* given (pkg/networking/subnet_resolver.go, utils.go).                          *)
(*                                                                              *)
(* A VPC is [subnets, tables, cluster, settings]; a subnet is [id, name, az,     *)
(* locale, tags, clusters, ips, cidr4, cidr6], with cidr6 the blocks and whether *)
(* they are associated yet; a route table is [main, subnets, igw].  A lookup     *)
(* that may fail returns the set of its results: {} is an error.                 *)
EXTENDS Integers, FiniteSets, Sequences, SequencesExt

CONSTANTS
    Block,  \* for every address range, the addresses in it
    V6      \* the ranges and the addresses that are IPv6

MinimalAvailableIPAddressCount == 8

isIPv6CIDRRequired(lb) == lb.ipAddressType \in {"dualstack", "dualstack-without-public-ipv4"}
GetSubnetAssociatedIPv6CIDRs(s) == {b.cidr : b \in {x \in s.cidr6 : x.associated}}
isSubnetContainsIPv6CIDR(s) == GetSubnetAssociatedIPv6CIDRs(s) # {}

-------------------------------------------------------------------------------
(* Finding candidates                                                           *)

listSubnetsByTagFilters(vpc, filters) ==
    {s \in vpc.subnets : \A f \in filters : \E v \in f.values : <<f.key, v>> \in s.tags}

\* A subnet without a table of its own uses the main one.
isSubnetContainsRouteToIGW(vpc, s) ==
    LET own == {rt \in vpc.tables : s.id \in rt.subnets}
    IN \E rt \in IF own # {} THEN own ELSE {x \in vpc.tables : x.main} : rt.igw
listSubnetsByReachability(vpc, public) ==
    {s \in vpc.subnets : isSubnetContainsRouteToIGW(vpc, s) = public}

sortSubnetsByID(subnets) == SetToSortSeq(subnets, LAMBDA s, t : s.id < t.id)

\* Every identifier is one subnet; the k-th use of a name is its k-th subnet.
\* A name or an identifier that stands for nothing, or too few subnets of one
\* name, is an error.
listSubnetsByNameOrIDs(vpc, refs) ==
    LET called(ref) == sortSubnetsByID({s \in vpc.subnets : s.name = ref[2]})
        uses(k) == Cardinality({j \in 1..k : refs[j] = refs[k]})
        found(k) == IF refs[k][1] = "id" THEN {s \in vpc.subnets : s.id = refs[k][2] /\ uses(k) = 1}
                    ELSE {called(refs[k])[i] : i \in {uses(k)} \cap DOMAIN called(refs[k])}
    IN IF \E k \in DOMAIN refs : found(k) = {} THEN {}
       ELSE {[k \in DOMAIN refs |-> CHOOSE s \in found(k) : TRUE]}

-------------------------------------------------------------------------------
(* Choosing and validating                                                      *)

isSubnetContainsCurrentClusterTag(vpc, s) == vpc.cluster \in s.clusters
isSubnetContainsEligibleClusterTag(vpc, s) ==
    vpc.settings.clusterTagCheck => s.clusters = {} \/ isSubnetContainsCurrentClusterTag(vpc, s)
isSubnetContainsSufficientIPAddresses(s) == s.ips >= MinimalAvailableIPAddressCount

eligible_anyFamily(vpc, subnets, lb) ==
    {s \in subnets : isSubnetContainsEligibleClusterTag(vpc, s) /\ isSubnetContainsSufficientIPAddresses(s)}

eligible(vpc, subnets, lb) ==
    {s \in subnets : /\ isSubnetContainsEligibleClusterTag(vpc, s)
                     /\ isSubnetContainsSufficientIPAddresses(s)
                     /\ isIPv6CIDRRequired(lb) => isSubnetContainsIPv6CIDR(s)}

\* One subnet of every zone: tagged for this cluster before the others, then by identifier.
chooseSubnetsPerAZ(vpc, subnets) ==
    LET own(s) == isSubnetContainsCurrentClusterTag(vpc, s)
        before(s, t) == IF own(s) # own(t) THEN own(s) ELSE s.id < t.id
    IN sortSubnetsByID({s \in subnets : \A t \in subnets \ {s} : t.az = s.az => before(s, t)})

computeSubnetsMinimalCount(vpc, locale, lb) ==
    IF lb.type = "application" /\ locale = "availabilityZone" /\ ~vpc.settings.albSingleSubnet THEN 2 ELSE 1

validateSubnetsAZExclusivity(seq) == \A i, j \in DOMAIN seq : i # j => seq[i].az # seq[j].az
validateSubnetsLocaleAndCount(vpc, seq, lb) ==
    /\ \A i, j \in DOMAIN seq : seq[i].locale = seq[j].locale
    /\ Len(seq) >= computeSubnetsMinimalCount(vpc, seq[1].locale, lb)

validateSpecifiedSubnets(vpc, seq, lb) ==
    /\ seq # <<>>
    /\ validateSubnetsAZExclusivity(seq)
    /\ validateSubnetsLocaleAndCount(vpc, seq, lb)
    /\ isIPv6CIDRRequired(lb) => \A k \in DOMAIN seq : isSubnetContainsIPv6CIDR(seq[k])

chooseAndValidateSubnetsPerAZ(vpc, subnets, lb) ==
    {seq \in {chooseSubnetsPerAZ(vpc, eligible(vpc, subnets, lb))} :
        seq # <<>> /\ validateSubnetsLocaleAndCount(vpc, seq, lb)}

ResolveViaDiscovery(vpc, lb) ==
    LET role == [key |-> IF lb.scheme = "internal" THEN "role/internal-elb" ELSE "role/elb", values |-> {"", "1"}]
        tagged == listSubnetsByTagFilters(vpc, {role})
    IN chooseAndValidateSubnetsPerAZ(vpc,
           IF tagged = {} /\ vpc.settings.byReachability
           THEN listSubnetsByReachability(vpc, lb.scheme # "internal") ELSE tagged, lb)

\* The selector of a Gateway has tags; only that of an IngressClass may have IDs.
ResolveViaSelector(vpc, filters, lb) ==
    chooseAndValidateSubnetsPerAZ(vpc, listSubnetsByTagFilters(vpc, filters), lb)

ResolveViaNameOrIDSlice(vpc, refs, lb) ==
    {seq \in listSubnetsByNameOrIDs(vpc, refs) : validateSpecifiedSubnets(vpc, seq, lb)}

-------------------------------------------------------------------------------
(* Addresses of the load balancer in its subnets (utils.go)                     *)

FilterIPsWithinCIDRs(ips, cidrs) == SelectSeq(ips, LAMBDA ip : \E c \in cidrs : ip \in Block[c])

ValidateEnablePrefixForIpv6SourceNat(value, ipAddressType, seq) ==
    /\ value \in {"on", "off"}
    /\ value = "on" => /\ ipAddressType # "ipv4"
                       /\ \A k \in DOMAIN seq : GetSubnetAssociatedIPv6CIDRs(seq[k]) # {}

\* A prefix is [ip, length], or assigned by AWS.
AutoAssigned == [ip |-> "auto_assigned", length |-> 0]
ValidateSourceNatPrefixForSubnetPair(prefix, s) ==
    \/ prefix = AutoAssigned
    \/ /\ prefix.length = 80
       /\ prefix.ip \in V6
       /\ FilterIPsWithinCIDRs(<<prefix.ip>>, GetSubnetAssociatedIPv6CIDRs(s)) # <<>>

ValidateSourceNatPrefixes(prefixes, ipAddressType, enabled, seq) ==
    /\ ipAddressType = "dualstack"
    /\ enabled
    /\ Len(prefixes) = Len(seq)
    /\ \A k \in DOMAIN prefixes : ValidateSourceNatPrefixForSubnetPair(prefixes[k], seq[k])

\* The one address among ips that lies in the ranges of a subnet; {} when there
\* is none, or more than one.
OnlyAddress(ips, cidrs) ==
    LET within == FilterIPsWithinCIDRs(ips, cidrs) IN {within[k] : k \in {i \in DOMAIN within : Len(within) = 1}}

-------------------------------------------------------------------------------
(* What AWS asks of the subnets of a load balancer, whichever way they were      *)
(* found, and of the addresses in them.                                         *)

SubnetsServe(vpc, seq, lb) ==
    /\ seq # <<>> /\ ToSet(seq) \subseteq vpc.subnets
    /\ Cardinality({s.az : s \in ToSet(seq)}) = Len(seq)
    /\ Cardinality({s.locale : s \in ToSet(seq)}) = 1
    /\ lb.type = "application" /\ ~vpc.settings.albSingleSubnet /\ seq[1].locale = "availabilityZone" => Len(seq) > 1
    /\ lb.ipAddressType # "ipv4" => \A s \in ToSet(seq) : \E b \in s.cidr6 : b.associated

\* Every address that was asked for is given to the subnet it lies in, and no
\* address is given twice.
AddressesPlaced(mappings, seq, ipv4, ipv6) ==
    LET of(k, field) == mappings[k][field]
        placed(ips, field, blocks(_)) ==
            /\ UNION {of(k, field) : k \in DOMAIN mappings} = ToSet(ips)
            /\ \A k \in DOMAIN mappings : \A ip \in of(k, field) :
                 /\ \E c \in blocks(seq[k]) : ip \in Block[c]
                 /\ \A j \in DOMAIN mappings \ {k} : ip \notin of(j, field)
    IN /\ [k \in DOMAIN mappings |-> mappings[k].subnet] = [k \in DOMAIN seq |-> seq[k].id]
       /\ placed(ipv4, "ipv4", LAMBDA s : {s.cidr4})
       /\ placed(ipv6, "ipv6", LAMBDA s : {b.cidr : b \in s.cidr6})
=============================================================================
