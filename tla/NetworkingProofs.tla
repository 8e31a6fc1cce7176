-------------------------- MODULE NetworkingProofs --------------------------
(***************************************************************************)
(* Proofs about Networking, for any TGBs, security groups, ports and       *)
(* settings: rules of a user are kept (UserRulesKept); no step closes a    *)
(* port of a TGB that is in service (ServiceKept); a security group that   *)
(* was reconciled without an error has the desired rules and no other of   *)
(* ours (GroupsReconciled).                                                *)
(***************************************************************************)
EXTENDS Networking, WellFoundedInduction, TLAPS

RuleSets == (SUBSET Rules) \cup {None}

Sections == [tgb : TGBs \cup {None, "gc"}, all : BOOLEAN, todo : SUBSET SGs, gc : BOOLEAN,
             failed : BOOLEAN, sg : SGs \cup {None}, retry : BOOLEAN, revokeFirst : BOOLEAN,
             info : SUBSET Rules, granted : BOOLEAN, revoked : BOOLEAN]

TypeOK ==
    /\ setting \in Settings
    /\ tgb \in [TGBs -> {"absent", "present", "deleting"}]
    /\ need \in [TGBs -> PerSG]
    /\ aws \in [SGs -> SUBSET Rules]
    /\ run \in [TGBs -> {"idle", "lookup", "ready", "cleanup"}]
    /\ comp \in [TGBs -> PerSG]
    /\ snap \in [TGBs -> [SGs -> RuleSets]]
    /\ permsByTGB \in [TGBs -> PerSG \cup {None}]
    /\ tracked \in SUBSET SGs
    /\ cache \in [SGs -> RuleSets]
    /\ sect \in Sections
    /\ granted \in SUBSET TGBs

-----------------------------------------------------------------------------
(***************************************************************************)
(* The inductive invariants.                                               *)
(***************************************************************************)
\* Among rules of s, those with the ports of a user's rule are that rule.
NoTwin(s, rules) ==
    \A r \in rules, f \in Foreign[s] : ~f.ours /\ HashCode(r) = HashCode(f) => r = f

\* Nowhere is there a rule of ours that could be taken for a user's: not in EC2,
\* not in what was described, cached or is being reconciled, however old.
Distinct ==
    /\ ForeignKept
    /\ \A s \in SGs : NoTwin(s, aws[s]) /\ (cache[s] # None => NoTwin(s, cache[s]))
    /\ \A t \in TGBs, s \in SGs : snap[t][s] # None => NoTwin(s, snap[t][s])
    /\ sect.sg # None => NoTwin(sect.sg, sect.info)

\* The critical section and the run that holds it.
Section ==
    /\ sect.tgb = None => sect = NoSection
    /\ sect.sg = None => ~sect.granted /\ ~sect.revoked
    /\ sect.sg # None => sect.sg \in sect.todo
    /\ sect.gc => sect.all /\ sect.todo \cap UsedSGs = {}
    /\ sect.tgb \in TGBs => /\ run[sect.tgb] \in {"ready", "cleanup"}
                            /\ permsByTGB[sect.tgb] \in {None, comp[sect.tgb]}

\* What is remembered and computed of a TGB in service is its need.
InService ==
    /\ \A t \in granted : /\ tgb[t] = "present"
                          /\ permsByTGB[t] \in {None, need[t]}
                          /\ run[t] # "idle" => comp[t] = need[t]
                          /\ sect.all => permsByTGB[t] # None
    /\ \A t \in TGBs : run[t] = "cleanup" => tgb[t] = "deleting"

\* What the reconcile of a security group set out to do.
Grants == Diff(Desired(sect.sg), sect.info)
Revokes == IF sect.all THEN {r \in Diff(sect.info, Desired(sect.sg)) : r.ours} ELSE {}

\* Where nothing makes the cache differ from EC2, the rules in EC2 are what was
\* fetched with the grants and the revocations made since.
Known ==
    TrustedCache =>
        /\ \A t \in TGBs : run[t] # "lookup"
        /\ \A s \in SGs : cache[s] \in {None, aws[s]}
        /\ sect.sg # None =>
             aws[sect.sg] = (IF sect.revoked THEN Diff(sect.info, Revokes) ELSE sect.info)
                            \cup (IF sect.granted THEN Grants ELSE {})

Inv == TypeOK /\ Distinct /\ Section /\ InService /\ Known

-----------------------------------------------------------------------------
(***************************************************************************)
(* Rules and the ports they cover.                                         *)
(***************************************************************************)
Less == {p \in Nat \X Nat : p[1] < p[2]}

LEMMA LessWellFounded ==
    IsWellFoundedOn(Less, Nat)
  BY NatLessThanWellFounded, Zenon DEF OpToRel, Less

LEMMA LeastNat ==
    ASSUME NEW S, S \subseteq Nat, S # {}
    PROVE  \E m \in S : \A n \in S : m <= n
  <1>1. PICK m \in S : \A n \in S : ~(<<n, m>> \in Less)
    BY WFMin, LessWellFounded
  <1>2. ASSUME NEW n \in S
        PROVE  m <= n
    <2>1. n \in Nat /\ m \in Nat /\ ~(<<n, m>> \in Less)
      BY <1>1
    <2>2. n < m => <<n, m>> \in Less
      BY <2>1 DEF Less
    <2> QED
      BY <2>1, <2>2
  <1> QED
    BY <1>2

LEMMA MaxPortType ==
    MaxPort \in Nat
  BY SMT DEF MaxPort

\* A set of port numbers has a least and a greatest member.
LEMMA PortBounds ==
    ASSUME NEW top \in Nat, NEW ps, ps \subseteq 0 .. top, ps # {}
    PROVE  /\ Min(ps) \in ps /\ \A p \in ps : Min(ps) <= p
           /\ Max(ps) \in ps /\ \A p \in ps : p <= Max(ps)
  <1>1. Min(ps) \in ps /\ \A p \in ps : Min(ps) <= p
    <2>1. ps \subseteq Nat
      OBVIOUS
    <2>2. \E m \in ps : \A n \in ps : m <= n
      BY <2>1, LeastNat
    <2> QED
      BY <2>2 DEF Min
  <1>2. Max(ps) \in ps /\ \A p \in ps : p <= Max(ps)
    <2> DEFINE U == {n \in Nat : \A p \in ps : p <= n}
    <2>1. top \in U /\ U \subseteq Nat
      OBVIOUS
    <2>2. PICK m \in U : \A n \in U : m <= n
      <3> HIDE DEF U
      <3> QED
        BY <2>1, LeastNat
    <2>3. m \in ps
      <3>1. SUFFICES ASSUME m \notin ps
                     PROVE  FALSE
        OBVIOUS
      <3>2. m \in Nat /\ \A p \in ps : p \in Nat /\ p < m
        BY <3>1
      <3>3. m - 1 \in U
        <4>1. PICK p \in ps : TRUE
          OBVIOUS
        <4>2. p \in Nat /\ p < m
          BY <3>2
        <4> QED
          BY <3>2, <4>2
      <3> QED
        BY <2>2, <3>2, <3>3
    <2>4. \E x \in ps : \A y \in ps : x >= y
      BY <2>3
    <2> QED
      BY <2>4 DEF Max
  <1> QED
    BY <1>1, <1>2

\* computeRestricted and computeUnrestricted yield rules of ours that cover every
\* port they are computed for.
LEMMA ComputedCovers ==
    ASSUME ConstantsAssumption, NEW ps \in SUBSET Ports
    PROVE  /\ computeRestricted(ps) \in SUBSET Rules
           /\ computeUnrestricted(ps) \in SUBSET Rules
           /\ \A p \in ps : Covers(computeRestricted(ps), p) /\ Covers(computeUnrestricted(ps), p)
  <1>1. ps \subseteq 0 .. MaxPort /\ Ports \subseteq 0 .. MaxPort /\ MaxPort \in Nat
    BY MaxPortType DEF ConstantsAssumption
  <1>2. ps # {} => /\ Min(ps) \in ps /\ \A p \in ps : Min(ps) <= p
                   /\ Max(ps) \in ps /\ \A p \in ps : p <= Max(ps)
    BY <1>1, PortBounds
  <1>3. computeRestricted(ps) \in SUBSET Rules
    BY <1>2 DEF computeRestricted, Rule, Rules
  <1>4. computeUnrestricted(ps) \in SUBSET Rules
    <2>1. \A p \in ps : Rule(p, p) \in Rules
      BY DEF Rule, Rules
    <2> QED
      BY <2>1 DEF computeUnrestricted
  <1>5. ASSUME NEW p \in ps
        PROVE  Covers(computeRestricted(ps), p)
    <2>1. computeRestricted(ps) = {Rule(Min(ps), Max(ps))}
      BY DEF computeRestricted
    <2>2. Rule(Min(ps), Max(ps)).lo <= p /\ p <= Rule(Min(ps), Max(ps)).hi
      BY <1>2 DEF Rule
    <2> QED
      BY <2>1, <2>2 DEF Covers
  <1>6. ASSUME NEW p \in ps
        PROVE  Covers(computeUnrestricted(ps), p)
    <2>1. Rule(p, p) \in computeUnrestricted(ps)
      BY DEF computeUnrestricted
    <2>2. Rule(p, p).lo <= p /\ p <= Rule(p, p).hi
      BY <1>1 DEF Rule
    <2> QED
      BY <2>1, <2>2 DEF Covers
  <1> QED
    BY <1>3, <1>4, <1>5, <1>6

LEMMA AggregatedCovers ==
    ASSUME ConstantsAssumption, TypeOK, NEW s \in SGs
    PROVE  /\ Aggregated(s) \in SUBSET Rules
           /\ \A p \in PortsFor(s) : Covers(Aggregated(s), p)
  <1>1. PortsFor(s) \in SUBSET Ports
    BY DEF TypeOK, PortsFor, Remembered, PerSG
  <1> QED
    BY <1>1, ComputedCovers DEF Aggregated

\* Rules with the same hash code cover the same ports.
LEMMA SameHash ==
    ASSUME NEW r, NEW q, HashCode(r) = HashCode(q)
    PROVE  r.lo = q.lo /\ r.hi = q.hi
  BY DEF HashCode

-----------------------------------------------------------------------------
(***************************************************************************)
(* Types.                                                                  *)
(***************************************************************************)
(* Outside every critical section no security group is being reconciled. *)
LEMMA OutsideSections == NoSection.sg = None /\ NoSection.all = FALSE
  BY DEF NoSection

LEMMA ZeroType ==
    Zero \in PerSG /\ NoSnap \in [SGs -> RuleSets] /\ NoSection \in Sections
  BY DEF Zero, PerSG, NoSnap, RuleSets, NoSection, Sections

LEMMA SectionFields ==
    ASSUME sect \in Sections
    PROVE  /\ sect.tgb \in TGBs \cup {None, "gc"} /\ sect.sg \in SGs \cup {None}
           /\ sect.todo \in SUBSET SGs /\ sect.info \in SUBSET Rules
           /\ sect.all \in BOOLEAN /\ sect.gc \in BOOLEAN
           /\ sect.granted \in BOOLEAN /\ sect.revoked \in BOOLEAN
  BY DEF Sections

\* NextSG keeps the run and what it is allowed, and forgets the security group.
LEMMA NextSGFields ==
    ASSUME sect \in Sections, NEW failed \in BOOLEAN
    PROVE  /\ NextSG(failed) \in Sections
           /\ NextSG(failed).tgb = sect.tgb /\ NextSG(failed).all = sect.all
           /\ NextSG(failed).gc = sect.gc /\ NextSG(failed).sg = None
           /\ ~NextSG(failed).granted /\ ~NextSG(failed).revoked
           /\ NextSG(failed).todo \subseteq sect.todo
           /\ NextSG(failed).todo \subseteq sect.todo \ {sect.sg}
  <1> DEFINE rest == IF sect.gc /\ failed THEN {} ELSE sect.todo \ {sect.sg}
             bad == sect.failed \/ failed
  <1>1. rest \in SUBSET SGs /\ rest \subseteq sect.todo \ {sect.sg}
    BY DEF Sections
  <1> DEFINE start == [NoSection EXCEPT !.tgb = sect.tgb, !.all = sect.all, !.gc = sect.gc]
  <1>2. NextSG(failed) = [start EXCEPT !.todo = rest, !.failed = bad]
    BY DEF NextSG
  <1>3. /\ sect.tgb \in TGBs \cup {None, "gc"} /\ sect.all \in BOOLEAN
        /\ sect.gc \in BOOLEAN /\ bad \in BOOLEAN
    BY DEF Sections
  <1>4. /\ start \in Sections /\ start.tgb = sect.tgb /\ start.all = sect.all /\ start.gc = sect.gc
        /\ start.sg = None /\ ~start.granted /\ ~start.revoked
    BY <1>3 DEF NoSection, Sections
  <1> HIDE DEF rest, bad, start
  <1>5. NextSG(failed) \in Sections
    BY <1>1, <1>2, <1>3, <1>4 DEF Sections
  <1>6. NextSG(failed).todo = rest
    BY <1>2, <1>4 DEF Sections
  <1> QED
    BY <1>1, <1>2, <1>4, <1>5, <1>6 DEF Sections

LEMMA DiffSubset ==
    ASSUME NEW source, NEW target
    PROVE  Diff(source, target) \subseteq source
  BY DEF Diff

LEMMA DesiredType ==
    ASSUME ConstantsAssumption, TypeOK, NEW s \in SGs
    PROVE  Desired(s) \in SUBSET Rules
  BY AggregatedCovers DEF Desired

LEMMA GrantRevokeType ==
    ASSUME ConstantsAssumption, TypeOK, sect.sg # None
    PROVE  sect.sg \in SGs /\ ToGrant \in SUBSET Rules /\ ToRevoke \in SUBSET Rules
  <1>1. sect.sg \in SGs /\ sect.info \in SUBSET Rules
    BY SectionFields DEF TypeOK
  <1>2. Desired(sect.sg) \in SUBSET Rules
    BY <1>1, DesiredType
  <1> QED
    BY <1>1, <1>2, DiffSubset DEF ToGrant, ToRevoke

LEMMA UsedType ==
    UsedSGs \in SUBSET SGs /\ UsedSGs' \in SUBSET SGs
  BY DEF UsedSGs

\* What every step leaves of the types of the TGBs' runs.
LEMMA TypeRuns ==
    ASSUME ConstantsAssumption, TypeOK, NEW t \in TGBs,
           Start(t) \/ SaveSGInfosToCache(t) \/ ResolveFails(t) \/ DeleteTGB(t)
           \/ (\E n \in Needs : SetNeed(t, n))
    PROVE  TypeOK'
  <1>1. CASE Start(t)
    <2>1. comp' \in [TGBs -> PerSG]
      BY <1>1, ZeroType DEF Start, TypeOK
    <2>2. run' \in [TGBs -> {"idle", "lookup", "ready", "cleanup"}]
      BY <1>1 DEF Start, TypeOK
    <2>3. snap' \in [TGBs -> [SGs -> RuleSets]]
      <3>1. PICK un \in SUBSET SGs :
               snap' \in {snap, [snap EXCEPT ![t] = [s \in SGs |-> IF s \in un THEN aws[s] ELSE None]]}
        BY <1>1 DEF Start
      <3>2. [s \in SGs |-> IF s \in un THEN aws[s] ELSE None] \in [SGs -> RuleSets]
        BY DEF TypeOK, RuleSets
      <3> QED
        BY <3>1, <3>2 DEF TypeOK
    <2> QED
      BY <1>1, <2>1, <2>2, <2>3 DEF Start, TypeOK, memory
  <1>2. CASE SaveSGInfosToCache(t)
    <2>1. cache' \in [SGs -> RuleSets]
      BY <1>2 DEF SaveSGInfosToCache, TypeOK
    <2>2. snap' \in [TGBs -> [SGs -> RuleSets]] /\ run' \in [TGBs -> {"idle", "lookup", "ready", "cleanup"}]
      BY <1>2, ZeroType DEF SaveSGInfosToCache, TypeOK
    <2> QED
      BY <1>2, <2>1, <2>2 DEF SaveSGInfosToCache, TypeOK, memory
  <1>3. CASE ResolveFails(t)
    <2>1. snap' \in [TGBs -> [SGs -> RuleSets]] /\ run' \in [TGBs -> {"idle", "lookup", "ready", "cleanup"}]
      BY <1>3, ZeroType DEF ResolveFails, TypeOK
    <2>2. comp' \in [TGBs -> PerSG]
      BY <1>3, ZeroType DEF ResolveFails, TypeOK
    <2> QED
      BY <1>3, <2>1, <2>2 DEF ResolveFails, TypeOK, memory
  <1>4. CASE DeleteTGB(t)
    BY <1>4 DEF DeleteTGB, TypeOK, memory
  <1>5. ASSUME NEW n \in Needs, SetNeed(t, n)
        PROVE  TypeOK'
    <2>1. n \in PerSG
      BY DEF ConstantsAssumption
    <2> QED
      BY <1>5, <2>1 DEF SetNeed, TypeOK, memory
  <1> QED
    BY <1>1, <1>2, <1>3, <1>4, <1>5

LEMMA TypeSection ==
    ASSUME ConstantsAssumption, TypeOK, InSection \/ CallFails
    PROVE  TypeOK'
  <1>f. /\ sect.info \in SUBSET Rules /\ sect.todo \in SUBSET SGs
        /\ Zero \in PerSG /\ NoSection \in Sections
    BY SectionFields, ZeroType DEF TypeOK
  <1>n. NextSG(TRUE) \in Sections /\ NextSG(FALSE) \in Sections
    BY NextSGFields DEF TypeOK
  <1>1. ASSUME NEW s \in SGs, Fetch(s)
        PROVE  TypeOK'
    <2>1. (IF cache[s] # None THEN cache[s] ELSE aws[s]) \in SUBSET Rules
      BY DEF TypeOK, RuleSets
    <2>2. sect' \in Sections /\ sect'.info \in SUBSET Rules
      BY <1>1, <2>1 DEF Fetch, TypeOK, Sections
    <2> QED
      BY <1>1, <2>2 DEF Fetch, TypeOK, memory, RuleSets
  <1>2. CASE AuthorizeSGIngress
    <2>1. sect.sg \in SGs /\ ToGrant \in SUBSET Rules
      BY <1>2, GrantRevokeType DEF AuthorizeSGIngress, GrantTurn
    <2>2. aws' \in [SGs -> SUBSET Rules]
      BY <1>2, <2>1 DEF AuthorizeSGIngress, TypeOK
    <2>3. cache' \in [SGs -> RuleSets] /\ sect' \in Sections
      BY <1>2 DEF AuthorizeSGIngress, TypeOK, Sections, RuleSets
    <2> QED
      BY <1>2, <2>2, <2>3 DEF AuthorizeSGIngress, TypeOK, memory
  <1>3. CASE RevokeSGIngress
    <2>1. aws' \in [SGs -> SUBSET Rules]
      BY <1>3, DiffSubset DEF RevokeSGIngress, TypeOK
    <2>2. cache' \in [SGs -> RuleSets] /\ sect' \in Sections
      BY <1>3 DEF RevokeSGIngress, TypeOK, Sections, RuleSets
    <2> QED
      BY <1>3, <2>1, <2>2 DEF RevokeSGIngress, TypeOK, memory
  <1>4. CASE SGDone
    BY <1>4, <1>n DEF SGDone, TypeOK, memory
  <1>5. CASE RetryWithoutCache
    <2>1. PICK limit \in BOOLEAN : Refused(limit) /\ sect.sg # None
      BY <1>5 DEF RetryWithoutCache, GrantTurn, RevokeTurn
    <2>2. sect.sg \in SGs
      BY <2>1, GrantRevokeType
    <2>3. aws[sect.sg] \in SUBSET Rules
      BY <2>2 DEF TypeOK
    <2>4. sect' \in Sections /\ cache' \in [SGs -> RuleSets]
      BY <2>1, <2>3, <1>n DEF Refused, TypeOK, Sections, RuleSets
    <2> QED
      BY <2>1, <2>4 DEF Refused, TypeOK, memory
  <1>6. CASE CollectGarbage
    <2>1. tracked' \in SUBSET SGs
      BY <1>6 DEF CollectGarbage, TypeOK, ConstantsAssumption
    <2>2. sect' \in Sections
      BY <1>6, <2>1 DEF CollectGarbage, TypeOK, Sections
    <2> QED
      BY <1>6, <2>1, <2>2 DEF CollectGarbage, TypeOK
  <1>7. CASE Unlock
    BY <1>7, <1>f DEF Unlock, TypeOK, memory
  <1>8. CASE UnlockGC
    BY <1>8, <1>f DEF UnlockGC, TypeOK, memory
  <1>9. CASE CallFails
    <2>1. sect.sg \in SGs /\ ToGrant \in SUBSET Rules
      BY <1>9, GrantRevokeType DEF CallFails
    <2>2. aws' \in [SGs -> SUBSET Rules]
      BY <1>9, <2>1, DiffSubset DEF CallFails, TypeOK
    <2> QED
      BY <1>9, <2>2, <1>n DEF CallFails, TypeOK, memory
  <1> QED
    BY <1>1, <1>2, <1>3, <1>4, <1>5, <1>6, <1>7, <1>8, <1>9 DEF InSection

LEMMA TypeNext ==
    ASSUME ConstantsAssumption, TypeOK, [Next]_vars
    PROVE  TypeOK'
  <1>z. Zero \in PerSG /\ NoSnap \in [SGs -> RuleSets] /\ NoSection \in Sections
    BY ZeroType
  <1>1. ASSUME NEW t \in TGBs, Lock(t)
        PROVE  TypeOK'
    <2>1. permsByTGB' \in [TGBs -> PerSG \cup {None}] /\ tracked' \in SUBSET SGs
      BY <1>1 DEF Lock, Consolidate, TypeOK
    <2>2. sect' \in Sections
      <3>1. ComputedForAll(permsByTGB') \in BOOLEAN
        BY DEF ComputedForAll
      <3> QED
        BY <1>1, <3>1, UsedType DEF Lock, NoSection, Sections
    <2> QED
      BY <1>1, <2>1, <2>2 DEF Lock, TypeOK
  <1>2. CASE AttemptGarbageCollection
    <2>1. permsByTGB' \in [TGBs -> PerSG \cup {None}]
      BY <1>2 DEF AttemptGarbageCollection, Consolidate, TypeOK
    <2>2. sect' \in Sections
      BY <1>2, <1>z DEF AttemptGarbageCollection, NoSection, Sections
    <2> QED
      BY <1>2, <2>1, <2>2 DEF AttemptGarbageCollection, TypeOK
  <1>3. ASSUME NEW s \in SGs, Expire(s)
        PROVE  TypeOK'
    BY <1>3 DEF Expire, TypeOK, memory, RuleSets
  <1>4. CASE Restart
    BY <1>4, <1>z DEF Restart, TypeOK, RuleSets
  <1>5. CASE UNCHANGED vars
    BY <1>5 DEF vars, TypeOK, memory
  <1> QED
    BY <1>1, <1>2, <1>3, <1>4, <1>5, TypeRuns, TypeSection DEF Next

LEMMA TypeInit ==
    ASSUME ConstantsAssumption
    PROVE  Init => TypeOK
  BY ZeroType DEF Init, TypeOK, ConstantsAssumption, RuleSets

-----------------------------------------------------------------------------
(***************************************************************************)
(* The rules of users.                                                     *)
(***************************************************************************)
LEMMA NoTwinMonotone ==
    ASSUME NEW s, NEW R, NoTwin(s, R), NEW Q, Q \subseteq R
    PROVE  NoTwin(s, Q)
  BY DEF NoTwin

\* EC2 refuses a rule with the ports of one it has, a user's included: what is
\* granted is never taken for a user's rule.
LEMMA GrantKeeps ==
    ASSUME ConstantsAssumption, TypeOK, Distinct, sect.sg # None, ~Duplicate,
           aws' = [aws EXCEPT ![sect.sg] = @ \cup ToGrant]
    PROVE  ForeignKept' /\ \A s \in SGs : NoTwin(s, aws'[s])
  <1>1. sect.sg \in SGs
    BY GrantRevokeType
  <1>2. /\ aws'[sect.sg] = aws[sect.sg] \cup ToGrant
        /\ \A s \in SGs : s # sect.sg => aws'[s] = aws[s]
    BY <1>1 DEF TypeOK
  <1>3. ForeignKept'
    BY <1>2 DEF ForeignKept, Distinct
  <1>4. NoTwin(sect.sg, aws[sect.sg] \cup ToGrant)
    <2>1. NoTwin(sect.sg, ToGrant)
      BY <1>1 DEF NoTwin, Duplicate, Distinct, ForeignKept
    <2>2. NoTwin(sect.sg, aws[sect.sg])
      BY <1>1 DEF Distinct
    <2> QED
      BY <2>1, <2>2 DEF NoTwin
  <1> QED
    BY <1>2, <1>3, <1>4 DEF Distinct

\* A revocation names rules of ours, and none of them has the ports of a user's.
LEMMA RevokeKeeps ==
    ASSUME ConstantsAssumption, TypeOK, Distinct, sect.sg # None,
           aws' = [aws EXCEPT ![sect.sg] = Diff(@, ToRevoke)]
    PROVE  ForeignKept' /\ \A s \in SGs : NoTwin(s, aws'[s])
  <1>1. sect.sg \in SGs
    BY GrantRevokeType
  <1>2. /\ aws'[sect.sg] = Diff(aws[sect.sg], ToRevoke)
        /\ \A s \in SGs : s # sect.sg => aws'[s] = aws[s]
    BY <1>1 DEF TypeOK
  <1>3. \A r \in ToRevoke : r \in sect.info /\ r.ours
    BY DiffSubset DEF ToRevoke
  <1>4. NoTwin(sect.sg, sect.info)
    BY DEF Distinct
  <1>5. ASSUME NEW f \in Foreign[sect.sg], ~f.ours
        PROVE  f \in aws'[sect.sg]
    <2>1. f \in aws[sect.sg]
      BY <1>1, <1>5 DEF Distinct, ForeignKept
    <2>2. \A q \in ToRevoke : HashCode(q) # HashCode(f)
      BY <1>3, <1>4, <1>5 DEF NoTwin
    <2> QED
      BY <1>2, <2>1, <2>2 DEF Diff
  <1>6. ForeignKept'
    BY <1>2, <1>5 DEF ForeignKept, Distinct
  <1>7. NoTwin(sect.sg, Diff(aws[sect.sg], ToRevoke))
    BY <1>1, DiffSubset, NoTwinMonotone DEF Distinct
  <1> QED
    BY <1>2, <1>6, <1>7 DEF Distinct

\* What changes if EC2 does not.
LEMMA DistinctIf ==
    ASSUME ForeignKept', \A s \in SGs : NoTwin(s, aws'[s]),
           \A s \in SGs : cache'[s] # None => NoTwin(s, cache'[s]),
           \A t \in TGBs, s \in SGs : snap'[t][s] # None => NoTwin(s, snap'[t][s]),
           sect'.sg # None => NoTwin(sect'.sg, sect'.info)
    PROVE  Distinct'
  BY DEF Distinct

LEMMA DistinctSection ==
    ASSUME ConstantsAssumption, TypeOK, Distinct, InSection \/ CallFails
    PROVE  Distinct'
  <1>s. \A t \in TGBs, s \in SGs : snap[t][s] # None => NoTwin(s, snap[t][s])
    BY DEF Distinct
  <1>c. \A s \in SGs : cache[s] # None => NoTwin(s, cache[s])
    BY DEF Distinct
  <1>a. ForeignKept /\ \A s \in SGs : NoTwin(s, aws[s])
    BY DEF Distinct
  <1>n. NextSG(TRUE).sg = None /\ NextSG(FALSE).sg = None
    BY NextSGFields DEF TypeOK
  <1>u. aws' = aws => ForeignKept' /\ \A s \in SGs : NoTwin(s, aws'[s])
    BY <1>a DEF ForeignKept
  <1>1. ASSUME NEW s \in SGs, Fetch(s)
        PROVE  Distinct'
    <2>1. sect'.sg = s /\ sect'.info = (IF cache[s] # None THEN cache[s] ELSE aws[s])
      BY <1>1 DEF Fetch, TypeOK, Sections
    <2>2. NoTwin(s, sect'.info)
      BY <2>1, <1>a, <1>c
    <2>3. \A x \in SGs : cache'[x] # None => NoTwin(x, cache'[x])
      BY <1>1, <2>2, <1>c DEF Fetch, TypeOK
    <2>4. aws' = aws /\ snap' = snap
      BY <1>1 DEF Fetch
    <2> QED
      BY <1>s, <1>u, <2>1, <2>2, <2>3, <2>4, DistinctIf
  <1>2. CASE AuthorizeSGIngress
    <2>1. sect'.sg = sect.sg /\ sect'.info = sect.info /\ sect.sg # None /\ snap' = snap
      BY <1>2 DEF AuthorizeSGIngress, GrantTurn, TypeOK, Sections
    <2>2. \A x \in SGs : cache'[x] # None => NoTwin(x, cache'[x])
      BY <1>2, <1>c DEF AuthorizeSGIngress, TypeOK
    <2>3. ForeignKept' /\ \A s \in SGs : NoTwin(s, aws'[s])
      BY <1>2, <2>1, GrantKeeps DEF AuthorizeSGIngress
    <2> QED
      BY <1>s, <2>1, <2>2, <2>3, DistinctIf DEF Distinct
  <1>3. CASE RevokeSGIngress
    <2>1. sect'.sg = sect.sg /\ sect'.info = sect.info /\ sect.sg # None /\ snap' = snap
      BY <1>3 DEF RevokeSGIngress, RevokeTurn, TypeOK, Sections
    <2>2. \A x \in SGs : cache'[x] # None => NoTwin(x, cache'[x])
      BY <1>3, <1>c DEF RevokeSGIngress, TypeOK
    <2>3. ForeignKept' /\ \A s \in SGs : NoTwin(s, aws'[s])
      BY <1>3, <2>1, RevokeKeeps DEF RevokeSGIngress
    <2> QED
      BY <1>s, <2>1, <2>2, <2>3, DistinctIf DEF Distinct
  <1>4. CASE SGDone
    <2>1. aws' = aws /\ cache' = cache /\ snap' = snap /\ sect'.sg = None
      BY <1>4, <1>n DEF SGDone
    <2> QED
      BY <2>1, <1>s, <1>c, <1>u, DistinctIf
  <1>5. CASE RetryWithoutCache
    <2>1. PICK limit \in BOOLEAN : Refused(limit) /\ sect.sg # None
      BY <1>5 DEF RetryWithoutCache, GrantTurn, RevokeTurn
    <2>2. sect.sg \in SGs
      BY <2>1, GrantRevokeType
    <2>3. aws' = aws /\ snap' = snap
      BY <2>1 DEF Refused
    <2>4. sect'.sg = None \/ (sect'.sg = sect.sg /\ sect'.info = aws[sect.sg])
      BY <2>1, <1>n DEF Refused, TypeOK, Sections
    <2>5. \A x \in SGs : cache'[x] # None => NoTwin(x, cache'[x])
      BY <2>1, <2>2, <1>a, <1>c DEF Refused, TypeOK
    <2> QED
      BY <2>2, <2>3, <2>4, <2>5, <1>a, <1>s, <1>u, DistinctIf
  <1>6. CASE CollectGarbage
    <2>1. aws' = aws /\ cache' = cache /\ snap' = snap /\ sect'.sg = None
      BY <1>6 DEF CollectGarbage, TypeOK, Sections
    <2> QED
      BY <2>1, <1>s, <1>c, <1>u, DistinctIf
  <1>7. CASE Unlock \/ UnlockGC
    <2>1. aws' = aws /\ cache' = cache /\ snap' = snap /\ sect'.sg = None
      <3>1. aws' = aws /\ cache' = cache /\ snap' = snap /\ sect' = NoSection
        BY <1>7 DEF Unlock, UnlockGC
      <3> QED
        BY <3>1, OutsideSections
    <2> QED
      BY <2>1, <1>s, <1>c, <1>u, DistinctIf
  <1>8. CASE CallFails
    <2>1. cache' = cache /\ snap' = snap /\ sect'.sg = None /\ sect.sg # None
      BY <1>8, <1>n DEF CallFails
    <2>2. \/ aws' = aws
          \/ ~Duplicate /\ aws' = [aws EXCEPT ![sect.sg] = @ \cup ToGrant]
          \/ aws' = [aws EXCEPT ![sect.sg] = Diff(@, ToRevoke)]
      BY <1>8 DEF CallFails
    <2> QED
      BY <2>1, <2>2, <1>s, <1>c, <1>u, GrantKeeps, RevokeKeeps, DistinctIf
  <1> QED
    BY <1>1, <1>2, <1>3, <1>4, <1>5, <1>6, <1>7, <1>8 DEF InSection

LEMMA DistinctNext ==
    ASSUME ConstantsAssumption, TypeOK, Distinct, [Next]_vars
    PROVE  Distinct'
  <1>s. \A t \in TGBs, s \in SGs : snap[t][s] # None => NoTwin(s, snap[t][s])
    BY DEF Distinct
  <1>c. \A s \in SGs : cache[s] # None => NoTwin(s, cache[s])
    BY DEF Distinct
  <1>a. ForeignKept /\ \A s \in SGs : NoTwin(s, aws[s])
    BY DEF Distinct
  <1>u. aws' = aws => ForeignKept' /\ \A s \in SGs : NoTwin(s, aws'[s])
    BY <1>a DEF ForeignKept
  <1>e. sect.sg # None => NoTwin(sect.sg, sect.info)
    BY DEF Distinct
  <1>1. ASSUME NEW t \in TGBs, Start(t)
        PROVE  Distinct'
    <2>1. aws' = aws /\ cache' = cache /\ sect' = sect
      BY <1>1 DEF Start
    <2>2. PICK un \in SUBSET SGs :
             snap' \in {snap, [snap EXCEPT ![t] = [s \in SGs |-> IF s \in un THEN aws[s] ELSE None]]}
      BY <1>1 DEF Start
    <2>3. \A x \in TGBs, s \in SGs : snap'[x][s] \in {snap[x][s], aws[s], None}
      BY <2>2 DEF TypeOK
    <2>4. \A x \in TGBs, s \in SGs : snap'[x][s] # None => NoTwin(s, snap'[x][s])
      BY <2>3, <1>s, <1>a
    <2> QED
      BY <2>1, <2>4, <1>c, <1>u, <1>e, DistinctIf
  <1>2. ASSUME NEW t \in TGBs, SaveSGInfosToCache(t)
        PROVE  Distinct'
    <2>1. aws' = aws /\ sect' = sect
      BY <1>2 DEF SaveSGInfosToCache
    <2>2. \A s \in SGs : cache'[s] # None => NoTwin(s, cache'[s])
      BY <1>2, <1>s, <1>c DEF SaveSGInfosToCache
    <2>3. \A x \in TGBs, s \in SGs : snap'[x][s] # None => NoTwin(s, snap'[x][s])
      BY <1>2, <1>s DEF SaveSGInfosToCache, NoSnap, TypeOK
    <2> QED
      BY <2>1, <2>2, <2>3, <1>u, <1>e, DistinctIf
  <1>3. ASSUME NEW t \in TGBs, ResolveFails(t)
        PROVE  Distinct'
    <2>1. aws' = aws /\ sect' = sect /\ cache' = cache
      BY <1>3 DEF ResolveFails
    <2>2. \A x \in TGBs, s \in SGs : snap'[x][s] # None => NoTwin(s, snap'[x][s])
      BY <1>3, <1>s DEF ResolveFails, NoSnap, TypeOK
    <2> QED
      BY <2>1, <2>2, <1>c, <1>u, <1>e, DistinctIf
  <1>4. CASE \/ AttemptGarbageCollection \/ UNCHANGED vars
             \/ \E t \in TGBs : Lock(t) \/ DeleteTGB(t) \/ \E n \in Needs : SetNeed(t, n)
    <2>1. aws' = aws /\ cache' = cache /\ snap' = snap
      BY <1>4 DEF AttemptGarbageCollection, Lock, DeleteTGB, SetNeed, vars
    <2>2. sect' = sect \/ sect'.sg = None
      <3>1. ASSUME NEW t \in TGBs, Lock(t)
            PROVE  sect'.sg = None
        BY <3>1 DEF Lock, NoSection
      <3>2. AttemptGarbageCollection => sect'.sg = None
        BY DEF AttemptGarbageCollection, NoSection
      <3> QED
        BY <1>4, <3>1, <3>2 DEF DeleteTGB, SetNeed, vars
    <2> QED
      BY <2>1, <2>2, <1>s, <1>c, <1>u, <1>e, DistinctIf
  <1>5. ASSUME NEW s \in SGs, Expire(s)
        PROVE  Distinct'
    <2>1. aws' = aws /\ snap' = snap /\ sect' = sect
      BY <1>5 DEF Expire
    <2>2. \A x \in SGs : cache'[x] # None => NoTwin(x, cache'[x])
      BY <1>5, <1>c DEF Expire, TypeOK
    <2> QED
      BY <2>1, <2>2, <1>s, <1>u, <1>e, DistinctIf
  <1>6. CASE Restart
    <2>1. /\ aws' = aws /\ sect'.sg = None /\ \A s \in SGs : cache'[s] = None
          /\ \A t \in TGBs, s \in SGs : snap'[t][s] = None
      BY <1>6 DEF Restart, NoSection, NoSnap
    <2> QED
      BY <2>1, <1>u, DistinctIf
  <1> QED
    BY <1>1, <1>2, <1>3, <1>4, <1>5, <1>6, DistinctSection DEF Next

LEMMA DistinctInit ==
    ASSUME ConstantsAssumption
    PROVE  Init => Distinct
  <1> SUFFICES ASSUME Init
               PROVE  Distinct
    OBVIOUS
  <1>1. ForeignKept
    BY DEF Init, ForeignKept
  <1>2. \A s \in SGs : NoTwin(s, aws[s])
    BY DEF Init, NoTwin, HashCode, ConstantsAssumption
  <1> QED
    BY <1>1, <1>2 DEF Init, Distinct, NoSnap, NoSection

(***************************************************************************)
(* UserRulesKept: the rules a user made in an endpoint security group are  *)
(* there in every state.  The reconciler revokes by ports and source only  *)
(* (diffIPPermissionInfos), perhaps from an outdated description, and      *)
(* selects by label; what keeps the user's rules is that no rule with our  *)
(* label ever has their ports, in EC2 or in any copy (Distinct).           *)
(***************************************************************************)
THEOREM UserRulesKept ==
    ASSUME ConstantsAssumption
    PROVE  Spec => []ForeignKept
  <1> DEFINE I == TypeOK /\ Distinct
  <1>1. Init => I
    BY TypeInit, DistinctInit
  <1>2. I /\ [Next]_vars => I'
    BY TypeNext, DistinctNext
  <1>3. I => ForeignKept
    BY DEF Distinct
  <1> QED
    BY <1>1, <1>2, <1>3, PTL DEF Spec

-----------------------------------------------------------------------------
(***************************************************************************)
(* The critical section.                                                   *)
(***************************************************************************)
\* The steps inside the critical section that leave it to its holder.
Inside ==
    \/ \E s \in SGs : Fetch(s)
    \/ AuthorizeSGIngress \/ RevokeSGIngress \/ SGDone \/ RetryWithoutCache
    \/ CollectGarbage \/ CallFails

LEMMA InsideFields ==
    ASSUME TypeOK, Inside
    PROVE  /\ UNCHANGED <<setting, tgb, need, run, comp, permsByTGB, granted, snap>>
           /\ sect'.tgb = sect.tgb /\ sect'.all = sect.all
           /\ sect'.gc = sect.gc \/ CollectGarbage
  <1>t. sect \in Sections
    BY DEF TypeOK
  <1>n. \A f \in BOOLEAN : /\ NextSG(f).tgb = sect.tgb
                           /\ NextSG(f).all = sect.all /\ NextSG(f).gc = sect.gc
    BY <1>t, NextSGFields
  <1>1. ASSUME NEW s \in SGs, Fetch(s)
        PROVE  /\ UNCHANGED <<setting, tgb, need, run, comp, permsByTGB, granted, snap>>
               /\ sect'.tgb = sect.tgb /\ sect'.all = sect.all /\ sect'.gc = sect.gc
    BY <1>t, <1>1 DEF Fetch, memory, Sections
  <1>2. CASE AuthorizeSGIngress \/ RevokeSGIngress
    BY <1>t, <1>2 DEF AuthorizeSGIngress, RevokeSGIngress, memory, Sections
  <1>3. CASE SGDone
    BY <1>n, <1>3 DEF SGDone, memory
  <1>4. CASE RetryWithoutCache
    <2>1. PICK limit \in BOOLEAN : Refused(limit)
      BY <1>4 DEF RetryWithoutCache
    <2> QED
      BY <1>t, <1>n, <2>1 DEF Refused, memory, Sections
  <1>5. CASE CollectGarbage
    BY <1>t, <1>5 DEF CollectGarbage, memory, Sections
  <1>6. CASE CallFails
    BY <1>n, <1>6 DEF CallFails, memory
  <1> QED
    BY <1>1, <1>2, <1>3, <1>4, <1>5, <1>6 DEF Inside

LEMMA SameUsed ==
    ASSUME permsByTGB' = permsByTGB
    PROVE  UsedSGs' = UsedSGs
  BY DEF UsedSGs, PortsFor, Remembered

\* The progress of the section through its security groups.
LEMMA InsideProgress ==
    ASSUME TypeOK, Section, Inside
    PROVE  /\ sect.tgb # None
           /\ sect'.sg = None => ~sect'.granted /\ ~sect'.revoked
           /\ sect'.sg # None => sect'.sg \in sect'.todo
           /\ sect'.gc => sect'.all /\ sect'.todo \cap UsedSGs = {}
  <1>t. sect \in Sections
    BY DEF TypeOK
  <1>h. sect.sg # None => sect.tgb # None
    BY DEF Section, NoSection
  <1>g. sect.gc => sect.all /\ sect.todo \cap UsedSGs = {}
    BY DEF Section
  <1>m. sect.sg # None => sect.sg \in sect.todo
    BY DEF Section
  <1>n. ASSUME NEW f \in BOOLEAN, sect' = NextSG(f), sect.sg # None
        PROVE  /\ sect.tgb # None
               /\ sect'.sg = None => ~sect'.granted /\ ~sect'.revoked
               /\ sect'.sg # None => sect'.sg \in sect'.todo
               /\ sect'.gc => sect'.all /\ sect'.todo \cap UsedSGs = {}
    <2>1. /\ sect'.sg = None /\ ~sect'.granted /\ ~sect'.revoked
          /\ sect'.gc = sect.gc /\ sect'.all = sect.all /\ sect'.todo \subseteq sect.todo
      BY <1>t, <1>n, NextSGFields
    <2> QED
      BY <1>h, <1>g, <1>n, <2>1
  <1>1. ASSUME NEW s \in SGs, Fetch(s)
        PROVE  /\ sect.tgb # None
               /\ sect'.sg = None => ~sect'.granted /\ ~sect'.revoked
               /\ sect'.sg # None => sect'.sg \in sect'.todo
               /\ sect'.gc => sect'.all /\ sect'.todo \cap UsedSGs = {}
    <2>1. /\ sect.tgb # None /\ sect.sg = None /\ sect'.sg = s /\ s \in sect.todo
          /\ sect'.todo = sect.todo /\ sect'.gc = sect.gc /\ sect'.all = sect.all
          /\ sect'.granted = sect.granted /\ sect'.revoked = sect.revoked
      BY <1>t, <1>1 DEF Fetch, Sections
    <2> QED
      BY <2>1, <1>g DEF Section
  <1>2. CASE AuthorizeSGIngress \/ RevokeSGIngress
    <2>1. /\ sect.sg # None /\ sect'.sg = sect.sg
          /\ sect'.todo = sect.todo /\ sect'.gc = sect.gc /\ sect'.all = sect.all
      BY <1>t, <1>2 DEF AuthorizeSGIngress, RevokeSGIngress, GrantTurn, RevokeTurn, Sections
    <2> QED
      BY <2>1, <1>g, <1>h, <1>m
  <1>3. CASE SGDone
    BY <1>n, <1>3 DEF SGDone
  <1>4. CASE RetryWithoutCache
    <2>1. PICK limit \in BOOLEAN : Refused(limit) /\ sect.sg # None
      BY <1>4 DEF RetryWithoutCache, GrantTurn, RevokeTurn
    <2>2. CASE sect.retry
      BY <1>n, <2>1, <2>2 DEF Refused
    <2>3. CASE ~sect.retry
      <3>1. /\ sect'.sg = sect.sg /\ sect'.todo = sect.todo
            /\ sect'.gc = sect.gc /\ sect'.all = sect.all
        BY <1>t, <2>1, <2>3 DEF Refused, Sections
      <3> QED
        BY <2>1, <3>1, <1>g, <1>h, <1>m
    <2> QED
      BY <2>2, <2>3
  <1>5. CASE CollectGarbage
    <2>1. /\ sect.tgb # None /\ sect'.sg = None /\ sect.sg = None /\ sect'.all
          /\ sect'.granted = sect.granted /\ sect'.revoked = sect.revoked
          /\ sect'.todo = tracked' \ UsedSGs
      BY <1>t, <1>5 DEF CollectGarbage, Sections
    <2> QED
      BY <2>1 DEF Section
  <1>6. CASE CallFails
    BY <1>n, <1>6 DEF CallFails
  <1> QED
    BY <1>1, <1>2, <1>3, <1>4, <1>5, <1>6 DEF Inside

LEMMA SectionInside ==
    ASSUME TypeOK, Section, Inside
    PROVE  Section'
  <1>1. UNCHANGED <<run, comp, permsByTGB>> /\ sect'.tgb = sect.tgb /\ sect'.all = sect.all
    BY InsideFields
  <1>2. UsedSGs' = UsedSGs
    BY <1>1, SameUsed
  <1>3. sect'.tgb \in TGBs => /\ run'[sect'.tgb] \in {"ready", "cleanup"}
                              /\ permsByTGB'[sect'.tgb] \in {None, comp'[sect'.tgb]}
    BY <1>1 DEF Section
  <1>4. /\ sect'.tgb # None
        /\ sect'.sg = None => ~sect'.granted /\ ~sect'.revoked
        /\ sect'.sg # None => sect'.sg \in sect'.todo
        /\ sect'.gc => sect'.all /\ sect'.todo \cap UsedSGs' = {}
    BY <1>1, <1>2, InsideProgress
  <1> QED
    BY <1>3, <1>4 DEF Section

LEMMA InServiceInside ==
    ASSUME TypeOK, InService, Inside
    PROVE  InService'
  BY InsideFields DEF InService

\* A step of another run leaves the section as it is.
LEMMA SectionBeside ==
    ASSUME Section, sect' = sect, permsByTGB' = permsByTGB,
           sect.tgb \in TGBs => run'[sect.tgb] = run[sect.tgb] /\ comp'[sect.tgb] = comp[sect.tgb]
    PROVE  Section'
  <1>1. UsedSGs' = UsedSGs
    BY SameUsed
  <1>2. sect'.tgb = None => sect' = NoSection
    BY DEF Section
  <1>3. sect'.tgb \in TGBs => /\ run'[sect'.tgb] \in {"ready", "cleanup"}
                              /\ permsByTGB'[sect'.tgb] \in {None, comp'[sect'.tgb]}
    BY DEF Section
  <1> QED
    BY <1>1, <1>2, <1>3 DEF Section

LEMMA NoSectionSound ==
    ASSUME ConstantsAssumption, sect' = NoSection
    PROVE  Section'
  <1>1. sect'.sg = None /\ sect'.tgb = None /\ ~sect'.granted /\ ~sect'.revoked /\ ~sect'.gc
    BY DEF NoSection
  <1> QED
    BY <1>1 DEF Section, ConstantsAssumption

\* A TGB takes the mutex: what was remembered of it is what its run computed.
LEMMA LockSound ==
    ASSUME ConstantsAssumption, TypeOK, Section, InService, NEW t \in TGBs, Lock(t)
    PROVE  Section' /\ InService'
  <1>0. /\ run[t] \in {"ready", "cleanup"} /\ UNCHANGED <<tgb, need, run, comp, granted>>
        /\ comp[t] \in PerSG /\ comp[t] # None
    BY DEF Lock, TypeOK, ConstantsAssumption
  <1>1. /\ sect'.tgb = t /\ sect'.all = ComputedForAll(permsByTGB') /\ sect'.sg = None
        /\ ~sect'.granted /\ ~sect'.revoked /\ ~sect'.gc
    BY DEF Lock, NoSection
  <1>2. \A u \in TGBs : permsByTGB'[u] = IF u \in Exists THEN IF u = t THEN comp[t] ELSE permsByTGB[u]
                                         ELSE None
    BY DEF Lock, Consolidate, TypeOK
  <1>3. Section'
    <2>1. t # None
      BY DEF ConstantsAssumption
    <2>2. permsByTGB'[t] \in {None, comp'[t]} /\ run'[t] \in {"ready", "cleanup"}
      BY <1>0, <1>2
    <2> QED
      BY <1>1, <2>1, <2>2 DEF Section
  <1>4. ASSUME NEW u \in granted
        PROVE  /\ permsByTGB'[u] \in {None, need[u]} /\ (sect'.all => permsByTGB'[u] # None)
    <2>1. u \in TGBs /\ tgb[u] = "present" /\ u \in Exists
      BY DEF TypeOK, InService, Exists
    <2>2. permsByTGB'[u] \in {None, need[u]}
      BY <1>0, <1>2, <2>1 DEF InService
    <2>3. sect'.all => permsByTGB'[u] # None
      BY <1>1, <2>1 DEF ComputedForAll
    <2> QED
      BY <2>2, <2>3
  <1>5. InService'
    BY <1>0, <1>4 DEF InService
  <1> QED
    BY <1>3, <1>5

LEMMA AttemptSound ==
    ASSUME ConstantsAssumption, TypeOK, Section, InService, AttemptGarbageCollection
    PROVE  Section' /\ InService'
  <1>0. UNCHANGED <<tgb, need, run, comp, granted>>
    BY DEF AttemptGarbageCollection
  <1>1. \A u \in TGBs : permsByTGB'[u] = IF u \in Exists THEN permsByTGB[u] ELSE None
    BY DEF AttemptGarbageCollection, Consolidate
  <1>2. \/ sect' = NoSection
        \/ /\ sect'.tgb = "gc" /\ sect'.sg = None /\ ComputedForAll(permsByTGB')
           /\ ~sect'.granted /\ ~sect'.revoked /\ ~sect'.gc
    BY DEF AttemptGarbageCollection, NoSection
  <1>3. Section'
    <2>1. CASE sect' = NoSection
      BY <2>1, NoSectionSound
    <2>2. CASE /\ sect'.tgb = "gc" /\ sect'.sg = None
               /\ ~sect'.granted /\ ~sect'.revoked /\ ~sect'.gc
      <3>1. "gc" # None /\ "gc" \notin TGBs
        BY DEF ConstantsAssumption
      <3> QED
        BY <2>2, <3>1 DEF Section
    <2> QED
      BY <1>2, <2>1, <2>2
  <1>4. ASSUME NEW u \in granted
        PROVE  /\ permsByTGB'[u] \in {None, need[u]} /\ (sect'.all => permsByTGB'[u] # None)
    <2>1. u \in TGBs /\ tgb[u] = "present" /\ u \in Exists
      BY DEF TypeOK, InService, Exists
    <2>2. permsByTGB'[u] \in {None, need[u]}
      BY <1>1, <2>1 DEF InService
    <2>3. sect'.all => permsByTGB'[u] # None
      <3>1. sect' = NoSection => ~sect'.all
        BY OutsideSections
      <3>2. ComputedForAll(permsByTGB') => permsByTGB'[u] # None
        BY <2>1 DEF ComputedForAll
      <3> QED
        BY <1>2, <3>1, <3>2
    <2> QED
      BY <2>2, <2>3
  <1>5. InService'
    BY <1>0, <1>4 DEF InService
  <1> QED
    BY <1>3, <1>5

\* The mutex is released.  A TGB comes into service with what is remembered of it
\* being its need.
LEMMA UnlockSound ==
    ASSUME ConstantsAssumption, TypeOK, Section, InService, Unlock
    PROVE  Section' /\ InService'
  <1>1. PICK t \in TGBs : t = sect.tgb
    BY DEF Unlock
  <1>2. /\ run' = [run EXCEPT ![t] = "idle"] /\ comp' = [comp EXCEPT ![t] = Zero]
        /\ tgb' \in {tgb, [tgb EXCEPT ![t] = "absent"]}
        /\ (tgb' # tgb => run[t] = "cleanup")
        /\ granted' \subseteq granted \cup {t}
        /\ (t \in granted' => t \in granted \/ (tgb[t] = "present" /\ comp[t] = need[t]))
        /\ sect' = NoSection /\ need' = need /\ permsByTGB' = permsByTGB
    BY <1>1 DEF Unlock, memory
  <1>3. Section'
    BY <1>2, NoSectionSound
  <1>4. permsByTGB[t] \in {None, comp[t]}
    BY <1>1 DEF Section
  <1>5. ~sect'.all
    BY <1>2 DEF NoSection
  <1>6. ASSUME NEW u \in granted'
        PROVE  /\ tgb'[u] = "present" /\ permsByTGB'[u] \in {None, need'[u]}
               /\ run'[u] # "idle" => comp'[u] = need'[u]
    <2>0. u \in TGBs
      BY <1>2 DEF TypeOK
    <2>1. CASE u = t
      <3>1. tgb[t] = "present"
        BY <1>2, <2>1 DEF InService
      <3>2. tgb' = tgb
        BY <1>2, <3>1 DEF InService
      <3>3. permsByTGB[t] \in {None, need[t]}
        BY <1>2, <1>4, <2>1 DEF InService
      <3> QED
        BY <1>2, <2>1, <3>1, <3>2, <3>3 DEF TypeOK
    <2>2. CASE u # t
      <3>1. u \in granted
        BY <1>2, <2>2
      <3>2. tgb'[u] = tgb[u] /\ run'[u] = run[u] /\ comp'[u] = comp[u]
        BY <1>2, <2>0, <2>2 DEF TypeOK
      <3> QED
        BY <1>2, <3>1, <3>2 DEF InService
    <2> QED
      BY <2>1, <2>2
  <1>7. ASSUME NEW u \in TGBs, run'[u] = "cleanup"
        PROVE  tgb'[u] = "deleting"
    <2>1. u # t /\ run[u] = "cleanup"
      BY <1>2, <1>7 DEF TypeOK
    <2> QED
      BY <1>2, <2>1 DEF InService, TypeOK
  <1>8. InService'
    BY <1>5, <1>6, <1>7 DEF InService
  <1> QED
    BY <1>3, <1>8

\* A run up to the mutex computes the need of a TGB in service.
LEMMA RunsSound ==
    ASSUME ConstantsAssumption, TypeOK, Section, InService, NEW t \in TGBs,
           Start(t) \/ SaveSGInfosToCache(t) \/ ResolveFails(t)
    PROVE  Section' /\ InService'
  <1>1. /\ UNCHANGED <<tgb, need, permsByTGB, sect, granted>>
        /\ run[t] \in {"idle", "lookup"}
        /\ \A u \in TGBs : u # t => run'[u] = run[u] /\ comp'[u] = comp[u]
    BY DEF Start, SaveSGInfosToCache, ResolveFails, TypeOK, memory
  <1>2. Section'
    <2>1. sect.tgb \in TGBs => sect.tgb # t
      BY <1>1 DEF Section
    <2> QED
      BY <1>1, <2>1, SectionBeside
  <1>3. run'[t] = "cleanup" => tgb[t] = "deleting"
    BY DEF Start, SaveSGInfosToCache, ResolveFails, TypeOK
  <1>4. t \in granted /\ run'[t] # "idle" => comp'[t] = need[t]
    <2>1. t \in granted => tgb[t] = "present"
      BY DEF InService
    <2>2. CASE Start(t)
      BY <2>1, <2>2 DEF Start, TypeOK
    <2>3. CASE SaveSGInfosToCache(t)
      <3>1. comp' = comp /\ run[t] # "idle"
        BY <2>3 DEF SaveSGInfosToCache
      <3> QED
        BY <3>1 DEF InService
    <2>4. CASE ResolveFails(t)
      BY <2>4 DEF ResolveFails, TypeOK
    <2> QED
      BY <2>2, <2>3, <2>4
  <1>5. ASSUME NEW u \in TGBs
        PROVE  /\ u \in granted /\ run'[u] # "idle" => comp'[u] = need[u]
               /\ run'[u] = "cleanup" => tgb[u] = "deleting"
    BY <1>1, <1>3, <1>4 DEF InService
  <1>6. InService'
    BY <1>1, <1>5 DEF InService, TypeOK
  <1> QED
    BY <1>2, <1>6

\* The user's changes take a TGB out of service.
LEMMA ChangesSound ==
    ASSUME ConstantsAssumption, TypeOK, Section, InService, NEW t \in TGBs,
           DeleteTGB(t) \/ \E n \in Needs : SetNeed(t, n)
    PROVE  Section' /\ InService'
  <1>1. /\ UNCHANGED <<run, comp, permsByTGB, sect>> /\ granted' = granted \ {t}
        /\ \A u \in TGBs : u # t => tgb'[u] = tgb[u] /\ need'[u] = need[u]
        /\ tgb[t] = "deleting" => FALSE
    BY DEF DeleteTGB, SetNeed, TypeOK, memory
  <1>2. Section'
    BY <1>1, SectionBeside
  <1>3. ASSUME NEW u \in granted'
        PROVE  u \in granted /\ u \in TGBs /\ u # t
    BY <1>1, <1>3 DEF TypeOK
  <1>4. ASSUME NEW u \in TGBs, run'[u] = "cleanup"
        PROVE  tgb'[u] = "deleting"
    BY <1>1, <1>4 DEF InService
  <1> QED
    BY <1>1, <1>2, <1>3, <1>4 DEF InService

LEMMA SoundNext ==
    ASSUME ConstantsAssumption, TypeOK, Section, InService, [Next]_vars
    PROVE  Section' /\ InService'
  <1>1. CASE UnlockGC
    <2>1. sect' = NoSection /\ UNCHANGED <<tgb, need, run, comp, permsByTGB, granted>>
      BY <1>1 DEF UnlockGC, memory
    <2>2. ~sect'.all
      BY <2>1 DEF NoSection
    <2> QED
      BY <2>1, <2>2, NoSectionSound DEF InService
  <1>2. ASSUME NEW s \in SGs, Expire(s)
        PROVE  Section' /\ InService'
    <2>1. UNCHANGED <<sect, tgb, need, run, comp, permsByTGB, granted>>
      BY <1>2 DEF Expire, memory
    <2> QED
      BY <2>1, SectionBeside DEF InService
  <1>3. CASE Restart
    <2>1. /\ sect' = NoSection /\ UNCHANGED <<tgb, need, granted>>
          /\ \A t \in TGBs : run'[t] = "idle" /\ permsByTGB'[t] = None
      BY <1>3 DEF Restart
    <2>2. ~sect'.all
      BY <2>1 DEF NoSection
    <2>3. InService'
      BY <2>1, <2>2 DEF InService, TypeOK
    <2> QED
      BY <2>1, <2>3, NoSectionSound
  <1>4. CASE UNCHANGED vars
    <2>1. UNCHANGED <<sect, tgb, need, run, comp, permsByTGB, granted>>
      BY <1>4 DEF vars, memory
    <2> QED
      BY <2>1, SectionBeside DEF InService
  <1>5. CASE Inside
    BY <1>5, SectionInside, InServiceInside
  <1>6. CASE Unlock
    BY <1>6, UnlockSound
  <1>7. CASE AttemptGarbageCollection
    BY <1>7, AttemptSound
  <1>8. ASSUME NEW t \in TGBs,
               Start(t) \/ SaveSGInfosToCache(t) \/ ResolveFails(t) \/ Lock(t) \/ DeleteTGB(t)
               \/ (\E n \in Needs : SetNeed(t, n))
        PROVE  Section' /\ InService'
    BY <1>8, RunsSound, LockSound, ChangesSound
  <1> QED
    BY <1>1, <1>2, <1>3, <1>4, <1>5, <1>6, <1>7, <1>8 DEF Next, InSection, Inside

-----------------------------------------------------------------------------
(***************************************************************************)
(* What is known of EC2.                                                   *)
(***************************************************************************)
LEMMA SameDesired ==
    ASSUME permsByTGB' = permsByTGB, setting' = setting, sect'.gc = sect.gc, sect'.sg = sect.sg,
           sect'.info = sect.info, sect'.all = sect.all
    PROVE  Grants' = Grants /\ Revokes' = Revokes
  <1>1. PortsFor(sect.sg)' = PortsFor(sect.sg)
    BY DEF PortsFor, Remembered
  <1>2. Aggregated(sect.sg)' = Aggregated(sect.sg)
    BY <1>1 DEF Aggregated
  <1>3. Desired(sect.sg)' = Desired(sect.sg)
    BY <1>2 DEF Desired
  <1> QED
    BY <1>3 DEF Grants, Revokes

\* Rules that were granted have other ports than those fetched, so revoking
\* afterwards leaves them.
LEMMA DiffAfterGrant ==
    ASSUME NEW info, NEW want, NEW R, R \subseteq info, NEW G, G \subseteq Diff(want, info)
    PROVE  Diff(info \cup G, R) = Diff(info, R) \cup G
  BY DEF Diff

\* Outside the security group in hand nothing is known but that the cache is
\* what EC2 has.
LEMMA KnownIf ==
    ASSUME setting' = setting,
           TrustedCache => \A t \in TGBs : run'[t] # "lookup",
           TrustedCache => \A s \in SGs : cache'[s] \in {None, aws'[s]},
           sect'.sg = None
    PROVE  Known'
  BY DEF Known, TrustedCache

LEMMA KnownInside ==
    ASSUME ConstantsAssumption, TypeOK, Section, Known, Inside
    PROVE  Known'
  <1>t. sect \in Sections
    BY DEF TypeOK
  <1>u. UNCHANGED <<setting, run, permsByTGB>> /\ sect'.all = sect.all
    BY InsideFields
  <1> SUFFICES ASSUME TrustedCache
               PROVE  Known'
    BY <1>u DEF Known, TrustedCache
  <1>r. \A t \in TGBs : run'[t] # "lookup"
    BY <1>u DEF Known
  <1>c. \A s \in SGs : cache[s] \in {None, aws[s]}
    BY DEF Known
  <1>k. sect.sg # None =>
             aws[sect.sg] = (IF sect.revoked THEN Diff(sect.info, Revokes) ELSE sect.info)
                            \cup (IF sect.granted THEN Grants ELSE {})
    BY DEF Known
  <1>n. NextSG(TRUE).sg = None /\ NextSG(FALSE).sg = None
    BY <1>t, NextSGFields
  <1>1. ASSUME NEW s \in SGs, Fetch(s)
        PROVE  Known'
    <2>1. /\ aws' = aws /\ sect'.sg = s /\ sect'.info = aws[s]
          /\ ~sect'.granted /\ ~sect'.revoked
      BY <1>t, <1>c, <1>1 DEF Fetch, Sections, Section
    <2>2. \A x \in SGs : cache'[x] \in {None, aws[x]}
      BY <1>1, <1>c, <2>1 DEF Fetch, TypeOK
    <2> QED
      BY <1>r, <2>1, <2>2 DEF Known
  <1>2. CASE AuthorizeSGIngress
    <2>1. /\ sect.sg # None /\ sect'.sg = sect.sg /\ sect'.info = sect.info /\ sect'.gc = sect.gc
          /\ sect'.granted /\ sect'.revoked = sect.revoked /\ ~sect.granted
      BY <1>t, <1>2 DEF AuthorizeSGIngress, GrantTurn, ToGrant, Sections
    <2>2. sect.sg \in SGs
      BY <2>1, GrantRevokeType
    <2>3. ToGrant = Grants
      BY <2>1 DEF ToGrant, Grants
    <2>4. /\ aws'[sect.sg] = aws[sect.sg] \cup Grants
          /\ \A x \in SGs : x # sect.sg => aws'[x] = aws[x]
      BY <1>2, <2>2, <2>3 DEF AuthorizeSGIngress, TypeOK
    <2>5. \A x \in SGs : cache'[x] \in {None, aws'[x]}
      BY <1>2, <1>c, <2>4 DEF AuthorizeSGIngress, TypeOK
    <2>6. Grants' = Grants /\ Revokes' = Revokes
      BY <1>u, <2>1, SameDesired
    <2>7. aws'[sect'.sg] = (IF sect'.revoked THEN Diff(sect'.info, Revokes') ELSE sect'.info)
                           \cup (IF sect'.granted THEN Grants' ELSE {})
      BY <1>k, <2>1, <2>4, <2>6
    <2> QED
      BY <1>r, <2>5, <2>7 DEF Known
  <1>3. CASE RevokeSGIngress
    <2>1. /\ sect.sg # None /\ sect'.sg = sect.sg /\ sect'.info = sect.info /\ sect'.gc = sect.gc
          /\ sect'.granted = sect.granted /\ sect'.revoked /\ ~sect.revoked /\ (sect.all \/ sect.gc)
      BY <1>t, <1>3 DEF RevokeSGIngress, RevokeTurn, ToRevoke, Sections
    <2>2. sect.sg \in SGs /\ sect.all
      BY <2>1, GrantRevokeType DEF Section
    <2>3. ToRevoke = Revokes /\ Revokes \subseteq sect.info
      BY <2>1, <2>2, DiffSubset DEF ToRevoke, Revokes
    <2>4. /\ aws'[sect.sg] = Diff(aws[sect.sg], Revokes)
          /\ \A x \in SGs : x # sect.sg => aws'[x] = aws[x]
      BY <1>3, <2>2, <2>3 DEF RevokeSGIngress, TypeOK
    <2>5. \A x \in SGs : cache'[x] \in {None, aws'[x]}
      BY <1>3, <1>c, <2>4 DEF RevokeSGIngress, TypeOK
    <2>6. Grants' = Grants /\ Revokes' = Revokes
      BY <1>u, <2>1, SameDesired
    <2>7. Diff(aws[sect.sg], Revokes) = Diff(sect.info, Revokes) \cup (IF sect.granted THEN Grants ELSE {})
      <3>1. PICK G : G = IF sect.granted THEN Grants ELSE {}
        OBVIOUS
      <3>2. G \subseteq Diff(Desired(sect.sg), sect.info) /\ aws[sect.sg] = sect.info \cup G
        BY <1>k, <2>1, <3>1 DEF Grants
      <3>3. Diff(sect.info \cup G, Revokes) = Diff(sect.info, Revokes) \cup G
        BY <2>3, <3>2, DiffAfterGrant
      <3> QED
        BY <3>1, <3>2, <3>3
    <2>8. aws'[sect'.sg] = (IF sect'.revoked THEN Diff(sect'.info, Revokes') ELSE sect'.info)
                           \cup (IF sect'.granted THEN Grants' ELSE {})
      BY <2>1, <2>4, <2>6, <2>7
    <2> QED
      BY <1>r, <2>5, <2>8 DEF Known
  <1>4. CASE SGDone
    <2>1. aws' = aws /\ cache' = cache /\ sect'.sg = None
      BY <1>4, <1>n DEF SGDone
    <2> QED
      BY <1>u, <1>r, <1>c, <2>1, KnownIf
  <1>5. CASE RetryWithoutCache
    <2>1. PICK limit \in BOOLEAN : Refused(limit) /\ sect.sg # None
      BY <1>5 DEF RetryWithoutCache, GrantTurn, RevokeTurn
    <2>2. sect.sg \in SGs
      BY <2>1, GrantRevokeType
    <2>3. aws' = aws
      BY <2>1 DEF Refused
    <2>4. \/ sect'.sg = None
          \/ sect'.sg = sect.sg /\ sect'.info = aws[sect.sg] /\ ~sect'.granted /\ ~sect'.revoked
      BY <2>1, <1>n, <1>t DEF Refused, Sections
    <2>5. \A x \in SGs : cache'[x] \in {None, aws[x]}
      BY <2>1, <2>2, <1>c DEF Refused, TypeOK
    <2> QED
      BY <2>3, <2>4, <2>5, <1>r DEF Known
  <1>6. CASE CollectGarbage
    <2>1. aws' = aws /\ cache' = cache /\ sect'.sg = None
      BY <1>6, <1>t DEF CollectGarbage, Sections
    <2> QED
      BY <1>u, <1>r, <1>c, <2>1, KnownIf
  <1>7. CASE CallFails
    <2>1. aws' = aws /\ cache' = cache /\ sect'.sg = None
      BY <1>7, <1>n DEF CallFails, TrustedCache
    <2> QED
      BY <1>u, <1>r, <1>c, <2>1, KnownIf
  <1> QED
    BY <1>1, <1>2, <1>3, <1>4, <1>5, <1>6, <1>7 DEF Inside

LEMMA KnownNext ==
    ASSUME ConstantsAssumption, TypeOK, Section, Known, [Next]_vars
    PROVE  Known'
  <1>r. TrustedCache => \A t \in TGBs : run[t] # "lookup"
    BY DEF Known
  <1>c. TrustedCache => \A s \in SGs : cache[s] \in {None, aws[s]}
    BY DEF Known
  <1>1. CASE Unlock \/ UnlockGC \/ Restart \/ AttemptGarbageCollection \/ \E t \in TGBs : Lock(t)
    <2>1. setting' = setting /\ aws' = aws
      BY <1>1 DEF Unlock, UnlockGC, Restart, AttemptGarbageCollection, Lock
    <2>2. \A t \in TGBs : run'[t] \in {run[t], "idle"}
      BY <1>1 DEF Unlock, UnlockGC, Restart, AttemptGarbageCollection, Lock, TypeOK
    <2>3. \A s \in SGs : cache'[s] \in {cache[s], None}
      BY <1>1 DEF Unlock, UnlockGC, Restart, AttemptGarbageCollection, Lock
    <2>4. sect'.sg = None
      <3>1. ASSUME NEW t \in TGBs, Lock(t)
            PROVE  sect'.sg = None
        BY <3>1 DEF Lock, NoSection
      <3>2. AttemptGarbageCollection => sect'.sg = None
        BY DEF AttemptGarbageCollection, NoSection
      <3>3. Unlock \/ UnlockGC => sect'.sg = None
        <4>1. Unlock \/ UnlockGC => sect' = NoSection
          BY DEF Unlock, UnlockGC
        <4> QED
          BY <4>1, OutsideSections
      <3>4. Restart => sect'.sg = None
        <4>1. Restart => sect' = NoSection
          BY DEF Restart
        <4> QED
          BY <4>1, OutsideSections
      <3> QED
        BY <1>1, <3>1, <3>2, <3>3, <3>4
    <2> QED
      BY <2>1, <2>2, <2>3, <2>4, <1>r, <1>c, KnownIf
  <1>2. CASE \/ UNCHANGED vars \/ \E s \in SGs : Expire(s)
             \/ \E t \in TGBs : \/ Start(t) \/ SaveSGInfosToCache(t) \/ ResolveFails(t) \/ DeleteTGB(t)
                                \/ \E n \in Needs : SetNeed(t, n)
    <2>1. UNCHANGED <<setting, sect, aws, permsByTGB>>
      BY <1>2 DEF vars, Expire, Start, SaveSGInfosToCache, ResolveFails, DeleteTGB, SetNeed, memory
    <2> SUFFICES ASSUME TrustedCache
                 PROVE  Known'
      BY <2>1 DEF Known, TrustedCache
    <2>2. \A s \in SGs : cache'[s] \in {None, aws'[s]}
      BY <1>2, <1>r, <1>c, <2>1
         DEF vars, Expire, Start, SaveSGInfosToCache, ResolveFails, DeleteTGB, SetNeed, TypeOK
    <2>3. \A t \in TGBs : run'[t] # "lookup"
      <3>1. CASE UNCHANGED vars \/ \E s \in SGs : Expire(s)
        BY <3>1, <1>r DEF vars, Expire
      <3>2. ASSUME NEW t \in TGBs, Start(t) \/ SaveSGInfosToCache(t) \/ ResolveFails(t)
            PROVE  \A u \in TGBs : run'[u] # "lookup"
        BY <3>2, <1>r DEF Start, SaveSGInfosToCache, ResolveFails, TypeOK, TrustedCache
      <3>3. ASSUME NEW t \in TGBs, DeleteTGB(t) \/ \E n \in Needs : SetNeed(t, n)
            PROVE  \A u \in TGBs : run'[u] # "lookup"
        BY <3>3, <1>r DEF DeleteTGB, SetNeed
      <3> QED
        BY <1>2, <3>1, <3>2, <3>3
    <2>4. Grants' = Grants /\ Revokes' = Revokes
      BY <2>1, SameDesired
    <2>5. sect'.sg # None =>
             aws'[sect'.sg] = (IF sect'.revoked THEN Diff(sect'.info, Revokes') ELSE sect'.info)
                              \cup (IF sect'.granted THEN Grants' ELSE {})
      BY <2>1, <2>4 DEF Known
    <2> QED
      BY <2>2, <2>3, <2>5 DEF Known
  <1>3. CASE Inside
    BY <1>3, KnownInside
  <1> QED
    BY <1>1, <1>2, <1>3 DEF Next, InSection, Inside

-----------------------------------------------------------------------------
(***************************************************************************)
(* The theorems.                                                           *)
(***************************************************************************)
LEMMA InvInit ==
    ASSUME ConstantsAssumption
    PROVE  Init => Inv
  <1> SUFFICES ASSUME Init
               PROVE  Inv
    OBVIOUS
  <1>1. /\ sect = NoSection /\ granted = {} /\ \A t \in TGBs : run[t] = "idle"
        /\ \A s \in SGs : cache[s] = None
    BY DEF Init
  <1>2. sect.tgb = None /\ sect.sg = None /\ ~sect.granted /\ ~sect.revoked /\ ~sect.gc
    BY <1>1 DEF NoSection
  <1>3. Section
    BY <1>1, <1>2 DEF Section, ConstantsAssumption
  <1>4. InService
    BY <1>1 DEF InService
  <1>5. Known
    BY <1>1, <1>2 DEF Known
  <1> QED
    BY <1>3, <1>4, <1>5, TypeInit, DistinctInit DEF Inv

LEMMA InvNext ==
    ASSUME ConstantsAssumption, Inv, [Next]_vars
    PROVE  Inv'
  BY TypeNext, DistinctNext, SoundNext, KnownNext DEF Inv

\* The inductive invariant of the critical section, of the TGBs in service and
\* of what the manager knows of EC2.
THEOREM Invariance ==
    ASSUME ConstantsAssumption
    PROVE  Spec => []Inv
  BY InvInit, InvNext, PTL DEF Spec

\* Once there is nothing more to grant, EC2 has every desired rule.
LEMMA DesiredThere ==
    ASSUME TrustedCache, Known, sect.sg # None, ToGrant = {}
    PROVE  \A d \in Desired(sect.sg) : \E q \in aws[sect.sg] : HashCode(q) = HashCode(d)
  <1> SUFFICES ASSUME NEW d \in Desired(sect.sg)
               PROVE  \E q \in aws[sect.sg] : HashCode(q) = HashCode(d)
    OBVIOUS
  <1>1. aws[sect.sg] = (IF sect.revoked THEN Diff(sect.info, Revokes) ELSE sect.info)
                       \cup (IF sect.granted THEN Grants ELSE {})
    BY DEF Known
  <1>2. CASE \E q \in sect.info : HashCode(q) = HashCode(d)
    <2>1. PICK q \in sect.info : HashCode(q) = HashCode(d)
      BY <1>2
    <2>2. \A r \in Revokes : HashCode(r) # HashCode(q)
      BY <2>1 DEF Revokes, Diff
    <2>3. q \in Diff(sect.info, Revokes)
      BY <2>2 DEF Diff
    <2> QED
      BY <1>1, <2>1, <2>3
  <1>3. CASE ~\E q \in sect.info : HashCode(q) = HashCode(d)
    <2>1. d \in Grants
      BY <1>3 DEF Grants, Diff
    <2>2. sect.granted
      BY <2>1 DEF ToGrant, Grants
    <2> QED
      BY <1>1, <2>1, <2>2
  <1> QED
    BY <1>2, <1>3

(***************************************************************************)
(* GroupsReconciled: where the cached description is what EC2 has,         *)
(* ReconcileIngress returns without an error only when the security group  *)
(* has every desired rule and, unless it was told to authorize only, no    *)
(* other rule of ours, however the grant, the revocation, refused calls    *)
(* and the retry without the cache were interleaved with other runs.       *)
(***************************************************************************)
THEOREM GroupsReconciled ==
    ASSUME ConstantsAssumption
    PROVE  Spec => []Reconciled
  <1>1. Inv => Reconciled
    <2> SUFFICES ASSUME Inv, TrustedCache, SGReturns
                 PROVE  /\ DesiredGranted
                        /\ sect.all => {r \in Diff(aws[sect.sg], Desired(sect.sg)) : r.ours} = {}
      BY DEF Reconciled
    <2>0. sect.sg # None /\ ToGrant = {} /\ ToRevoke = {} /\ Known
      BY DEF SGReturns, Inv
    <2>1. DesiredGranted
      BY <2>0, DesiredThere DEF DesiredGranted, Diff
    <2>2. ASSUME sect.all, NEW r \in Diff(aws[sect.sg], Desired(sect.sg)), r.ours
          PROVE  FALSE
      <3>1. aws[sect.sg] = (IF sect.revoked THEN Diff(sect.info, Revokes) ELSE sect.info)
                           \cup (IF sect.granted THEN Grants ELSE {})
        BY <2>0 DEF Known
      <3>2. r \in aws[sect.sg] /\ r \notin Grants
        BY <2>2 DEF Diff, Grants
      <3>3. r \in sect.info
        BY <3>1, <3>2, DiffSubset
      <3>4. r \in Revokes
        BY <2>2, <3>3 DEF Revokes, Diff
      <3>5. sect.revoked
        BY <2>0, <2>2, <3>4 DEF ToRevoke, Revokes
      <3>6. r \notin Diff(sect.info, Revokes)
        BY <3>4 DEF Diff
      <3> QED
        BY <3>1, <3>2, <3>5, <3>6
    <2> QED
      BY <2>1, <2>2
  <1> QED
    BY <1>1, Invariance, PTL

\* Only a revocation takes rules away.
LEMMA OnlyRevokeShrinks ==
    ASSUME ConstantsAssumption, TypeOK, TrustedCache, [Next]_vars, NEW s \in SGs
    PROVE  aws[s] \subseteq aws'[s] \/ RevokeSGIngress
  <1>1. CASE AuthorizeSGIngress
    BY <1>1 DEF AuthorizeSGIngress, TypeOK
  <1>2. CASE CallFails
    BY <1>2 DEF CallFails, TrustedCache
  <1>3. CASE RetryWithoutCache
    BY <1>3 DEF RetryWithoutCache, Refused
  <1>4. CASE \/ (\E x \in SGs : Fetch(x)) \/ SGDone \/ CollectGarbage \/ Unlock \/ UnlockGC
             \/ AttemptGarbageCollection \/ Restart \/ (\E x \in SGs : Expire(x)) \/ UNCHANGED vars
    BY <1>4 DEF Fetch, SGDone, CollectGarbage, Unlock, UnlockGC, AttemptGarbageCollection,
                Restart, Expire, vars
  <1>5. ASSUME NEW t \in TGBs,
               Start(t) \/ SaveSGInfosToCache(t) \/ ResolveFails(t) \/ Lock(t) \/ DeleteTGB(t)
               \/ (\E n \in Needs : SetNeed(t, n))
        PROVE  aws' = aws
    BY <1>5 DEF Start, SaveSGInfosToCache, ResolveFails, Lock, DeleteTGB, SetNeed
  <1> QED
    BY <1>1, <1>2, <1>3, <1>4, <1>5 DEF Next, InSection

\* A revocation that does not come first leaves the ports of every TGB in
\* service open: all TGBs are remembered, so their needs are part of the desired
\* rules, which are all in EC2 already and of which none is revoked.
LEMMA RevokeSafe ==
    ASSUME ConstantsAssumption, Inv, TrustedCache, ~sect.revokeFirst, RevokeSGIngress,
           NEW t \in granted, NEW p \in need[t][sect.sg]
    PROVE  Covers(aws'[sect.sg], p)
  <1>0. TypeOK /\ Section /\ InService /\ Known
    BY DEF Inv
  <1>1. sect.sg # None /\ ToGrant = {} /\ ToRevoke # {}
    BY DEF RevokeSGIngress, RevokeTurn
  <1>2. sect.sg \in SGs /\ t \in TGBs
    BY <1>0, <1>1, GrantRevokeType DEF TypeOK
  <1>3. sect.all
    BY <1>0, <1>1 DEF ToRevoke, Section
  <1>4. permsByTGB[t] = need[t] /\ permsByTGB[t] # None
    BY <1>0, <1>3 DEF InService
  <1>5. p \in PortsFor(sect.sg)
    BY <1>2, <1>4 DEF PortsFor, Remembered
  <1>6. ~sect.gc
    BY <1>0, <1>1, <1>2, <1>5 DEF Section, UsedSGs
  <1>7. PICK d \in Desired(sect.sg) : d.lo <= p /\ p <= d.hi
    BY <1>0, <1>2, <1>5, <1>6, AggregatedCovers DEF Desired, Covers
  <1>8. PICK q \in aws[sect.sg] : HashCode(q) = HashCode(d)
    BY <1>0, <1>1, DesiredThere
  <1>9. \A r \in ToRevoke : HashCode(r) # HashCode(q)
    BY <1>8 DEF ToRevoke, Diff
  <1>10. aws'[sect.sg] = Diff(aws[sect.sg], ToRevoke)
    BY <1>0, <1>2 DEF RevokeSGIngress, TypeOK
  <1>11. q \in aws'[sect.sg]
    BY <1>9, <1>10 DEF Diff
  <1>12. q.lo = d.lo /\ q.hi = d.hi
    BY <1>8, SameHash
  <1> QED
    BY <1>7, <1>11, <1>12 DEF Covers

(***************************************************************************)
(* ServiceKept: no step closes a port of a TGB that is in service, not     *)
(* even the reconcile of another TGB after a restart, when the manager     *)
(* remembers nothing of this one (ComputedForAll, WithAuthorizeOnly), nor  *)
(* the collection of rules in security groups no longer used.              *)
(***************************************************************************)
THEOREM ServiceKept ==
    ASSUME ConstantsAssumption
    PROVE  Spec => [][KeepsCoverage]_vars
  <1>1. ASSUME Inv, [Next]_vars
        PROVE  KeepsCoverage
    <2> SUFFICES ASSUME TrustedCache, ~sect.revokeFirst,
                        NEW t \in granted \cap granted', NEW s \in SGs, NEW p \in need[t][s],
                        Covers(aws[s], p)
                 PROVE  Covers(aws'[s], p)
      BY DEF KeepsCoverage
    <2>0. TypeOK
      BY <1>1 DEF Inv
    <2>1. CASE aws[s] \subseteq aws'[s]
      BY <2>1 DEF Covers
    <2>2. CASE RevokeSGIngress /\ s # sect.sg
      <3>1. aws'[s] = aws[s]
        BY <2>0, <2>2 DEF RevokeSGIngress, TypeOK
      <3> QED
        BY <3>1
    <2>3. CASE RevokeSGIngress /\ s = sect.sg
      BY <1>1, <2>3, RevokeSafe
    <2> QED
      BY <1>1, <2>0, <2>1, <2>2, <2>3, OnlyRevokeShrinks
  <1> QED
    BY <1>1, Invariance, PTL DEF Spec
=============================================================================
