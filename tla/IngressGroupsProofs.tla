------------------------ MODULE IngressGroupsProofs ------------------------
(* Proofs about IngressGroups for all Ingresses, groups and settings in which *)
(* no user brings an Ingress back to a group that is letting go of it: the    *)
(* controller implements IngressServing, every served Ingress is finalized,   *)
(* and no Ingress is withdrawn from a load balancer by accident once the      *)
(* cache shows its finalizer.                                                 *)
EXTENDS IngressGroups, SequenceTheorems, WellFoundedInduction, NaturalsInduction, TLAPS

NoReturns == \A s \in Settings : ~s.returns

(* The groups of a version, as a function of the class. *)
Ids(c, by, i, v) ==
  LET name == IF i \in by /\ c.group # "" THEN c.group ELSE v.group IN
  IF \/ v.del \/ ~v.there \/ v.group = "off"
     \/ i \in by /\ c.state \in {"invalid", "foreign"}
     \/ name = "bad"
  THEN {}
  ELSE IF name = "" THEN {i} ELSE {name}

Of(i, v) == Ids(class, setting.byClassName, i, v)

(***************************************************************************)
(* Types                                                                   *)
(***************************************************************************)
Revs == {0, 1}

Maps(T) == UNION {[S -> T] : S \in SUBSET Ingresses}

Statuses == (Groups \cup {""}) \X (Groups \cup {""})

GroupPlans == {<<>>} \cup (Groups \X Maps(Revs))

Versions ==
  [there : BOOLEAN, group : Annotations, del : BOOLEAN, fins : SUBSET Groups, rev : Revs,
   status : Statuses, plan : GroupPlans]

Stages == {"idle", "finalize", "plan", "deploy", "status", "release"}

Runs == [pc : Stages, todo : SUBSET Ingresses, members : Maps(Versions),
         inactive : SUBSET Ingresses, unseen : SUBSET Ingresses]

TypeOK ==
  /\ setting \in Settings
  /\ api \in [Ingresses -> Versions]
  /\ cache \in [Ingresses -> Versions]
  /\ events \in [Ingresses -> Seq(Versions)]
  /\ class \in Classes
  /\ backend \in Revs
  /\ run \in [Groups -> Runs]
  /\ lb \in [Groups -> Maps(Revs \X Revs)]

(***************************************************************************)
(* The inductive invariant                                                 *)
(***************************************************************************)
Pending(i) == {events[i][k] : k \in DOMAIN events[i]}

(* The informer delivers every version up to the one at the API server, and   *)
(* finalizers are never removed behind its back.                              *)
Informed(i) ==
  /\ IF events[i] = <<>> THEN cache[i] = api[i] ELSE events[i][Len(events[i])] = api[i]
  /\ ~api[i].there => api[i].fins = {}
  /\ \A v \in Pending(i) : v.fins \subseteq api[i].fins

(* No group that is letting go of i has it back, see Returns. *)
Gone(g, i) ==
  /\ g \in api[i].fins /\ g \in Of(i, api[i]) =>
       /\ i \notin run[g].inactive
       /\ g \in Of(i, cache[i]) /\ \A v \in Pending(i) : g \in Of(i, v)
  /\ g \in cache[i].fins /\ g \notin api[i].fins => g \notin Of(i, cache[i])

(* The stages of a reconcile and the Ingresses each works through. *)
Staged(g) ==
  LET r == run[g] IN
  /\ Members(r) \cap r.inactive = {}
  /\ r.pc = "idle" => Members(r) = {} /\ r.inactive = {}
  /\ r.pc \in {"finalize", "plan", "status"} => r.todo \subseteq Members(r)
  /\ r.pc = "release" => r.todo \subseteq r.inactive

(* Members that show the finalizer have it; those worked through have it. *)
Held(g) ==
  LET r == run[g] IN
  \A i \in Members(r) :
    /\ g \in cache[i].fins => g \in api[i].fins
    /\ \/ r.pc = "finalize" /\ i \notin r.todo
       \/ r.pc \in {"plan", "deploy"}
       => g \in api[i].fins

(* A served Ingress carries the finalizer.  The reconcile under way knows it, *)
(* or did not see that finalizer; one that has deployed serves its members.   *)
Guarded(g) ==
  LET r == run[g] IN
  /\ \A i \in Served(g) : g \in api[i].fins
  /\ r.pc \in {"finalize", "plan", "deploy"} =>
       Served(g) \subseteq Members(r) \cup r.inactive \cup r.unseen
  /\ r.pc \in {"status", "release"} => Served(g) = Members(r)

Inv ==
  /\ TypeOK
  /\ \A i \in Ingresses : Informed(i)
  /\ \A g \in Groups, i \in Ingresses : Gone(g, i)
  /\ \A g \in Groups : Staged(g) /\ Held(g) /\ Guarded(g)

-----------------------------------------------------------------------------
(***************************************************************************)
(* Lemmas about the operators                                              *)
(***************************************************************************)
(* The first of some Ingresses is one of them. *)
LEMMA FirstIn ==
  ASSUME NEW S \in SUBSET Ingresses, S # {}
  PROVE  First(S) \in S
<1>1. \A i \in S : Position(i) \in Nat
  <2> SUFFICES ASSUME NEW i \in S PROVE Position(i) \in Nat
    OBVIOUS
  <2>1. DOMAIN Names \subseteq Nat
    BY NamesAssumption, LenProperties
  <2>2. \E k \in DOMAIN Names : Names[k] = i
    BY DEF Ingresses
  <2> QED BY <2>1, <2>2 DEF Position
<1> DEFINE T == {Position(i) : i \in S}
<1>2. T \subseteq Nat /\ T # {}
  BY <1>1
<1>3. \E k \in T : \A l \in T : ~(<<l, k>> \in OpToRel(<, Nat))
  BY <1>2, NatLessThanWellFounded, WFMin
<1>4. \E k \in T : \A l \in T : k <= l
  <2> HIDE DEF T
  <2>1. PICK k \in T : \A l \in T : ~(<<l, k>> \in OpToRel(<, Nat))
    BY <1>3
  <2>2. ASSUME NEW l \in T PROVE k <= l
    <3>1. k \in Nat /\ l \in Nat
      BY <1>2
    <3>2. ~(l < k)
      BY <2>1, <3>1 DEF OpToRel
    <3> QED BY <3>1, <3>2
  <2> QED BY <2>2
<1>5. \E i \in S : \A j \in S : Position(i) <= Position(j)
  BY <1>4
<1> QED BY <1>5 DEF First

(* The groups of a version are those the code finds; they depend on the        *)
(* version's group, on its deletion and on the class only.                     *)
LEMMA IdsAre ==
  \A i, v : loadGroupIDIfAnyHelper(i, v).ids = Of(i, v)
<1> SUFFICES ASSUME NEW i, NEW v PROVE loadGroupIDIfAnyHelper(i, v).ids = Of(i, v)
  OBVIOUS
<1> USE DEF loadGroupIDIfAnyHelper, loadGroupID, NoGroup, ByClassName, Of, Ids
<1>1. CASE v.del \/ ~v.there \/ v.group = "off"
  BY <1>1
<1>2. CASE ~(v.del \/ ~v.there \/ v.group = "off") /\ i \notin setting.byClassName
  BY <1>2
<1>3. CASE ~(v.del \/ ~v.there \/ v.group = "off") /\ i \in setting.byClassName
  BY <1>3
<1> QED BY <1>1, <1>2, <1>3

LEMMA IdsSame ==
  ASSUME NEW c, NEW by, NEW i, NEW v, NEW w,
         v.there = w.there, v.del = w.del, v.group = w.group
  PROVE  Ids(c, by, i, v) = Ids(c, by, i, w)
BY DEF Ids

LEMMA IdsNone ==
  ASSUME NEW c, NEW by, NEW i, NEW v, v.del \/ ~v.there
  PROVE  Ids(c, by, i, v) = {}
BY DEF Ids

(* The Ingresses whose class does not matter. *)
LEMMA IdsOther ==
  ASSUME NEW c, NEW d, NEW by, NEW i, i \notin by, NEW v
  PROVE  Ids(c, by, i, v) = Ids(d, by, i, v)
BY DEF Ids

LEMMA OfSame ==
  ASSUME NEW i, NEW v, NEW w, v.there = w.there, v.del = w.del, v.group = w.group
  PROVE  Of(i, v) = Of(i, w)
BY IdsSame DEF Of

(* No Ingress returns, in terms of the groups of its versions. *)
LEMMA GoneIs ==
  \A i : ~Returns(i) <=> \A g \in Groups : Gone(g, i)
BY IdsAre DEF Returns, InGroup, Underway, Gone, Pending

(* Sequences of events. *)
Elements(s) == {s[k] : k \in DOMAIN s}

LEMMA AppendElements ==
  ASSUME NEW T, NEW s \in Seq(T), NEW v \in T
  PROVE  /\ Append(s, v) \in Seq(T) /\ Append(s, v) # <<>>
         /\ Append(s, v)[Len(Append(s, v))] = v
         /\ Elements(Append(s, v)) = Elements(s) \cup {v}
<1>1. /\ Append(s, v) \in Seq(T) /\ Len(Append(s, v)) = Len(s) + 1
      /\ \A k \in 1..Len(s) : Append(s, v)[k] = s[k]
      /\ Append(s, v)[Len(s) + 1] = v /\ Len(s) \in Nat
  BY AppendProperties, LenProperties
<1>2. DOMAIN s = 1..Len(s) /\ DOMAIN Append(s, v) = 1..(Len(s) + 1)
  BY <1>1, LenProperties
<1>3. Elements(Append(s, v)) = Elements(s) \cup {v}
  BY <1>1, <1>2 DEF Elements
<1>4. Append(s, v) # <<>>
  BY <1>1, EmptySeq
<1> QED BY <1>1, <1>3, <1>4

LEMMA TailElements ==
  ASSUME NEW T, NEW s \in Seq(T), s # <<>>
  PROVE  /\ Head(s) \in Elements(s) /\ Head(s) \in T
         /\ Tail(s) \in Seq(T) /\ Elements(Tail(s)) \subseteq Elements(s)
         /\ IF Tail(s) = <<>> THEN Head(s) = s[Len(s)]
            ELSE Tail(s)[Len(Tail(s))] = s[Len(s)]
<1>1. /\ Head(s) \in T /\ Tail(s) \in Seq(T) /\ Len(Tail(s)) = Len(s) - 1
      /\ \A i \in 1 .. Len(Tail(s)) : Tail(s)[i] = s[i+1]
  BY HeadTailProperties
<1>2. Len(s) \in Nat \ {0} /\ DOMAIN s = 1..Len(s) /\ DOMAIN Tail(s) = 1..(Len(s) - 1)
  BY <1>1, EmptySeq, LenProperties
<1>3. Head(s) = s[1]
  BY <1>2
<1>4. Tail(s) = <<>> => Len(s) = 1
  BY <1>1, <1>2, EmptySeq
<1>5. Tail(s) # <<>> => Len(Tail(s)) \in 1..Len(Tail(s)) /\ Len(Tail(s)) + 1 = Len(s)
  BY <1>1, <1>2, EmptySeq
<1>6. Head(s) \in Elements(s) /\ Elements(Tail(s)) \subseteq Elements(s)
  BY <1>1, <1>2, <1>3 DEF Elements
<1> QED BY <1>1, <1>3, <1>4, <1>5, <1>6

(***************************************************************************)
(* The stages of a reconcile                                               *)
(***************************************************************************)
(* Where a reconcile goes next: the members and the inactive stay as they are *)
(* until it ends.                                                             *)
Onward(r, q, stages) ==
  /\ q \in Runs
  /\ \/ q = Idle
     \/ /\ q.pc \in stages /\ q.members = r.members /\ q.inactive = r.inactive
        /\ q.unseen = r.unseen
  /\ q.pc \in {"plan", "status"} => q.todo \subseteq Members(r)
  /\ q.pc = "release" => q.todo \subseteq r.inactive

LEMMA MembersType == ASSUME NEW r \in Runs PROVE Members(r) \subseteq Ingresses
BY DEF Runs, Maps, Members

LEMMA IdleType == Idle \in Runs /\ Members(Idle) = {} /\ Idle.inactive = {}
<1>1. <<>> \in [1..0 -> Versions] /\ 1..0 = {}
  BY EmptySeq, LenProperties
<1>2. <<>> \in Maps(Versions) /\ DOMAIN <<>> = {}
  BY <1>1 DEF Maps
<1> QED BY <1>2 DEF Idle, Runs, Stages, Members

LEMMA ReleaseIs == ASSUME NEW r \in Runs PROVE Onward(r, Release(r), {"release"})
<1>1. CASE r.inactive = {}
  BY <1>1, IdleType DEF Release, Onward, Idle
<1>2. CASE r.inactive # {}
  BY <1>2 DEF Release, Onward, Runs, Stages
<1> QED BY <1>1, <1>2

LEMMA AnnounceIs ==
  ASSUME NEW r \in Runs PROVE Onward(r, Announce(r), {"status", "release"})
<1>1. CASE Members(r) = {}
  BY <1>1, ReleaseIs DEF Announce, Onward
<1>2. CASE Members(r) # {}
  <2>1. [r EXCEPT !.pc = "status", !.todo = Members(r)] \in Runs
    BY MembersType DEF Runs, Stages
  <2> QED BY <1>2, <2>1 DEF Announce, Onward, Runs
<1> QED BY <1>1, <1>2

LEMMA BuildIs ==
  ASSUME NEW g, NEW r \in Runs PROVE Onward(r, Build(g, r), {"plan", "deploy"})
<1> DEFINE stale == {i \in Members(r) : r.members[i].plan # Plan(g, r, i)}
<1>0. stale \subseteq Members(r) /\ stale \subseteq Ingresses
  BY MembersType
<1>1. Build(g, r) = IF stale = {} THEN [r EXCEPT !.pc = "deploy", !.todo = {}]
                    ELSE [r EXCEPT !.pc = "plan", !.todo = stale]
  BY DEF Build
<1> HIDE DEF stale
<1> QED BY <1>0, <1>1 DEF Onward, Runs, Stages

(* The next member, or the next stage once the last one is done. *)
LEMMA DoneIs ==
  ASSUME NEW g, NEW r \in Runs, r.todo # {}, NEW i, i = First(r.todo)
  PROVE  \/ Done(g, r) = [r EXCEPT !.todo = @ \ {i}]
         \/ /\ r.pc = "finalize" /\ r.todo = {i}
            /\ Onward(r, Done(g, r), {"plan", "deploy"})
         \/ r.pc = "plan" /\ Onward(r, Done(g, r), {"deploy"})
         \/ r.pc = "status" /\ Onward(r, Done(g, r), {"release"})
         \/ Done(g, r) = Idle
<1> DEFINE rest == [r EXCEPT !.todo = @ \ {i}]
<1>1. rest \in Runs /\ rest.pc = r.pc /\ rest.members = r.members
      /\ rest.inactive = r.inactive /\ rest.unseen = r.unseen /\ rest.todo = r.todo \ {i}
  BY DEF Runs
<1>2. i \in r.todo
  BY FirstIn DEF Runs
<1>3. Done(g, r) = IF rest.todo # {} THEN rest
                   ELSE CASE r.pc = "finalize" -> Build(g, rest)
                          [] r.pc = "plan" -> [rest EXCEPT !.pc = "deploy"]
                          [] r.pc = "status" -> Release(rest)
                          [] OTHER -> Idle
  BY DEF Done
<1> HIDE DEF rest
<1>4. \A q, stages : Onward(rest, q, stages) <=> Onward(r, q, stages)
  BY <1>1 DEF Onward, Members
<1>5. CASE rest.todo # {}
  BY <1>3, <1>5 DEF rest
<1>6. CASE rest.todo = {} /\ r.pc = "finalize"
  BY <1>1, <1>2, <1>3, <1>4, <1>6, BuildIs
<1>7. CASE rest.todo = {} /\ r.pc = "plan"
  <2>1. Done(g, r) = [rest EXCEPT !.pc = "deploy"]
    BY <1>3, <1>7
  <2>2. Onward(rest, [rest EXCEPT !.pc = "deploy"], {"deploy"})
    BY <1>1 DEF Onward, Runs, Stages
  <2> QED BY <1>4, <1>7, <2>1, <2>2
<1>8. CASE rest.todo = {} /\ r.pc = "status"
  BY <1>1, <1>3, <1>4, <1>8, ReleaseIs
<1>9. CASE rest.todo = {} /\ r.pc \notin {"finalize", "plan", "status"}
  BY <1>3, <1>9
<1> QED BY <1>5, <1>6, <1>7, <1>8, <1>9

-----------------------------------------------------------------------------
(***************************************************************************)
(* Types                                                                   *)
(***************************************************************************)
LEMMA VersionTypes ==
  /\ \A group \in Annotations : Fresh(group) \in Versions
  /\ Absent \in Versions
  /\ \A v \in Versions :
       /\ \A group \in Annotations : [v EXCEPT !.group = group] \in Versions
       /\ [v EXCEPT !.rev = 1 - @] \in Versions
       /\ Finalized([v EXCEPT !.del = TRUE]) \in Versions
       /\ \A g \in Groups : /\ [v EXCEPT !.fins = @ \cup {g}] \in Versions
                            /\ Finalized([v EXCEPT !.fins = @ \ {g}]) \in Versions
<1>0. NoStatus \in Statuses /\ <<>> \in GroupPlans
  BY DEF NoStatus, Statuses, GroupPlans
<1> USE DEF Versions, Revs
<1>1. \A group \in Annotations : Fresh(group) \in Versions
  BY <1>0 DEF Fresh
<1>2. Absent \in Versions
  BY <1>0 DEF Absent, Fresh, Annotations
<1>3. ASSUME NEW v \in Versions
      PROVE  /\ \A group \in Annotations : [v EXCEPT !.group = group] \in Versions
             /\ [v EXCEPT !.del = TRUE] \in Versions
    OBVIOUS
<1>4. ASSUME NEW v \in Versions
      PROVE  [v EXCEPT !.rev = 1 - @] \in Versions
  <2>1. 1 - v.rev \in {0, 1}
    OBVIOUS
  <2> QED BY <2>1
<1>5. ASSUME NEW v \in Versions, NEW g \in Groups
      PROVE  /\ [v EXCEPT !.fins = @ \cup {g}] \in Versions
             /\ [v EXCEPT !.fins = @ \ {g}] \in Versions
    OBVIOUS
<1> HIDE DEF Versions
<1> QED BY <1>1, <1>2, <1>3, <1>4, <1>5 DEF Finalized

LEMMA PlanType ==
  ASSUME NEW g \in Groups, NEW r \in Runs, NEW i
  PROVE  Plan(g, r, i) \in GroupPlans
<1>0. r.members \in [Members(r) -> Versions]
  BY DEF Members, Runs, Maps
<1>1. [j \in Members(r) |-> r.members[j].rev] \in [Members(r) -> Revs]
  BY <1>0 DEF Versions
<1>2. [j \in Members(r) |-> r.members[j].rev] \in Maps(Revs)
  BY <1>1, MembersType DEF Maps
<1> QED BY <1>2 DEF Plan, GroupPlans

LEMMA StatusType ==
  ASSUME NEW g \in Groups, NEW i, NEW old \in Statuses
  PROVE  updateIngressStatus(g, i, old) \in Statuses
BY DEF updateIngressStatus, Hostnames, Statuses

LEMMA WriteType ==
  ASSUME TypeOK, NEW i \in Ingresses, NEW v \in Versions, Write(i, v)
  PROVE  api' \in [Ingresses -> Versions] /\ events' \in [Ingresses -> Seq(Versions)]
<1>1. Append(events[i], v) \in Seq(Versions)
  BY AppendProperties DEF TypeOK
<1> QED BY <1>1 DEF TypeOK, Write

(* A run with one member replaced. *)
LEMMA MemberReplaced ==
  ASSUME NEW r \in Runs, NEW i \in Members(r), NEW w \in Versions, NEW q,
         q = [r EXCEPT !.members[i] = w]
  PROVE  /\ q \in Runs /\ Members(q) = Members(r)
         /\ q.pc = r.pc /\ q.todo = r.todo /\ q.inactive = r.inactive
         /\ q.unseen = r.unseen
<1>1. r.members \in [Members(r) -> Versions]
  BY DEF Runs, Maps, Members
<1>2. [r.members EXCEPT ![i] = w] \in [Members(r) -> Versions]
  BY <1>1
<1>3. [r.members EXCEPT ![i] = w] \in Maps(Versions)
  BY <1>2, MembersType DEF Maps
<1>4. q = [r EXCEPT !.members = [r.members EXCEPT ![i] = w]]
  BY DEF Runs
<1> QED BY <1>2, <1>3, <1>4 DEF Runs, Members

(* The users write versions of the right type. *)
LEMMA UserType == ASSUME TypeOK, User PROVE TypeOK'
<1> USE DEF TypeOK
<1>1. ASSUME NEW i \in Ingresses, Create(i) \/ Move(i) \/ Change(i) \/ Delete(i)
      PROVE  TypeOK'
  <2>1. PICK v \in Versions : Write(i, v)
    <3>1. CASE Create(i)
      BY <3>1, VersionTypes, SettingsAssumption DEF Create
    <3>2. CASE Move(i)
      <4>1. PICK group \in setting.moves : Write(i, [api[i] EXCEPT !.group = group])
        BY <3>2 DEF Move
      <4> QED BY <4>1, VersionTypes, SettingsAssumption
    <3>3. CASE Change(i)
      BY <3>3, VersionTypes DEF Change
    <3>4. CASE Delete(i)
      BY <3>4, VersionTypes DEF Delete
    <3> QED BY <1>1, <3>1, <3>2, <3>3, <3>4
  <2>2. UNCHANGED <<setting, cache, class, backend, run, lb>>
    BY <1>1 DEF Create, Move, Change, Delete
  <2> QED BY <2>1, <2>2, WriteType
<1>2. CASE ChangeBackend
  BY <1>2 DEF ChangeBackend, Revs
<1>3. CASE ChangeClass
  <2>1. class' \in Classes
    BY <1>3, SettingsAssumption DEF ChangeClass
  <2> QED BY <1>3, <2>1 DEF ChangeClass
<1> QED BY <1>1, <1>2, <1>3 DEF User

LEMMA WorkingOn ==
  ASSUME TypeOK, NEW g \in Groups, NEW stage, Working(g, stage)
  PROVE  /\ run[g] \in Runs /\ run[g].pc = stage
         /\ First(run[g].todo) \in run[g].todo /\ First(run[g].todo) \in Ingresses
BY FirstIn DEF Working, TypeOK, Runs

LEMMA DoneType ==
  ASSUME NEW g, NEW r \in Runs, r.todo # {}
  PROVE  Done(g, r) \in Runs
<1>1. [r EXCEPT !.todo = @ \ {First(r.todo)}] \in Runs
  BY DEF Runs
<1> QED BY <1>1, DoneIs, IdleType DEF Onward

(* What the reconcile of g starts with. *)
Loads(g) == [Idle EXCEPT !.members = [i \in Membership(g, "active") |-> cache[i]],
                         !.inactive = Membership(g, "inactive"),
                         !.unseen = {i \in Ingresses : Unseen(g, i)}]

LEMMA LoadsIs ==
  ASSUME TypeOK, NEW g \in Groups
  PROVE  /\ Loads(g) \in Runs
         /\ Members(Loads(g)) = Membership(g, "active")
         /\ Loads(g).inactive = Membership(g, "inactive")
         /\ Loads(g).unseen = {i \in Ingresses : Unseen(g, i)}
<1>1. [i \in Membership(g, "active") |-> cache[i]] \in Maps(Versions)
  <2>1. [i \in Membership(g, "active") |-> cache[i]] \in [Membership(g, "active") -> Versions]
    BY DEF TypeOK, Membership
  <2> QED BY <2>1 DEF Maps, Membership
<1> QED BY <1>1, IdleType DEF Loads, Idle, Runs, Members, Membership

(***************************************************************************)
(* What a step of a reconcile does to its run                              *)
(***************************************************************************)
Follows(stage, next) ==
  \/ stage = "finalize" /\ next \in {"plan", "deploy"}
  \/ stage = "plan" /\ next = "deploy"
  \/ stage = "status" /\ next = "release"

(* A reconcile that has worked through i is over, or at the same stage, or at  *)
(* a later one if i was the last.                                              *)
Advances(r, q, i) ==
  /\ q \in Runs
  /\ \/ q = Idle
     \/ /\ Members(q) = Members(r) /\ q.inactive = r.inactive /\ q.unseen = r.unseen
        /\ \/ q.pc = r.pc /\ q.todo = r.todo \ {i}
           \/ /\ Follows(r.pc, q.pc)
              /\ r.pc = "finalize" => r.todo = {i}
              /\ q.pc = "plan" => q.todo \subseteq Members(r)
              /\ q.pc = "release" => q.todo \subseteq r.inactive

LEMMA DoneAdvances ==
  ASSUME NEW g, NEW r \in Runs, NEW q \in Runs, r.todo # {}, Members(q) = Members(r),
         q.pc = r.pc, q.todo = r.todo, q.inactive = r.inactive, q.unseen = r.unseen,
         NEW i, i = First(r.todo)
  PROVE  Advances(r, Done(g, q), i)
<1>1. CASE Done(g, q) = [q EXCEPT !.todo = @ \ {i}]
  BY <1>1 DEF Advances, Runs, Members
<1>2. CASE /\ q.pc = "finalize" /\ q.todo = {i}
           /\ Onward(q, Done(g, q), {"plan", "deploy"})
  BY <1>2 DEF Advances, Onward, Follows, Members
<1>3. CASE q.pc = "plan" /\ Onward(q, Done(g, q), {"deploy"})
  BY <1>3 DEF Advances, Onward, Follows, Members
<1>4. CASE q.pc = "status" /\ Onward(q, Done(g, q), {"release"})
  BY <1>4 DEF Advances, Onward, Follows, Members
<1>5. CASE Done(g, q) = Idle
  BY <1>5, IdleType DEF Advances
<1> QED BY <1>1, <1>2, <1>3, <1>4, <1>5, DoneIs

(* A step that advances one run and at most writes one Ingress keeps the types. *)
LEMMA AdvanceType ==
  ASSUME TypeOK, NEW g \in Groups, NEW i \in Ingresses, NEW v \in Versions, NEW q \in Runs,
         UNCHANGED <<setting, cache, class, backend, lb>>,
         run' = [run EXCEPT ![g] = q], UNCHANGED <<api, events>> \/ Write(i, v)
  PROVE  TypeOK'
<1>1. CASE UNCHANGED <<api, events>>
  BY <1>1 DEF TypeOK
<1>2. CASE Write(i, v)
  BY <1>2, WriteType DEF TypeOK
<1> QED BY <1>1, <1>2

LEMMA AddFinalizerIs ==
  ASSUME TypeOK, NEW g \in Groups, Staged(g), AddFinalizer(g),
         NEW i, i = First(run[g].todo)
  PROVE  /\ run[g].pc = "finalize" /\ i \in Members(run[g]) /\ i \in Ingresses
         /\ Advances(run[g], run'[g], i)
         /\ \A h \in Groups \ {g} : run'[h] = run[h]
         /\ UNCHANGED <<setting, cache, class, backend, lb>>
         /\ \/ UNCHANGED <<api, events>> /\ run'[g] = Idle
            \/ UNCHANGED <<api, events>> /\ g \in cache[i].fins
            \/ /\ UpToDate(i) /\ cache[i].there
               /\ Write(i, [cache[i] EXCEPT !.fins = @ \cup {g}])
         /\ TypeOK'
<1> DEFINE r == run[g]  v == cache[i]  patched == [v EXCEPT !.fins = @ \cup {g}]
           Keeps(w) == run' = [run EXCEPT ![g] = Done(g, [r EXCEPT !.members[i] = w])]
<1>1. /\ r \in Runs /\ r.pc = "finalize" /\ i \in r.todo /\ i \in Ingresses
      /\ run \in [Groups -> Runs]
  BY WorkingOn DEF AddFinalizer, TypeOK
<1>2. i \in Members(r)
  BY <1>1 DEF Staged
<1>3. v \in Versions /\ patched \in Versions
  BY <1>1, VersionTypes DEF TypeOK
<1>4. UNCHANGED <<setting, cache, class, backend, lb>>
  BY DEF AddFinalizer
<1>5. ASSUME NEW w \in Versions, Keeps(w)
      PROVE  /\ Advances(r, Done(g, [r EXCEPT !.members[i] = w]), i)
             /\ run'[g] = Done(g, [r EXCEPT !.members[i] = w])
             /\ Done(g, [r EXCEPT !.members[i] = w]) \in Runs
             /\ \A h \in Groups \ {g} : run'[h] = run[h]
  <2> DEFINE q == [r EXCEPT !.members[i] = w]
  <2>1. /\ q \in Runs /\ Members(q) = Members(r)
        /\ q.pc = r.pc /\ q.todo = r.todo /\ q.inactive = r.inactive
        /\ q.unseen = r.unseen
    BY <1>1, <1>2, MemberReplaced
  <2> HIDE DEF q
  <2>2. Advances(r, Done(g, q), i)
    BY <1>1, <2>1, DoneAdvances
  <2>3. Done(g, q) \in Runs
    BY <2>2 DEF Advances
  <2>4. run' = [run EXCEPT ![g] = Done(g, q)]
    BY <1>5 DEF q
  <2> QED BY <1>1, <2>2, <2>3, <2>4 DEF q
<1>6. CASE v.there /\ g \in v.fins /\ Keeps(v) /\ UNCHANGED <<api, events>>
  <2>1. TypeOK'
    BY <1>1, <1>3, <1>4, <1>5, <1>6, AdvanceType
  <2> QED BY <1>1, <1>2, <1>3, <1>4, <1>5, <1>6, <2>1
<1>7. CASE v.there /\ UpToDate(i) /\ Write(i, patched) /\ Keeps(patched)
  <2>1. TypeOK'
    BY <1>1, <1>3, <1>4, <1>5, <1>7, AdvanceType
  <2> QED BY <1>1, <1>2, <1>3, <1>4, <1>5, <1>7, <2>1
<1>8. CASE Fail(g) /\ UNCHANGED <<api, events>>
  <2>1. run' = [run EXCEPT ![g] = Idle] /\ Idle \in Runs
    BY <1>8, IdleType DEF Fail
  <2>2. TypeOK'
    BY <1>1, <1>3, <1>4, <1>8, <2>1, AdvanceType
  <2> QED BY <1>1, <1>2, <1>4, <1>8, <2>1, <2>2 DEF Advances
<1> QED BY <1>6, <1>7, <1>8 DEF AddFinalizer

LEMMA PatchPlanIs ==
  ASSUME TypeOK, NEW g \in Groups, Staged(g), PatchPlan(g),
         NEW i, i = First(run[g].todo)
  PROVE  /\ run[g].pc = "plan" /\ i \in Members(run[g]) /\ i \in Ingresses
         /\ Advances(run[g], run'[g], i)
         /\ \A h \in Groups \ {g} : run'[h] = run[h]
         /\ UNCHANGED <<setting, cache, class, backend, lb>>
         /\ \/ UNCHANGED <<api, events>>
            \/ api[i].there /\ \E p \in GroupPlans : Write(i, [api[i] EXCEPT !.plan = p])
         /\ TypeOK'
<1> DEFINE r == run[g]  p == Plan(g, r, i)
           w == [r.members[i] EXCEPT !.plan = p]  q == [r EXCEPT !.members[i] = w]
<1>1. /\ r \in Runs /\ r.pc = "plan" /\ i \in r.todo /\ i \in Ingresses
      /\ run \in [Groups -> Runs]
  BY WorkingOn DEF PatchPlan, TypeOK
<1>2. i \in Members(r)
  BY <1>1 DEF Staged
<1>3. p \in GroupPlans
  BY <1>1, PlanType
<1>4. UNCHANGED <<setting, cache, class, backend, lb>>
  BY DEF PatchPlan
<1>5. w \in Versions /\ [api[i] EXCEPT !.plan = p] \in Versions
  <2> HIDE DEF p
  <2>1. \A v \in Versions : [v EXCEPT !.plan = p] \in Versions
    BY <1>3 DEF Versions
  <2>2. r.members[i] \in Versions /\ api[i] \in Versions
    BY <1>1, <1>2 DEF Runs, Maps, Members, TypeOK
  <2> QED BY <2>1, <2>2
<1>6. run' = [run EXCEPT ![g] = Done(g, q)]
  BY DEF PatchPlan
<1>7. /\ q \in Runs /\ Members(q) = Members(r)
      /\ q.pc = r.pc /\ q.todo = r.todo /\ q.inactive = r.inactive
      /\ q.unseen = r.unseen
  BY <1>1, <1>2, <1>5, MemberReplaced
<1> HIDE DEF q
<1>8. Advances(r, Done(g, q), i) /\ r.todo # {}
  BY <1>1, <1>7, DoneAdvances
<1>9. Done(g, q) \in Runs
  BY <1>8 DEF Advances
<1>10. \/ UNCHANGED <<api, events>>
       \/ api[i].there /\ Write(i, [api[i] EXCEPT !.plan = p])
  BY DEF PatchPlan
<1>11. TypeOK'
  BY <1>1, <1>4, <1>5, <1>6, <1>9, <1>10, AdvanceType
<1>12. run'[g] = Done(g, q) /\ \A h \in Groups \ {g} : run'[h] = run[h]
  BY <1>1, <1>6
<1> HIDE DEF p
<1> QED BY <1>1, <1>2, <1>3, <1>4, <1>8, <1>10, <1>11, <1>12

LEMMA UpdateStatusIs ==
  ASSUME TypeOK, NEW g \in Groups, Staged(g), UpdateStatus(g),
         NEW i, i = First(run[g].todo)
  PROVE  /\ run[g].pc = "status" /\ i \in Members(run[g]) /\ i \in Ingresses
         /\ Advances(run[g], run'[g], i)
         /\ \A h \in Groups \ {g} : run'[h] = run[h]
         /\ UNCHANGED <<setting, cache, class, backend, lb>>
         /\ \/ UNCHANGED <<api, events>>
            \/ api[i].there /\ \E s \in Statuses : Write(i, [api[i] EXCEPT !.status = s])
         /\ TypeOK'
<1> DEFINE r == run[g]  old == r.members[i].status  new == updateIngressStatus(g, i, old)
<1>1. /\ r \in Runs /\ r.pc = "status" /\ i \in r.todo /\ i \in Ingresses
      /\ run \in [Groups -> Runs]
  BY WorkingOn DEF UpdateStatus, TypeOK
<1>2. i \in Members(r)
  BY <1>1 DEF Staged
<1>3. new \in Statuses
  <2>1. r.members[i] \in Versions
    BY <1>1, <1>2 DEF Runs, Maps, Members
  <2>2. old \in Statuses
    BY <2>1 DEF Versions
  <2> QED BY <2>2, StatusType
<1>4. UNCHANGED <<setting, cache, class, backend, lb>>
  BY DEF UpdateStatus
<1>5. [api[i] EXCEPT !.status = new] \in Versions
  <2> HIDE DEF new
  <2>1. \A v \in Versions : [v EXCEPT !.status = new] \in Versions
    BY <1>3 DEF Versions
  <2> QED BY <1>1, <2>1 DEF TypeOK
<1>6. \/ run' = [run EXCEPT ![g] = Idle]
      \/ run' = [run EXCEPT ![g] = Done(g, r)]
  BY DEF UpdateStatus, Fail
<1>7. Advances(r, Done(g, r), i) /\ Advances(r, Idle, i)
  <2>1. Advances(r, Done(g, r), i)
    BY <1>1, DoneAdvances
  <2>2. Advances(r, Idle, i)
    BY IdleType DEF Advances
  <2> QED BY <2>1, <2>2
<1>8. Done(g, r) \in Runs /\ Idle \in Runs
  BY <1>7 DEF Advances
<1>9. \/ UNCHANGED <<api, events>>
      \/ api[i].there /\ Write(i, [api[i] EXCEPT !.status = new])
  BY DEF UpdateStatus
<1>10. TypeOK'
  BY <1>1, <1>4, <1>5, <1>6, <1>8, <1>9, AdvanceType
<1>11. /\ Advances(r, run'[g], i)
       /\ \A h \in Groups \ {g} : run'[h] = run[h]
  BY <1>1, <1>6, <1>7
<1> HIDE DEF new
<1> QED BY <1>1, <1>2, <1>3, <1>4, <1>9, <1>10, <1>11

LEMMA RemoveFinalizerIs ==
  ASSUME TypeOK, NEW g \in Groups, Staged(g), RemoveFinalizer(g),
         NEW i, i = First(run[g].todo)
  PROVE  /\ run[g].pc = "release" /\ i \in run[g].inactive /\ i \in Ingresses
         /\ Advances(run[g], run'[g], i)
         /\ \A h \in Groups \ {g} : run'[h] = run[h]
         /\ UNCHANGED <<setting, cache, class, backend, lb>>
         /\ \/ UNCHANGED <<api, events>>
            \/ /\ UpToDate(i) /\ cache[i].there /\ g \in cache[i].fins
               /\ Write(i, Finalized([cache[i] EXCEPT !.fins = @ \ {g}]))
         /\ TypeOK'
<1> DEFINE r == run[g]  v == Finalized([cache[i] EXCEPT !.fins = @ \ {g}])
<1>1. /\ r \in Runs /\ r.pc = "release" /\ i \in r.todo /\ i \in Ingresses
      /\ run \in [Groups -> Runs]
  BY WorkingOn DEF RemoveFinalizer, TypeOK
<1>2. i \in r.inactive
  BY <1>1 DEF Staged
<1>3. v \in Versions
  BY <1>1, VersionTypes DEF TypeOK
<1>4. UNCHANGED <<setting, cache, class, backend, lb>>
  BY DEF RemoveFinalizer
<1>5. \/ run' = [run EXCEPT ![g] = Idle]
      \/ run' = [run EXCEPT ![g] = Done(g, r)]
  BY DEF RemoveFinalizer, Fail
<1>6. Advances(r, Done(g, r), i) /\ Advances(r, Idle, i)
  <2>1. Advances(r, Done(g, r), i)
    BY <1>1, DoneAdvances
  <2>2. Advances(r, Idle, i)
    BY IdleType DEF Advances
  <2> QED BY <2>1, <2>2
<1>7. Done(g, r) \in Runs /\ Idle \in Runs
  BY <1>6 DEF Advances
<1>8. \/ UNCHANGED <<api, events>>
      \/ UpToDate(i) /\ cache[i].there /\ g \in cache[i].fins /\ Write(i, v)
  BY DEF RemoveFinalizer
<1> HIDE DEF v
<1>9. TypeOK'
  BY <1>1, <1>3, <1>4, <1>5, <1>7, <1>8, AdvanceType
<1>10. /\ Advances(r, run'[g], i)
       /\ \A h \in Groups \ {g} : run'[h] = run[h]
  BY <1>1, <1>5, <1>6
<1> QED BY <1>1, <1>2, <1>4, <1>8, <1>9, <1>10 DEF v

(* A reconcile starts with the members of the cache and finalizes them first. *)
LEMMA StartIs ==
  ASSUME TypeOK, NEW g \in Groups, Start(g)
  PROVE  /\ run'[g] \in Runs
         /\ Members(run'[g]) = Membership(g, "active")
         /\ run'[g].inactive = Membership(g, "inactive")
         /\ run'[g].unseen = {i \in Ingresses : Unseen(g, i)}
         /\ \/ run'[g].pc = "finalize" /\ run'[g].todo = Members(run'[g])
            \/ /\ run'[g].pc \in {"plan", "deploy"} /\ Membership(g, "active") = {}
               /\ run'[g].pc = "plan" => run'[g].todo = {}
         /\ Membership(g, "error") = {} /\ run[g].pc = "idle"
         /\ \A h \in Groups \ {g} : run'[h] = run[h]
         /\ UNCHANGED <<setting, api, cache, events, class, backend, lb>>
         /\ TypeOK'
<1> DEFINE q == Finalize(g, Loads(g))
<1>1. run' = [run EXCEPT ![g] = q] /\ UNCHANGED <<setting, api, cache, events, class, backend, lb>>
  BY DEF Start, Loads
<1>2. /\ q \in Runs /\ Members(q) = Membership(g, "active")
      /\ q.inactive = Membership(g, "inactive")
      /\ q.unseen = {i \in Ingresses : Unseen(g, i)}
      /\ \/ q.pc = "finalize" /\ q.todo = Members(q)
         \/ /\ q.pc \in {"plan", "deploy"} /\ Membership(g, "active") = {}
            /\ q.pc = "plan" => q.todo = {}
  <2>1. CASE Members(Loads(g)) = {}
    <3>1. Build(g, Loads(g)) = [Loads(g) EXCEPT !.pc = "deploy", !.todo = {}]
      BY <2>1 DEF Build
    <3>2. q = [Loads(g) EXCEPT !.pc = "deploy", !.todo = {}]
      BY <2>1, <3>1 DEF Finalize
    <3> HIDE DEF q
    <3> QED BY <2>1, <3>2, LoadsIs DEF Runs, Stages, Members
  <2>2. CASE Members(Loads(g)) # {}
    <3>1. q = [Loads(g) EXCEPT !.pc = "finalize", !.todo = Members(Loads(g))]
      BY <2>2 DEF Finalize
    <3>2. Members(Loads(g)) \subseteq Ingresses
      BY LoadsIs, MembersType
    <3> HIDE DEF q
    <3> QED BY <3>1, <3>2, LoadsIs DEF Runs, Stages, Members
  <2> QED BY <2>1, <2>2
<1> HIDE DEF q
<1>3. run'[g] = q /\ \A h \in Groups \ {g} : run'[h] = run[h]
  BY <1>1 DEF TypeOK
<1>4. TypeOK'
  BY <1>1, <1>2 DEF TypeOK
<1> QED BY <1>1, <1>2, <1>3, <1>4 DEF Start

LEMMA DeployIs ==
  ASSUME TypeOK, NEW g \in Groups, Deploy(g)
  PROVE  /\ Onward(run[g], run'[g], {"status", "release"})
         /\ run[g].pc = "deploy"
         /\ \A h \in Groups \ {g} : run'[h] = run[h] /\ lb'[h] = lb[h]
         /\ DOMAIN lb'[g] = Members(run[g])
         /\ UNCHANGED <<setting, api, cache, events, class, backend>>
         /\ TypeOK'
<1> DEFINE r == run[g]  q == Announce(r)
           f == [i \in Members(r) |-> <<r.members[i].rev, backend>>]
<1>1. r \in Runs /\ run \in [Groups -> Runs] /\ lb \in [Groups -> Maps(Revs \X Revs)]
  BY DEF TypeOK
<1>2. Onward(r, q, {"status", "release"})
  BY <1>1, AnnounceIs
<1>3. f \in Maps(Revs \X Revs)
  <2>1. \A i \in Members(r) : r.members[i].rev \in Revs
    BY <1>1 DEF Runs, Maps, Members, Versions
  <2>2. f \in [Members(r) -> Revs \X Revs]
    BY <2>1 DEF TypeOK
  <2> QED BY <1>1, <2>2, MembersType DEF Maps
<1>4. /\ run' = [run EXCEPT ![g] = q] /\ lb' = [lb EXCEPT ![g] = f]
      /\ UNCHANGED <<setting, api, cache, events, class, backend>>
      /\ r.pc = "deploy"
  BY DEF Deploy
<1>5. q \in Runs
  BY <1>2 DEF Onward
<1>6. DOMAIN f = Members(r)
  OBVIOUS
<1> HIDE DEF q, f
<1>7. TypeOK'
  BY <1>3, <1>4, <1>5 DEF TypeOK
<1>8. /\ run'[g] = q /\ lb'[g] = f
      /\ \A h \in Groups \ {g} : run'[h] = run[h] /\ lb'[h] = lb[h]
  BY <1>1, <1>4
<1> QED BY <1>2, <1>4, <1>6, <1>7, <1>8

(***************************************************************************)
(* Writes, and the groups they do not concern                              *)
(***************************************************************************)
LEMMA WriteIs ==
  ASSUME TypeOK, NEW i \in Ingresses, NEW v \in Versions, Write(i, v)
  PROVE  /\ api'[i] = v /\ Pending(i)' = Pending(i) \cup {v}
         /\ events'[i] # <<>> /\ events'[i][Len(events'[i])] = v
         /\ \A j \in Ingresses \ {i} : /\ api'[j] = api[j] /\ events'[j] = events[j]
                                       /\ Pending(j)' = Pending(j)
<1>1. events[i] \in Seq(Versions) /\ events'[i] = Append(events[i], v)
  BY DEF TypeOK, Write
<1>2. \A j \in Ingresses \ {i} : events'[j] = events[j]
  BY DEF TypeOK, Write
<1>3. Pending(i)' = Elements(Append(events[i], v)) /\ Pending(i) = Elements(events[i])
  BY <1>1 DEF Pending, Elements
<1>4. /\ Elements(Append(events[i], v)) = Elements(events[i]) \cup {v}
      /\ Append(events[i], v) # <<>> /\ Append(events[i], v)[Len(Append(events[i], v))] = v
  BY <1>1, AppendElements
<1>5. \A j \in Ingresses \ {i} : api'[j] = api[j] /\ Pending(j)' = Pending(j)
  BY <1>2 DEF Pending, TypeOK, Write
<1>6. api'[i] = v
  BY DEF TypeOK, Write
<1> QED BY <1>1, <1>2, <1>3, <1>4, <1>5, <1>6

(* A write that removes no finalizer a pending version shows. *)
LEMMA WriteInformed ==
  ASSUME TypeOK, \A j \in Ingresses : Informed(j),
         NEW i \in Ingresses, NEW v \in Versions, Write(i, v), UNCHANGED cache,
         ~v.there => v.fins = {}, \A w \in Pending(i) : w.fins \subseteq v.fins
  PROVE  \A j \in Ingresses : Informed(j)'
<1>1. Informed(i)'
  BY WriteIs DEF Informed
<1>2. ASSUME NEW j \in Ingresses \ {i} PROVE Informed(j)'
  BY <1>2, WriteIs DEF Informed
<1> QED BY <1>1, <1>2

(* An Ingress that is not written, with the informer where it was. *)
LEMMA SameGoneOf ==
  ASSUME NEW h, NEW j, Gone(h, j), UNCHANGED <<setting, class, cache>>,
         api'[j] = api[j], Pending(j)' = Pending(j),
         run'[h].inactive \subseteq run[h].inactive
  PROVE  Gone(h, j)'
BY DEF Gone, Of

(* A write that puts i in no group that has its finalizer, and removes none of *)
(* a group the cache shows i in.                                               *)
LEMMA WriteGone ==
  ASSUME TypeOK, \A h \in Groups, j \in Ingresses : Gone(h, j),
         NEW i \in Ingresses, NEW v \in Versions, Write(i, v),
         UNCHANGED <<setting, cache, class>>,
         \A h \in Groups : run'[h].inactive \subseteq run[h].inactive,
         v.fins \subseteq api[i].fins,
         v.fins = {} \/ Of(i, v) \subseteq Of(i, api[i]),
         \A h \in Groups : h \in api[i].fins /\ h \notin v.fins => h \notin Of(i, cache[i])
  PROVE  \A h \in Groups, j \in Ingresses : Gone(h, j)'
<1>0. /\ api'[i] = v /\ Pending(i)' = Pending(i) \cup {v}
      /\ \A j \in Ingresses \ {i} : api'[j] = api[j] /\ Pending(j)' = Pending(j)
  BY WriteIs
<1>1. ASSUME NEW h \in Groups PROVE Gone(h, i)'
  <2>1. Gone(h, i)
    OBVIOUS
  <2>2. Of(i, api[i])' = Of(i, v) /\ Of(i, cache[i])' = Of(i, cache[i])
    BY <1>0 DEF Of
  <2>3. \A w : Of(i, w)' = Of(i, w)
    BY DEF Of
  <2>4. ASSUME h \in v.fins, h \in Of(i, v)
        PROVE  /\ i \notin run'[h].inactive /\ h \in Of(i, cache[i])
               /\ \A w \in Pending(i) \cup {v} : h \in Of(i, w)
    <3>1. h \in api[i].fins /\ h \in Of(i, api[i])
      BY <2>4
    <3> QED BY <2>1, <2>4, <3>1 DEF Gone
  <2>5. h \in cache[i].fins /\ h \notin v.fins => h \notin Of(i, cache[i])
    BY <2>1 DEF Gone
  <2> QED BY <1>0, <2>2, <2>3, <2>4, <2>5 DEF Gone
<1>2. ASSUME NEW h \in Groups, NEW j \in Ingresses \ {i} PROVE Gone(h, j)'
  <2>1. Gone(h, j) /\ api'[j] = api[j] /\ Pending(j)' = Pending(j)
    BY <1>0
  <2> QED BY <2>1, SameGoneOf
<1> QED BY <1>1, <1>2

(* A group whose reconcile does not move, while no finalizer of it is removed. *)
LEMMA OtherGroup ==
  ASSUME NEW h \in Groups, Staged(h), Held(h), Guarded(h),
         run'[h] = run[h], lb'[h] = lb[h], UNCHANGED cache,
         run[h] \in Runs, Served(h) \subseteq Ingresses,
         \A j \in Ingresses : /\ h \in api[j].fins => h \in api'[j].fins
                              /\ Pending(j)' \subseteq Pending(j) \cup {api'[j]}
  PROVE  Staged(h)' /\ Held(h)' /\ Guarded(h)'
<1>0. Members(run[h]) \subseteq Ingresses
  BY MembersType
<1>1. Staged(h)'
  BY DEF Staged, Members
<1>2. Held(h)'
  BY <1>0 DEF Held, Members
<1>3. Guarded(h)'
  <2>1. Served(h)' = Served(h)
    BY DEF Served
  <2> QED BY <2>1 DEF Guarded, Members
<1> QED BY <1>1, <1>2, <1>3

(* The informer has delivered everything. *)
LEMMA CurrentIs ==
  ASSUME NEW i, Informed(i), UpToDate(i)
  PROVE  cache[i] = api[i] /\ Pending(i) = {}
<1>1. events[i] = <<>>
  BY DEF UpToDate
<1>2. DOMAIN events[i] = {}
  BY <1>1
<1> QED BY <1>1, <1>2 DEF Informed, Pending

(* What a step that changes neither Ingresses nor the informer leaves alone. *)
LEMMA SameInformed ==
  ASSUME \A j \in Ingresses : Informed(j), UNCHANGED <<api, cache, events>>
  PROVE  \A j \in Ingresses : Informed(j)' /\ Pending(j)' = Pending(j)
<1> SUFFICES ASSUME NEW j \in Ingresses PROVE Informed(j)' /\ Pending(j)' = Pending(j)
  OBVIOUS
<1>1. Pending(j)' = Pending(j)
  BY DEF Pending
<1> QED BY <1>1 DEF Informed

LEMMA SameGone ==
  ASSUME \A h \in Groups, j \in Ingresses : Gone(h, j),
         UNCHANGED <<setting, class, api, cache, events>>,
         \A h \in Groups : run'[h].inactive \subseteq run[h].inactive
  PROVE  \A h \in Groups, j \in Ingresses : Gone(h, j)'
<1> SUFFICES ASSUME NEW h \in Groups, NEW j \in Ingresses PROVE Gone(h, j)'
  OBVIOUS
<1>1. Pending(j)' = Pending(j)
  BY DEF Pending
<1> QED BY <1>1, SameGoneOf

LEMMA SameGroups ==
  ASSUME \A h \in Groups : Staged(h) /\ Held(h) /\ Guarded(h),
         UNCHANGED <<api, cache, events, run, lb>>
  PROVE  \A h \in Groups : Staged(h)' /\ Held(h)' /\ Guarded(h)'
<1> SUFFICES ASSUME NEW h \in Groups PROVE Staged(h)' /\ Held(h)' /\ Guarded(h)'
  OBVIOUS
<1>1. Staged(h)' /\ Held(h)'
  BY DEF Staged, Held
<1>2. Served(h)' = Served(h) /\ \A j : Pending(j)' = Pending(j)
  BY DEF Served, Pending
<1> QED BY <1>1, <1>2 DEF Guarded

(* What a load balancer serves stays finalized as long as Ingresses do. *)
LEMMA SameServed ==
  ASSUME NEW g \in Groups, Guarded(g), Served(g) \subseteq Ingresses, Served(g)' = Served(g),
         UNCHANGED <<api, cache>>, \A j \in Ingresses : Pending(j)' = Pending(j)
  PROVE  \A j \in Served(g)' : g \in api'[j].fins
<1>1. \A j \in Served(g) : g \in api[j].fins
  BY DEF Guarded
<1> QED BY <1>1

(* A group without a reconcile, given that what it serves is finalized. *)
LEMMA RestingGroup ==
  ASSUME NEW g \in Groups, run'[g] = Idle,
         \A j \in Served(g)' : g \in api'[j].fins
  PROVE  Staged(g)' /\ Held(g)' /\ Guarded(g)'
<1>1. Idle.pc = "idle" /\ Members(Idle) = {} /\ Idle.inactive = {}
  BY IdleType DEF Idle
<1>2. Staged(g)'
  BY <1>1 DEF Staged
<1>3. Held(g)'
  BY <1>1 DEF Held
<1>4. Guarded(g)'
  BY <1>1 DEF Guarded
<1> QED BY <1>2, <1>3, <1>4

-----------------------------------------------------------------------------
(***************************************************************************)
(* Every step preserves the invariant                                      *)
(***************************************************************************)
LEMMA ServedType == ASSUME TypeOK, NEW g \in Groups PROVE Served(g) \subseteq Ingresses
BY DEF TypeOK, Served, Maps

(* A user changes no finalizer. *)
LEMMA UserWrite ==
  ASSUME Inv, TypeOK', NEW i \in Ingresses, NEW v \in Versions, Write(i, v),
         UNCHANGED <<setting, cache, class, run, lb>>,
         v.fins = api[i].fins, ~v.there => v.fins = {},
         \A g \in Groups, j \in Ingresses : Gone(g, j)'
  PROVE  Inv'
<1>1. \A j \in Ingresses : Informed(j)'
  <2>1. \A w \in Pending(i) : w.fins \subseteq v.fins
    BY DEF Inv, Informed
  <2> QED BY <2>1, WriteInformed DEF Inv
<1>2. ASSUME NEW g \in Groups PROVE Staged(g)' /\ Held(g)' /\ Guarded(g)'
  <2>1. \A j \in Ingresses : /\ g \in api[j].fins => g \in api'[j].fins
                             /\ Pending(j)' \subseteq Pending(j) \cup {api'[j]}
    BY WriteIs DEF Inv
  <2>2. run[g] \in Runs /\ Served(g) \subseteq Ingresses
    BY ServedType DEF Inv, TypeOK
  <2> QED BY <2>1, <2>2, OtherGroup DEF Inv
<1> QED BY <1>1, <1>2 DEF Inv

(* Whatever users do, short of bringing an Ingress back to a group that is     *)
(* letting go of it.                                                           *)
LEMMA UserInv == ASSUME NoReturns, Inv, User PROVE Inv'
<1> USE DEF Inv
<1>0. TypeOK' /\ ~setting.returns
  BY UserType DEF NoReturns, TypeOK
<1>r. (\A i : ~Returns(i) <=> \A g \in Groups : Gone(g, i))'
  BY GoneIs, PTL
<1>1. ASSUME NEW i \in Ingresses, Create(i) PROVE Inv'
  <2> DEFINE v == Fresh(setting.start[i])
  <2>1. /\ v \in Versions /\ Write(i, v) /\ v.fins = {} /\ v.there
        /\ UNCHANGED <<setting, cache, class, run, lb>>
    BY <1>1, VersionTypes, SettingsAssumption DEF Create, TypeOK, Fresh
  <2>2. api[i].fins = {}
    BY <1>1 DEF Create, Informed
  <2> HIDE DEF v
  <2>3. \A g \in Groups, j \in Ingresses : Gone(g, j)'
    BY <2>1, <2>2, WriteGone
  <2> QED BY <1>0, <2>1, <2>2, <2>3, UserWrite
<1>2. ASSUME NEW i \in Ingresses, Move(i) PROVE Inv'
  <2>1. PICK group \in setting.moves :
          /\ Write(i, [api[i] EXCEPT !.group = group])
          /\ api[i].there /\ ~Returns(i)'
          /\ UNCHANGED <<setting, cache, class, run, lb>>
    BY <1>0, <1>2 DEF Move
  <2> DEFINE v == [api[i] EXCEPT !.group = group]
  <2>2. v \in Versions /\ v.fins = api[i].fins /\ v.there = api[i].there
    <3>1. api[i] \in Versions /\ group \in Annotations
      BY SettingsAssumption DEF TypeOK
    <3> QED BY <3>1, VersionTypes DEF Versions
  <2> HIDE DEF v
  <2>3. Write(i, v)
    BY <2>1 DEF v
  <2>4. ASSUME NEW g \in Groups, NEW j \in Ingresses \ {i} PROVE Gone(g, j)'
    BY <2>1, <2>2, <2>3, WriteIs DEF Gone, Of
  <2>5. ASSUME NEW g \in Groups PROVE Gone(g, i)'
    BY <1>r, <2>1
  <2>6. \A g \in Groups, j \in Ingresses : Gone(g, j)'
    BY <2>4, <2>5
  <2> QED BY <1>0, <2>1, <2>2, <2>3, <2>6, UserWrite
<1>3. ASSUME NEW i \in Ingresses, Change(i) PROVE Inv'
  <2> DEFINE v == [api[i] EXCEPT !.rev = 1 - @]
  <2>1. /\ Write(i, v) /\ api[i].there
        /\ UNCHANGED <<setting, cache, class, run, lb>>
    BY <1>3 DEF Change
  <2>2. /\ v \in Versions /\ v.fins = api[i].fins /\ v.there = api[i].there
        /\ v.del = api[i].del /\ v.group = api[i].group
    <3>1. api[i] \in Versions
      BY DEF TypeOK
    <3> QED BY <3>1, VersionTypes DEF Versions
  <2> HIDE DEF v
  <2>3. Of(i, v) = Of(i, api[i])
    BY <2>2, IdsSame DEF Of
  <2>4. \A g \in Groups, j \in Ingresses : Gone(g, j)'
    BY <2>1, <2>2, <2>3, WriteGone
  <2> QED BY <1>0, <2>1, <2>2, <2>4, UserWrite
<1>4. ASSUME NEW i \in Ingresses, Delete(i) PROVE Inv'
  <2> DEFINE w == [api[i] EXCEPT !.del = TRUE]  v == Finalized(w)
  <2>1. /\ Write(i, v) /\ api[i].there
        /\ UNCHANGED <<setting, cache, class, run, lb>>
    BY <1>4 DEF Delete
  <2>2. api[i] \in Versions
    BY DEF TypeOK
  <2>3. /\ v \in Versions /\ v.fins = api[i].fins /\ (v.del \/ ~v.there)
        /\ ~v.there => v.fins = {}
    <3>1. w.fins = api[i].fins /\ w.del /\ w.there = api[i].there
      BY <2>2 DEF Versions
    <3>2. Absent.fins = {} /\ ~Absent.there
      BY DEF Absent, Fresh
    <3>3. v \in Versions
      BY <2>2, VersionTypes
    <3> HIDE DEF w
    <3> QED BY <2>1, <3>1, <3>2, <3>3 DEF Finalized
  <2> HIDE DEF v
  <2>4. Of(i, v) = {}
    BY <2>3, IdsNone DEF Of
  <2>5. \A g \in Groups, j \in Ingresses : Gone(g, j)'
    BY <2>1, <2>3, <2>4, WriteGone
  <2> QED BY <1>0, <2>1, <2>3, <2>5, UserWrite
<1>5. CASE ChangeBackend
  <2>1. UNCHANGED <<setting, api, cache, events, class, run, lb>>
    BY <1>5 DEF ChangeBackend
  <2> QED BY <1>0, <2>1, SameInformed, SameGone, SameGroups
<1>6. CASE ChangeClass
  <2>1. /\ UNCHANGED <<setting, api, cache, events, run, lb>>
        /\ \A i \in ByClassName : ~Returns(i)'
    BY <1>0, <1>6 DEF ChangeClass
  <2>2. ASSUME NEW g \in Groups, NEW i \in Ingresses PROVE Gone(g, i)'
    <3>1. CASE i \in ByClassName
      BY <1>r, <2>1, <3>1
    <3>2. CASE i \notin ByClassName
      <4>1. Gone(g, i) /\ i \notin setting.byClassName
        BY <3>2 DEF ByClassName
      <4>2. ASSUME NEW v PROVE Of(i, v)' = Of(i, v)
        <5>1. Ids(class', setting.byClassName, i, v) = Ids(class, setting.byClassName, i, v)
          BY <4>1, IdsOther
        <5> QED BY <2>1, <5>1 DEF Of
      <4>3. Pending(i)' = Pending(i)
        BY <2>1 DEF Pending
      <4>4. Of(i, api[i])' = Of(i, api[i]) /\ Of(i, cache[i])' = Of(i, cache[i])
        BY <2>1, <4>2 DEF Of
      <4>5. \A v \in Pending(i) : g \in Of(i, v) => g \in Of(i, v)'
        BY <4>2
      <4> QED BY <2>1, <4>1, <4>3, <4>4, <4>5 DEF Gone
    <3> QED BY <3>1, <3>2
  <2> QED BY <1>0, <2>1, <2>2, SameInformed, SameGroups
<1> QED BY <1>1, <1>2, <1>3, <1>4, <1>5, <1>6 DEF User

(* The informer delivers the next version, whose finalizers are still there. *)
LEMMA DeliverInv == ASSUME Inv, NEW i \in Ingresses, Deliver(i) PROVE Inv'
<1> DEFINE v == Head(events[i])
<1> USE DEF Inv
<1>1. /\ v \in Pending(i) /\ v \in Versions
      /\ Tail(events[i]) \in Seq(Versions) /\ Elements(Tail(events[i])) \subseteq Pending(i)
      /\ IF Tail(events[i]) = <<>> THEN v = api[i]
         ELSE Tail(events[i])[Len(Tail(events[i]))] = api[i]
  <2>1. events[i] \in Seq(Versions) /\ events[i] # <<>>
    BY DEF Deliver, TypeOK
  <2>2. events[i][Len(events[i])] = api[i] /\ Pending(i) = Elements(events[i])
    BY <2>1 DEF Informed, Pending, Elements
  <2> QED BY <2>1, <2>2, TailElements
<1>2. /\ UNCHANGED <<setting, api, class, backend, run, lb>>
      /\ cache' = [cache EXCEPT ![i] = v]
      /\ events' = [events EXCEPT ![i] = Tail(events[i])]
  BY DEF Deliver
<1> HIDE DEF v
<1>3. TypeOK'
  BY <1>1, <1>2 DEF TypeOK
<1>4. /\ cache'[i] = v /\ events'[i] = Tail(events[i])
      /\ \A j \in Ingresses \ {i} : cache'[j] = cache[j] /\ events'[j] = events[j]
  BY <1>2 DEF TypeOK
<1>5. Pending(i)' \subseteq Pending(i) /\ \A j \in Ingresses \ {i} : Pending(j)' = Pending(j)
  BY <1>1, <1>4 DEF Pending, Elements
<1>6. v.fins \subseteq api[i].fins
  BY <1>1 DEF Informed
<1>7. ASSUME NEW j \in Ingresses PROVE Informed(j)'
  <2>0. Informed(j)
    OBVIOUS
  <2>1. CASE j = i
    <3>1. IF events'[i] = <<>> THEN cache'[i] = api'[i]
          ELSE events'[i][Len(events'[i])] = api'[i]
      BY <1>1, <1>2, <1>4
    <3>2. /\ ~api'[i].there => api'[i].fins = {}
          /\ \A w \in Pending(i)' : w.fins \subseteq api'[i].fins
      BY <1>2, <1>5, <2>0, <2>1 DEF Informed
    <3> QED BY <2>1, <3>1, <3>2 DEF Informed
  <2>2. CASE j # i
    <3>1. /\ cache'[j] = cache[j] /\ events'[j] = events[j] /\ api'[j] = api[j]
          /\ Pending(j)' = Pending(j)
      BY <1>2, <1>4, <1>5, <2>2
    <3> QED BY <2>0, <3>1 DEF Informed
  <2> QED BY <2>1, <2>2
<1>8. ASSUME NEW g \in Groups, NEW j \in Ingresses PROVE Gone(g, j)'
  <2>1. CASE j = i
    BY <1>1, <1>2, <1>4, <1>5, <1>6, <2>1 DEF Gone, Of
  <2>2. CASE j # i
    BY <1>2, <1>4, <1>5, <2>2 DEF Gone, Of
  <2> QED BY <2>1, <2>2
<1>9. ASSUME NEW g \in Groups PROVE Staged(g)' /\ Held(g)' /\ Guarded(g)'
  <2>0. Members(run[g]) \subseteq Ingresses /\ Served(g) \subseteq Ingresses
    BY MembersType, ServedType DEF TypeOK
  <2>1. Staged(g)'
    BY <1>2 DEF Staged, Members
  <2>2. Held(g)'
    BY <1>2, <1>4, <1>6, <2>0 DEF Held, Members
  <2>3. Guarded(g)'
    <3>1. Served(g)' = Served(g)
      BY <1>2 DEF Served
    <3>2. Guarded(g)
      OBVIOUS
    <3>3. \A j \in Served(g) : g \in api'[j].fins
      BY <1>2, <3>2 DEF Guarded
    <3>4. run'[g] = run[g]
      BY <1>2
    <3> QED BY <3>1, <3>2, <3>3, <3>4 DEF Guarded
  <2> QED BY <2>1, <2>2, <2>3
<1> QED BY <1>3, <1>7, <1>8, <1>9

(* A reconcile that ends early leaves everything else as it was. *)
LEMMA StageFailsInv == ASSUME Inv, NEW g \in Groups, StageFails(g) PROVE Inv'
<1> USE DEF Inv
<1>1. /\ run' = [run EXCEPT ![g] = Idle]
      /\ UNCHANGED <<setting, api, cache, events, class, backend, lb>>
  BY DEF StageFails, Fail
<1>2. TypeOK'
  BY <1>1, IdleType DEF TypeOK
<1>3. run'[g] = Idle /\ \A h \in Groups \ {g} : run'[h] = run[h]
  BY <1>1 DEF TypeOK
<1>4. \A i \in Ingresses : Informed(i)' /\ Pending(i)' = Pending(i)
  BY <1>1, SameInformed
<1>5. \A h \in Groups, i \in Ingresses : Gone(h, i)'
  <2>1. \A h \in Groups : run'[h].inactive \subseteq run[h].inactive
    BY <1>3, IdleType
  <2> QED BY <1>1, <2>1, SameGone
<1>6. ASSUME NEW h \in Groups \ {g} PROVE Staged(h)' /\ Held(h)' /\ Guarded(h)'
  BY <1>1, <1>3, <1>4, ServedType, OtherGroup DEF TypeOK
<1>7. Staged(g)' /\ Held(g)' /\ Guarded(g)'
  <2>1. Served(g)' = Served(g) /\ Served(g) \subseteq Ingresses
    BY <1>1, ServedType DEF Served
  <2>2. Guarded(g)
    OBVIOUS
  <2>3. \A j \in Served(g)' : g \in api'[j].fins
    BY <1>1, <1>4, <2>1, <2>2, SameServed
  <2> QED BY <1>3, <2>3, RestingGroup
<1> QED BY <1>2, <1>4, <1>5, <1>6, <1>7

(* After a restart the cache is what the API server has. *)
LEMMA RestartInv == ASSUME Inv, Restart PROVE Inv'
<1> USE DEF Inv
<1>1. /\ cache' = api /\ events' = [i \in Ingresses |-> <<>>]
      /\ run' = [g \in Groups |-> Idle]
      /\ UNCHANGED <<setting, api, class, backend, lb>>
  BY DEF Restart
<1>2. TypeOK'
  <2>1. <<>> \in Seq(Versions)
    BY EmptySeq
  <2> QED BY <1>1, <2>1, IdleType DEF TypeOK
<1>3. \A i \in Ingresses : Pending(i)' = {}
  BY <1>1 DEF Pending
<1>4. \A i \in Ingresses : Informed(i)'
  BY <1>1, <1>3 DEF Informed
<1>5. \A g \in Groups, i \in Ingresses : Gone(g, i)'
  BY <1>1, <1>3, IdleType DEF Gone, Of
<1>6. ASSUME NEW g \in Groups PROVE Staged(g)' /\ Held(g)' /\ Guarded(g)'
  <2>1. Served(g)' = Served(g) /\ Served(g) \subseteq Ingresses /\ run'[g] = Idle
    BY <1>1, ServedType DEF Served
  <2>2. Guarded(g)
    OBVIOUS
  <2>3. \A j \in Served(g)' : g \in api'[j].fins
    BY <1>1, <1>3, <2>1, <2>2 DEF Guarded
  <2> QED BY <2>1, <2>3, RestingGroup
<1> QED BY <1>2, <1>4, <1>5, <1>6

(* The members of a group and those it lets go, by the groups of their cached *)
(* version; unless a class is invalid every finalized Ingress is either.      *)
LEMMA MembershipIs ==
  ASSUME NEW g \in Groups, NEW i \in Ingresses
  PROVE  /\ i \in Membership(g, "active") => g \in Of(i, cache[i])
         /\ i \in Membership(g, "inactive") =>
              /\ g \notin Of(i, cache[i]) /\ g \in cache[i].fins
              /\ loadGroupIDIfAnyHelper(i, cache[i]).err # "invalid class"
         /\ g \in cache[i].fins => \/ i \in Membership(g, "active")
                                   \/ i \in Membership(g, "inactive")
                                   \/ i \in Membership(g, "error")
<1> DEFINE id == loadGroupIDIfAnyHelper(i, cache[i])
           invalid == id.err = "invalid class"
           type == checkGroupMembershipType(g, i, cache[i])
<1>1. id.ids = Of(i, cache[i])
  BY IdsAre
<1>2. type = CASE invalid /\ g \in cache[i].fins -> "error"
               [] g \in id.ids -> "active"
               [] g \notin id.ids /\ g \in cache[i].fins /\ ~invalid -> "inactive"
               [] OTHER -> "none"
  BY DEF checkGroupMembershipType
<1>3. invalid => id.ids = {}
  BY DEF loadGroupIDIfAnyHelper, loadGroupID, NoGroup
<1>4. \A t : i \in Membership(g, t) <=> type = t
  BY DEF Membership
<1> HIDE DEF id, type, invalid
<1>5. /\ type = "active" => g \in id.ids
      /\ type = "inactive" => g \notin id.ids /\ g \in cache[i].fins /\ ~invalid
      /\ g \in cache[i].fins => type \in {"active", "inactive", "error"}
  <2>1. CASE invalid
    BY <1>2, <1>3, <2>1
  <2>2. CASE ~invalid
    BY <1>2, <2>2
  <2> QED BY <2>1, <2>2
<1> QED BY <1>1, <1>4, <1>5 DEF invalid, id

LEMMA StartInv == ASSUME Inv, NEW g \in Groups, Start(g) PROVE Inv'
<1> USE DEF Inv
<1> DEFINE q == run'[g]
<1>1. /\ q \in Runs /\ Members(q) = Membership(g, "active")
      /\ q.inactive = Membership(g, "inactive")
      /\ q.unseen = {i \in Ingresses : Unseen(g, i)}
      /\ \/ q.pc = "finalize" /\ q.todo = Members(q)
         \/ /\ q.pc \in {"plan", "deploy"} /\ Membership(g, "active") = {}
            /\ q.pc = "plan" => q.todo = {}
      /\ Membership(g, "error") = {} /\ run[g].pc = "idle"
      /\ \A h \in Groups \ {g} : run'[h] = run[h]
      /\ UNCHANGED <<setting, api, cache, events, class, backend, lb>>
      /\ TypeOK'
  BY StartIs
<1> HIDE DEF q
<1>2. \A i \in Ingresses : Informed(i)' /\ Pending(i)' = Pending(i)
  BY <1>1, SameInformed
<1>3. ASSUME NEW h \in Groups, NEW i \in Ingresses PROVE Gone(h, i)'
  <2>1. CASE h = g
    <3>1. i \in q.inactive => g \notin Of(i, cache[i])
      BY <1>1, MembershipIs
    <3>2. Gone(g, i)
      OBVIOUS
    <3> QED BY <1>1, <1>2, <2>1, <3>1, <3>2 DEF Gone, Of, q
  <2>2. CASE h # g
    <3>1. Gone(h, i) /\ run'[h] = run[h] /\ api'[i] = api[i] /\ Pending(i)' = Pending(i)
      BY <1>1, <1>2, <2>2
    <3> QED BY <1>1, <3>1, SameGoneOf
  <2> QED BY <2>1, <2>2
<1>4. ASSUME NEW h \in Groups \ {g} PROVE Staged(h)' /\ Held(h)' /\ Guarded(h)'
  BY <1>1, <1>2, <1>4, ServedType, OtherGroup DEF TypeOK
<1>5. Membership(g, "active") \subseteq Ingresses /\ Membership(g, "inactive") \subseteq Ingresses
  BY DEF Membership
<1>6. Staged(g)'
  <2>1. Members(q) \cap q.inactive = {}
    BY <1>1, <1>5, MembershipIs
  <2> QED BY <1>1, <2>1 DEF Staged, q
<1>7. Held(g)'
  <2>1. ASSUME NEW i \in Members(q), g \in cache[i].fins PROVE g \in api[i].fins
    BY <1>1, <1>5, <2>1, MembershipIs DEF Gone
  <2> QED BY <1>1, <2>1 DEF Held, q
<1>8. Guarded(g)'
  <2>1. Served(g)' = Served(g) /\ Served(g) \subseteq Ingresses
    BY <1>1, ServedType DEF Served
  <2>2. \A i \in Ingresses : g \in cache[i].fins => i \in Members(q) \cup q.inactive
    BY <1>1, MembershipIs
  <2>3. Served(g) \subseteq Members(q) \cup q.inactive \cup q.unseen
    BY <1>1, <2>1, <2>2 DEF Guarded, Unseen
  <2>4. \A i \in Served(g)' : g \in api'[i].fins
    <3>1. Guarded(g)
      OBVIOUS
    <3> QED BY <1>1, <1>2, <2>1, <3>1, SameServed
  <2>5. q.pc \in {"finalize", "plan", "deploy"}
    BY <1>1
  <2>6. Served(g)' \subseteq Members(q) \cup q.inactive \cup q.unseen
    BY <2>1, <2>3
  <2> QED BY <2>4, <2>5, <2>6 DEF Guarded, q
<1> QED BY <1>1, <1>2, <1>3, <1>4, <1>6, <1>7, <1>8

(* The group whose reconcile has worked through i, as long as its members and *)
(* the Ingresses it serves keep the finalizer.                                *)
LEMMA OwnGroup ==
  ASSUME NEW g \in Groups, Staged(g), Held(g), Guarded(g), run[g] \in Runs,
         Served(g) \subseteq Ingresses, NEW i, Advances(run[g], run'[g], i),
         run[g].pc \in {"finalize", "plan", "status", "release"},
         UNCHANGED <<cache, lb>>,
         \A j \in Members(run[g]) \cup Served(g) : g \in api[j].fins => g \in api'[j].fins,
         \A j \in Ingresses : Pending(j)' \subseteq Pending(j) \cup {api'[j]},
         run[g].pc = "finalize" /\ run'[g] # Idle => g \in api'[i].fins
  PROVE  Staged(g)' /\ Held(g)' /\ Guarded(g)'
<1> DEFINE r == run[g]  q == run'[g]
<1>0. Members(r) \subseteq Ingresses
  BY MembersType
<1>1. Served(g)' = Served(g)
  BY DEF Served
<1>2. \A j \in Served(g) : g \in api'[j].fins
  BY DEF Guarded
<1>3. CASE q = Idle
  <2>1. \A j \in Served(g)' : g \in api'[j].fins
    BY <1>1, <1>2
  <2> QED BY <1>3, <2>1, RestingGroup
<1>4. CASE q # Idle
  <2>1. /\ Members(q) = Members(r) /\ q.inactive = r.inactive /\ q.unseen = r.unseen
        /\ \/ q.pc = r.pc /\ q.todo = r.todo \ {i}
           \/ /\ Follows(r.pc, q.pc)
              /\ r.pc = "finalize" => r.todo = {i}
              /\ q.pc = "plan" => q.todo \subseteq Members(r)
              /\ q.pc = "release" => q.todo \subseteq r.inactive
    BY <1>4 DEF Advances
  <2> HIDE DEF r, q
  <2>2. Staged(g)'
    BY <2>1 DEF Staged, Follows, r, q
  <2>3. Held(g)'
    <3>1. ASSUME NEW j \in Members(r), g \in cache[j].fins PROVE g \in api'[j].fins
      BY <3>1 DEF Held, r
    <3>2. ASSUME NEW j \in Members(r),
                 (q.pc = "finalize" /\ j \notin q.todo) \/ q.pc \in {"plan", "deploy"}
          PROVE  g \in api'[j].fins
      <4>1. CASE r.pc = "finalize" /\ j = i
        BY <1>4, <4>1 DEF r, q
      <4>2. CASE r.pc = "finalize" /\ j # i
        BY <2>1, <3>2, <4>2 DEF Held, Follows, r
      <4>3. CASE r.pc = "plan"
        BY <4>3 DEF Held, r
      <4>4. CASE r.pc \in {"status", "release"}
        BY <2>1, <3>2, <4>4 DEF Follows
      <4> QED BY <4>1, <4>2, <4>3, <4>4 DEF r
    <3> QED BY <2>1, <3>1, <3>2 DEF Held, q
  <2>4. Guarded(g)'
    <3>1. q.pc \in {"finalize", "plan", "deploy"} => r.pc \in {"finalize", "plan"}
      BY <2>1 DEF Follows, r
    <3>2. q.pc \in {"status", "release"} => r.pc \in {"status", "release"}
      BY <2>1 DEF Follows, r
    <3> QED BY <1>1, <1>2, <2>1, <3>1, <3>2 DEF Guarded, r, q
  <2> QED BY <2>2, <2>3, <2>4
<1> QED BY <1>3, <1>4

LEMMA AddFinalizerInv == ASSUME Inv, NEW g \in Groups, AddFinalizer(g) PROVE Inv'
<1>0. PICK i : i = First(run[g].todo)
  OBVIOUS
<1> DEFINE v == [cache[i] EXCEPT !.fins = @ \cup {g}]
<1> USE DEF Inv
<1>1. /\ run[g].pc = "finalize" /\ i \in Members(run[g]) /\ i \in Ingresses
      /\ Advances(run[g], run'[g], i)
      /\ \A h \in Groups \ {g} : run'[h] = run[h]
      /\ UNCHANGED <<setting, cache, class, backend, lb>>
      /\ \/ UNCHANGED <<api, events>> /\ run'[g] = Idle
         \/ UNCHANGED <<api, events>> /\ g \in cache[i].fins
         \/ UpToDate(i) /\ cache[i].there /\ Write(i, v)
      /\ TypeOK'
  BY <1>0, AddFinalizerIs
<1> HIDE DEF v
<1>2. \A h \in Groups : run[h] \in Runs /\ Served(h) \subseteq Ingresses
  BY ServedType DEF TypeOK
<1>3. \A h \in Groups : run'[h].inactive \subseteq run[h].inactive
  BY <1>1, IdleType DEF Advances
<1>4. CASE UNCHANGED <<api, events>> /\ (run'[g] = Idle \/ g \in cache[i].fins)
  <2>1. run'[g] # Idle => g \in api'[i].fins
    BY <1>1, <1>4 DEF Held
  <2>2. \A j \in Ingresses : Informed(j)' /\ Pending(j)' = Pending(j)
    BY <1>1, <1>4, SameInformed
  <2>3. \A h \in Groups, j \in Ingresses : Gone(h, j)'
    BY <1>1, <1>3, <1>4, SameGone
  <2>4. Staged(g)' /\ Held(g)' /\ Guarded(g)'
    BY <1>1, <1>2, <1>4, <2>1, <2>2, OwnGroup
  <2>5. ASSUME NEW h \in Groups \ {g} PROVE Staged(h)' /\ Held(h)' /\ Guarded(h)'
    BY <1>1, <1>2, <1>4, <2>2, OtherGroup
  <2> QED BY <1>1, <2>2, <2>3, <2>4, <2>5
<1>5. CASE UpToDate(i) /\ cache[i].there /\ Write(i, v)
  <2>1. cache[i] = api[i] /\ api[i] \in Versions /\ Pending(i) = {}
    <3>1. api[i] \in Versions /\ Informed(i)
      BY <1>1 DEF TypeOK
    <3> QED BY <1>5, <3>1, CurrentIs
  <2>2. /\ v \in Versions /\ v.fins = api[i].fins \cup {g} /\ v.there
        /\ v.there = api[i].there /\ v.del = api[i].del /\ v.group = api[i].group
    <3>1. v \in Versions
      BY <2>1, VersionTypes DEF v
    <3> QED BY <1>5, <2>1, <3>1 DEF v, Versions
  <2>3. Of(i, v) = Of(i, api[i])
    BY <2>2, OfSame
  <2>4. /\ api'[i] = v /\ Pending(i)' = {v}
        /\ \A j \in Ingresses \ {i} : api'[j] = api[j] /\ Pending(j)' = Pending(j)
    <3>1. /\ api'[i] = v /\ Pending(i)' = Pending(i) \cup {v}
          /\ \A j \in Ingresses \ {i} : api'[j] = api[j] /\ Pending(j)' = Pending(j)
      BY <1>1, <1>5, <2>2, WriteIs
    <3> QED BY <2>1, <3>1
  <2>5. \A j \in Ingresses : Informed(j)'
    BY <1>1, <1>5, <2>1, <2>2, WriteInformed
  <2>6. ASSUME NEW h \in Groups PROVE Gone(h, i)'
    <3>1. i \notin run'[g].inactive
      BY <1>1, <1>3 DEF Staged
    <3>2. Gone(h, i)
      BY <1>1
    <3>3. Of(i, cache[i])' = Of(i, cache[i]) /\ Of(i, api[i])' = Of(i, v)
      BY <1>1, <2>4 DEF Of
    <3>4. ASSUME NEW w PROVE Of(i, w)' = Of(i, w)
      BY <1>1 DEF Of
    <3>5. api'[i].fins = api[i].fins \cup {g} /\ cache'[i].fins = api[i].fins
      BY <1>1, <2>1, <2>2, <2>4
    <3>6. CASE h = g
      BY <2>1, <2>3, <2>4, <3>1, <3>3, <3>4, <3>5, <3>6 DEF Gone
    <3>7. CASE h # g
      <4>1. run'[h].inactive \subseteq run[h].inactive
        BY <1>3
      <4>2. h \in cache'[i].fins => h \in api'[i].fins
        BY <3>5
      <4>3. ASSUME h \in api'[i].fins, h \in Of(i, api[i])'
            PROVE  /\ i \notin run'[h].inactive /\ h \in Of(i, cache[i])'
                   /\ \A w \in Pending(i)' : h \in Of(i, w)'
        <5>1. h \in api[i].fins /\ h \in Of(i, api[i])
          BY <2>3, <3>3, <3>5, <3>7, <4>3
        <5>2. i \notin run[h].inactive /\ h \in Of(i, cache[i])
          BY <3>2, <5>1 DEF Gone
        <5>3. \A w \in Pending(i)' : w = v
          BY <2>4
        <5>4. \A w : w = v => h \in Of(i, w)'
          BY <2>3, <3>4, <5>1
        <5> QED BY <3>3, <4>1, <5>2, <5>3, <5>4
      <4> QED BY <4>2, <4>3 DEF Gone
    <3> QED BY <3>6, <3>7
  <2>7. ASSUME NEW h \in Groups, NEW j \in Ingresses \ {i} PROVE Gone(h, j)'
    <3>1. Gone(h, j) /\ api'[j] = api[j] /\ Pending(j)' = Pending(j)
      BY <2>4
    <3> QED BY <1>1, <1>3, <3>1, SameGoneOf
  <2>8. \A j \in Ingresses : Pending(j)' \subseteq Pending(j) \cup {api'[j]}
    BY <2>4
  <2>9. \A h \in Groups, j \in Ingresses : h \in api[j].fins => h \in api'[j].fins
    BY <2>2, <2>4
  <2>10. Staged(g)' /\ Held(g)' /\ Guarded(g)'
    <3>1. g \in api'[i].fins
      BY <2>2, <2>4
    <3>2. Members(run[g]) \subseteq Ingresses
      BY <1>2, MembersType
    <3> QED BY <1>1, <1>2, <2>8, <2>9, <3>1, <3>2, OwnGroup
  <2>11. ASSUME NEW h \in Groups \ {g} PROVE Staged(h)' /\ Held(h)' /\ Guarded(h)'
    BY <1>1, <1>2, <2>8, <2>9, OtherGroup
  <2> QED BY <1>1, <2>5, <2>6, <2>7, <2>10, <2>11
<1> QED BY <1>1, <1>4, <1>5

(* A write of g's reconcile that changes neither finalizers nor groups. *)
LEMMA PlainWrite ==
  ASSUME Inv, TypeOK', NEW g \in Groups, NEW i \in Ingresses,
         Advances(run[g], run'[g], i), run[g].pc \in {"plan", "status"},
         \A h \in Groups \ {g} : run'[h] = run[h],
         UNCHANGED <<setting, cache, class, backend, lb>>,
         \/ UNCHANGED <<api, events>>
         \/ /\ api[i].there
            /\ \E v \in Versions :
                 /\ Write(i, v) /\ v.fins = api[i].fins /\ v.there = api[i].there
                 /\ v.del = api[i].del /\ v.group = api[i].group
  PROVE  Inv'
<1> USE DEF Inv
<1>1. \A h \in Groups : run[h] \in Runs /\ Served(h) \subseteq Ingresses
  BY ServedType DEF TypeOK
<1>2. \A h \in Groups : run'[h].inactive \subseteq run[h].inactive
  BY IdleType DEF Advances
<1>3. /\ \A j \in Ingresses : /\ Informed(j)' /\ api'[j].fins = api[j].fins
                              /\ Pending(j)' \subseteq Pending(j) \cup {api'[j]}
      /\ \A h \in Groups, j \in Ingresses : Gone(h, j)'
  <2>1. CASE UNCHANGED <<api, events>>
    <3>1. \A j \in Ingresses : Informed(j)' /\ Pending(j)' = Pending(j)
      BY <2>1, SameInformed
    <3>2. \A h \in Groups, j \in Ingresses : Gone(h, j)'
      BY <1>2, <2>1, SameGone
    <3> QED BY <2>1, <3>1, <3>2
  <2>2. CASE ~UNCHANGED <<api, events>>
    <3>1. PICK v \in Versions :
            /\ Write(i, v) /\ v.fins = api[i].fins /\ v.there = api[i].there
            /\ v.del = api[i].del /\ v.group = api[i].group
      BY <2>2
    <3>2. Of(i, v) = Of(i, api[i])
      BY <3>1, OfSame
    <3>3. \A h \in Groups, j \in Ingresses : Gone(h, j)'
      BY <1>2, <3>1, <3>2, WriteGone
    <3>4. \A j \in Ingresses : Informed(j)'
      <4>1. (~v.there => v.fins = {}) /\ \A w \in Pending(i) : w.fins \subseteq v.fins
        BY <3>1 DEF Informed
      <4> QED BY <3>1, <4>1, WriteInformed
    <3>5. /\ api'[i] = v /\ Pending(i)' = Pending(i) \cup {v}
          /\ \A j \in Ingresses \ {i} : api'[j] = api[j] /\ Pending(j)' = Pending(j)
      BY <3>1, WriteIs
    <3>6. ASSUME NEW j \in Ingresses
          PROVE  api'[j].fins = api[j].fins /\ Pending(j)' \subseteq Pending(j) \cup {api'[j]}
      BY <3>1, <3>5
    <3> QED BY <3>3, <3>4, <3>6
  <2> QED BY <2>1, <2>2
<1>4. Staged(g)' /\ Held(g)' /\ Guarded(g)'
  <2>1. Members(run[g]) \subseteq Ingresses
    BY <1>1, MembersType
  <2> QED BY <1>1, <1>3, <2>1, OwnGroup
<1>5. ASSUME NEW h \in Groups \ {g} PROVE Staged(h)' /\ Held(h)' /\ Guarded(h)'
  BY <1>1, <1>3, OtherGroup
<1> QED BY <1>3, <1>4, <1>5

LEMMA PatchPlanInv == ASSUME Inv, NEW g \in Groups, PatchPlan(g) PROVE Inv'
<1>0. PICK i : i = First(run[g].todo)
  OBVIOUS
<1>1. /\ run[g].pc = "plan" /\ i \in Ingresses
      /\ Advances(run[g], run'[g], i)
      /\ \A h \in Groups \ {g} : run'[h] = run[h]
      /\ UNCHANGED <<setting, cache, class, backend, lb>>
      /\ \/ UNCHANGED <<api, events>>
         \/ api[i].there /\ \E p \in GroupPlans : Write(i, [api[i] EXCEPT !.plan = p])
      /\ TypeOK'
  BY <1>0, PatchPlanIs DEF Inv
<1>2. ASSUME NEW p \in GroupPlans, NEW v, v = [api[i] EXCEPT !.plan = p]
      PROVE  /\ v \in Versions /\ v.fins = api[i].fins /\ v.there = api[i].there
             /\ v.del = api[i].del /\ v.group = api[i].group
  <2>1. api[i] \in Versions
    BY <1>1 DEF Inv, TypeOK
  <2> QED BY <1>2, <2>1 DEF Versions
<1> QED BY <1>1, <1>2, PlainWrite

LEMMA UpdateStatusInv == ASSUME Inv, NEW g \in Groups, UpdateStatus(g) PROVE Inv'
<1>0. PICK i : i = First(run[g].todo)
  OBVIOUS
<1>1. /\ run[g].pc = "status" /\ i \in Ingresses
      /\ Advances(run[g], run'[g], i)
      /\ \A h \in Groups \ {g} : run'[h] = run[h]
      /\ UNCHANGED <<setting, cache, class, backend, lb>>
      /\ \/ UNCHANGED <<api, events>>
         \/ api[i].there /\ \E s \in Statuses : Write(i, [api[i] EXCEPT !.status = s])
      /\ TypeOK'
  BY <1>0, UpdateStatusIs DEF Inv
<1>2. ASSUME NEW s \in Statuses, NEW v, v = [api[i] EXCEPT !.status = s]
      PROVE  /\ v \in Versions /\ v.fins = api[i].fins /\ v.there = api[i].there
             /\ v.del = api[i].del /\ v.group = api[i].group
  <2>1. api[i] \in Versions
    BY <1>1 DEF Inv, TypeOK
  <2> QED BY <1>2, <2>1 DEF Versions
<1> QED BY <1>1, <1>2, PlainWrite

(* A finalizer is removed from an Ingress that is out of the group, for the   *)
(* API server as for the cache, and that its load balancer does not serve.    *)
LEMMA RemoveFinalizerInv == ASSUME Inv, NEW g \in Groups, RemoveFinalizer(g) PROVE Inv'
<1>0. PICK i : i = First(run[g].todo)
  OBVIOUS
<1> DEFINE w == [cache[i] EXCEPT !.fins = @ \ {g}]  v == Finalized(w)
<1> USE DEF Inv
<1>1. /\ run[g].pc = "release" /\ i \in run[g].inactive /\ i \in Ingresses
      /\ Advances(run[g], run'[g], i)
      /\ \A h \in Groups \ {g} : run'[h] = run[h]
      /\ UNCHANGED <<setting, cache, class, backend, lb>>
      /\ \/ UNCHANGED <<api, events>>
         \/ UpToDate(i) /\ cache[i].there /\ g \in cache[i].fins /\ Write(i, v)
      /\ TypeOK'
  BY <1>0, RemoveFinalizerIs
<1> HIDE DEF v, w
<1>2. /\ \A h \in Groups : run[h] \in Runs /\ Served(h) \subseteq Ingresses
      /\ Members(run[g]) \subseteq Ingresses
  BY ServedType, MembersType DEF TypeOK
<1>3. \A h \in Groups : run'[h].inactive \subseteq run[h].inactive
  BY <1>1, IdleType DEF Advances
<1>4. i \notin Members(run[g]) \cup Served(g)
  BY <1>1 DEF Staged, Guarded
<1>5. /\ \A j \in Ingresses : /\ Informed(j)'
                              /\ Pending(j)' \subseteq Pending(j) \cup {api'[j]}
                              /\ \A h \in Groups : h # g \/ j # i =>
                                   (h \in api[j].fins => h \in api'[j].fins)
      /\ \A h \in Groups, j \in Ingresses : Gone(h, j)'
  <2>1. CASE UNCHANGED <<api, events>>
    <3>1. \A j \in Ingresses : Informed(j)' /\ Pending(j)' = Pending(j)
      BY <1>1, <2>1, SameInformed
    <3>2. \A h \in Groups, j \in Ingresses : Gone(h, j)'
      BY <1>1, <1>3, <2>1, SameGone
    <3> QED BY <2>1, <3>1, <3>2
  <2>2. CASE UpToDate(i) /\ cache[i].there /\ g \in cache[i].fins /\ Write(i, v)
    <3>1. cache[i] = api[i] /\ api[i] \in Versions /\ Pending(i) = {}
      <4>1. api[i] \in Versions /\ Informed(i)
        BY <1>1 DEF TypeOK
      <4> QED BY <2>2, <4>1, CurrentIs
    <3>2. /\ v \in Versions /\ v.fins = api[i].fins \ {g} /\ (~v.there => v.fins = {})
          /\ v.fins = {} \/ Of(i, v) = Of(i, api[i])
      <4>1. v \in Versions
        BY <3>1, VersionTypes DEF v, w
      <4>2. /\ w.fins = api[i].fins \ {g} /\ w.there /\ w.there = api[i].there
            /\ w.del = api[i].del /\ w.group = api[i].group
        BY <2>2, <3>1 DEF w, Versions
      <4>3. Of(i, w) = Of(i, api[i])
        BY <4>2, OfSame
      <4>4. Absent.fins = {}
        BY DEF Absent, Fresh
      <4> QED BY <4>1, <4>2, <4>3, <4>4 DEF Finalized, v
    <3>3. g \notin Of(i, cache[i])
      BY <1>1, <2>2, <3>1 DEF Gone
    <3>4. \A h \in Groups, j \in Ingresses : Gone(h, j)'
      <4>1. v.fins \subseteq api[i].fins /\ (v.fins = {} \/ Of(i, v) \subseteq Of(i, api[i]))
        BY <3>2
      <4>2. \A h \in Groups : h \in api[i].fins /\ h \notin v.fins => h \notin Of(i, cache[i])
        BY <3>2, <3>3
      <4> QED BY <1>1, <1>3, <2>2, <3>2, <4>1, <4>2, WriteGone
    <3>5. \A j \in Ingresses : Informed(j)'
      BY <1>1, <2>2, <3>1, <3>2, WriteInformed
    <3>6. /\ api'[i] = v
          /\ \A j \in Ingresses : Pending(j)' \subseteq Pending(j) \cup {api'[j]}
          /\ \A j \in Ingresses \ {i} : api'[j] = api[j]
      BY <1>1, <2>2, <3>2, WriteIs
    <3> QED BY <3>2, <3>4, <3>5, <3>6
  <2> QED BY <1>1, <2>1, <2>2
<1>6. Staged(g)' /\ Held(g)' /\ Guarded(g)'
  BY <1>1, <1>2, <1>4, <1>5, OwnGroup
<1>7. ASSUME NEW h \in Groups \ {g} PROVE Staged(h)' /\ Held(h)' /\ Guarded(h)'
  BY <1>1, <1>2, <1>5, OtherGroup
<1> QED BY <1>1, <1>5, <1>6, <1>7

(* A load balancer is deployed for the members, and all have the finalizer. *)
LEMMA DeployInv == ASSUME Inv, NEW g \in Groups, Deploy(g) PROVE Inv'
<1> USE DEF Inv
<1>1. /\ Onward(run[g], run'[g], {"status", "release"})
      /\ run[g].pc = "deploy"
      /\ \A h \in Groups \ {g} : run'[h] = run[h] /\ lb'[h] = lb[h]
      /\ DOMAIN lb'[g] = Members(run[g])
      /\ UNCHANGED <<setting, api, cache, events, class, backend>>
      /\ TypeOK'
  BY DeployIs
<1>2. \A i \in Ingresses : Informed(i)' /\ Pending(i)' = Pending(i)
  BY <1>1, SameInformed
<1>3. \A h \in Groups : run'[h].inactive \subseteq run[h].inactive
  BY <1>1, IdleType DEF Onward
<1>4. \A h \in Groups, i \in Ingresses : Gone(h, i)'
  BY <1>1, <1>3, SameGone
<1>5. ASSUME NEW h \in Groups \ {g} PROVE Staged(h)' /\ Held(h)' /\ Guarded(h)'
  BY <1>1, <1>2, ServedType, OtherGroup DEF TypeOK
<1>6. /\ Members(run[g]) \subseteq Ingresses /\ Served(g)' = Members(run[g])
      /\ \A i \in Members(run[g]) : g \in api[i].fins
  <2>1. Members(run[g]) \subseteq Ingresses /\ Served(g)' = Members(run[g])
    BY <1>1, MembersType DEF TypeOK, Served
  <2> QED BY <1>1, <2>1 DEF Held
<1>7. \/ run'[g].pc = "idle" /\ Members(run'[g]) = {} /\ run'[g].inactive = {}
      \/ /\ run'[g].pc \in {"status", "release"} /\ Members(run'[g]) = Members(run[g])
         /\ run'[g].inactive = run[g].inactive
         /\ run'[g].pc = "status" => run'[g].todo \subseteq Members(run[g])
         /\ run'[g].pc = "release" => run'[g].todo \subseteq run[g].inactive
  <2>1. Idle.pc = "idle"
    BY DEF Idle
  <2>2. CASE run'[g] = Idle
    BY <2>1, <2>2, IdleType
  <2>3. CASE run'[g] # Idle
    <3>1. /\ run'[g].pc \in {"status", "release"} /\ run'[g].members = run[g].members
          /\ run'[g].inactive = run[g].inactive
          /\ run'[g].pc \in {"plan", "status"} => run'[g].todo \subseteq Members(run[g])
          /\ run'[g].pc = "release" => run'[g].todo \subseteq run[g].inactive
      BY <1>1, <2>3 DEF Onward
    <3>2. Members(run'[g]) = Members(run[g])
      BY <3>1 DEF Members
    <3> QED BY <3>1, <3>2
  <2> QED BY <2>2, <2>3
<1>8. Staged(g)'
  BY <1>7 DEF Staged
<1>9. Held(g)'
  BY <1>1, <1>6, <1>7 DEF Held
<1>10. Guarded(g)'
  <2>1. \A i \in Served(g)' : g \in api'[i].fins
    BY <1>1, <1>6
  <2>2. CASE run'[g].pc = "idle"
    BY <2>1, <2>2 DEF Guarded
  <2>3. CASE run'[g].pc \in {"status", "release"} /\ Members(run'[g]) = Members(run[g])
    <3>1. Served(g)' = Members(run'[g])
      BY <1>6, <2>3
    <3> QED BY <2>1, <2>3, <3>1 DEF Guarded
  <2> QED BY <1>7, <2>2, <2>3
<1> QED BY <1>1, <1>2, <1>4, <1>5, <1>8, <1>9, <1>10

LEMMA InitInv == Init => Inv
<1> SUFFICES ASSUME Init PROVE Inv
  OBVIOUS
<1> USE DEF Init
<1>1. TypeOK
  <2>1. api \in [Ingresses -> Versions]
    BY VersionTypes, SettingsAssumption
  <2>2. <<>> \in Seq(Versions)
    BY EmptySeq
  <2>3. <<>> \in Maps(Revs \X Revs)
    <3>1. <<>> \in [1..0 -> Revs \X Revs] /\ 1..0 = {}
      BY EmptySeq, LenProperties
    <3> QED BY <3>1 DEF Maps
  <2> QED BY <2>1, <2>2, <2>3, IdleType, SettingsAssumption DEF TypeOK, Revs
<1>2. \A i \in Ingresses : cache[i] = api[i] /\ api[i].fins = {} /\ Pending(i) = {}
  BY DEF Fresh, Absent, Pending
<1>3. \A i \in Ingresses : Informed(i) /\ \A g \in Groups : Gone(g, i)
  BY <1>2 DEF Informed, Gone
<1>4. ASSUME NEW g \in Groups PROVE Staged(g) /\ Held(g) /\ Guarded(g)
  <2>1. run[g] = Idle /\ Served(g) = {}
    <3>1. DOMAIN <<>> = {}
      BY IdleType DEF Idle, Members
    <3> QED BY <3>1 DEF Served
  <2> QED BY <2>1, IdleType DEF Staged, Held, Guarded, Idle
<1> QED BY <1>1, <1>3, <1>4 DEF Inv

LEMMA NextInv == ASSUME NoReturns, Inv, [Next]_vars PROVE Inv'
<1>1. CASE User
  BY <1>1, UserInv
<1>2. CASE \E i \in Ingresses : Deliver(i)
  BY <1>2, DeliverInv
<1>3. CASE \E g \in Groups : Reconcile(g)
  BY <1>3, StartInv, AddFinalizerInv, PatchPlanInv, DeployInv, UpdateStatusInv,
     RemoveFinalizerInv DEF Reconcile
<1>4. CASE \E g \in Groups : StageFails(g)
  BY <1>4, StageFailsInv
<1>5. CASE Restart
  BY <1>5, RestartInv
<1>6. CASE UNCHANGED vars
  <2>1. UNCHANGED <<setting, api, cache, events, class, backend, run, lb>>
    BY <1>6 DEF vars
  <2>2. TypeOK'
    BY <2>1 DEF Inv, TypeOK
  <2>3. \A g \in Groups : run'[g].inactive \subseteq run[g].inactive
    BY <2>1
  <2> QED BY <2>1, <2>2, <2>3, SameInformed, SameGone, SameGroups DEF Inv
<1> QED BY <1>1, <1>2, <1>3, <1>4, <1>5, <1>6 DEF Next

(* The invariant holds of every behaviour without the returns. *)
LEMMA Invariance == ASSUME NoReturns PROVE Spec => []Inv
<1>1. Init => Inv
  BY InitInv
<1>2. Inv /\ [Next]_vars => Inv'
  BY NextInv
<1> QED BY <1>1, <1>2, PTL DEF Spec

(* What a step does to the Ingresses of the API server and to load balancers. *)
LEMMA StepKinds ==
  ASSUME Inv, [Next]_vars
  PROVE  \/ UNCHANGED <<api, lb>>
         \/ UNCHANGED lb /\ \E i \in Ingresses : \E v : Write(i, v)
         \/ \E g \in Groups : Deploy(g)
<1>1. CASE User
  BY <1>1 DEF User, Create, Move, Change, Delete, ChangeBackend, ChangeClass
<1>2. CASE \/ UNCHANGED vars \/ Restart \/ (\E i \in Ingresses : Deliver(i))
           \/ \E g \in Groups : StageFails(g)
  BY <1>2 DEF vars, Restart, Deliver, StageFails
<1>3. ASSUME NEW g \in Groups, Reconcile(g)
      PROVE  \/ UNCHANGED <<api, lb>>
             \/ UNCHANGED lb /\ \E i \in Ingresses : \E v : Write(i, v)
             \/ Deploy(g)
  <2>1. CASE Start(g)
    BY <2>1 DEF Start
  <2>2. CASE AddFinalizer(g)
    BY <2>2, AddFinalizerIs DEF Inv
  <2>3. CASE PatchPlan(g)
    BY <2>3, PatchPlanIs DEF Inv
  <2>4. CASE UpdateStatus(g)
    BY <2>4, UpdateStatusIs DEF Inv
  <2>5. CASE RemoveFinalizer(g)
    BY <2>5, RemoveFinalizerIs DEF Inv
  <2> QED BY <1>3, <2>1, <2>2, <2>3, <2>4, <2>5 DEF Reconcile
<1> QED BY <1>1, <1>2, <1>3 DEF Next

-----------------------------------------------------------------------------
(***************************************************************************)
(* Theorems                                                                *)
(***************************************************************************)
(* Every Ingress a load balancer serves is in the cluster and carries the      *)
(* finalizer of the group, as the handler of Delete events relies on, unless a *)
(* user brings an Ingress back to a group that is letting go of it.            *)
THEOREM ServedFinalized == ASSUME NoReturns PROVE Spec => []ServedIsFinalized
<1>1. Inv => ServedIsFinalized
  BY ServedType DEF Inv, Guarded, Informed, ServedIsFinalized
<1> QED BY <1>1, Invariance, PTL

(* Without those returns the controller implements IngressServing: its load    *)
(* balancers get Ingresses that exist, and its finalizers keep each of them in *)
(* the cluster until no load balancer serves it.                               *)
THEOREM ImplementsServing == ASSUME NoReturns PROVE Spec => ServesOnlyWhatExists
<1> DEFINE present == {i \in Ingresses : api[i].there}
           served == [g \in Groups |-> Served(g)]
<1>1. Init => Serving!Init
  <2> SUFFICES ASSUME Init PROVE Serving!Init
    OBVIOUS
  <2>1. DOMAIN <<>> = {}
    BY IdleType DEF Idle, Members
  <2>2. \A g \in Groups : Served(g) = {}
    BY <2>1 DEF Init, Served
  <2> QED BY <2>2 DEF Serving!Init
<1>2. Inv /\ Inv' /\ [Next]_vars => [Serving!Next]_Serving!vars
  <2> SUFFICES ASSUME Inv, Inv', [Next]_vars PROVE [Serving!Next]_Serving!vars
    OBVIOUS
  <2>1. CASE UNCHANGED <<api, lb>>
    BY <2>1 DEF Serving!vars, Served
  <2>2. ASSUME NEW i \in Ingresses, NEW v, Write(i, v), UNCHANGED lb
        PROVE  [Serving!Next]_Serving!vars
    <3>1. UNCHANGED served
      BY <2>2 DEF Served
    <3>2. api'[i] = v /\ \A j \in Ingresses \ {i} : api'[j] = api[j]
      BY <2>2 DEF Write, Inv, TypeOK
    <3>3. CASE v.there = api[i].there
      <4>1. present' = present
        BY <3>2, <3>3
      <4> QED BY <3>1, <4>1 DEF Serving!vars
    <3>4. CASE v.there /\ ~api[i].there
      <4>1. i \notin present /\ present' = present \cup {i}
        BY <3>2, <3>4
      <4> QED BY <3>1, <4>1 DEF Serving!Next, Serving!Appear
    <3>5. CASE ~v.there /\ api[i].there
      <4>1. i \in present /\ present' = present \ {i}
        BY <3>2, <3>5
      <4>2. \A g \in Groups : i \notin served[g]
        <5>1. api'[i].fins = {}
          BY <3>2, <3>5 DEF Inv, Informed
        <5> QED BY <2>2, <5>1 DEF Inv, Guarded, Served
      <4> QED BY <3>1, <4>1, <4>2 DEF Serving!Next, Serving!Vanish
    <3> QED BY <3>2, <3>3, <3>4, <3>5 DEF Inv, TypeOK, Versions
  <2>3. ASSUME NEW g \in Groups, Deploy(g) PROVE [Serving!Next]_Serving!vars
    <3>1. present' = present
      BY <2>3 DEF Deploy
    <3>2. served' = [served EXCEPT ![g] = Served(g)']
      BY <2>3, DeployIs DEF Inv, Served
    <3>3. Served(g)' \subseteq present
      <4>1. Served(g)' \subseteq Ingresses
        <5>1. Served(g)' = Members(run[g]) /\ run[g] \in Runs
          BY <2>3, DeployIs DEF Inv, TypeOK, Served
        <5> QED BY <5>1, MembersType
      <4> QED BY <2>3, <4>1 DEF Inv, Guarded, Informed, Deploy
    <3> HIDE DEF present, served
    <3>4. Serving!Deploy(g)
      BY <3>1, <3>2, <3>3 DEF Serving!Deploy, present, served
    <3> QED BY <3>4 DEF Serving!Next
  <2> QED BY <2>1, <2>2, <2>3, StepKinds
<1> QED BY <1>1, <1>2, Invariance, PTL DEF Spec, ServesOnlyWhatExists, Serving!Spec

(* Only the start of a reconcile finds Ingresses inactive. *)
LEMMA InactiveStep ==
  ASSUME Inv, [Next]_vars, NEW g \in Groups
  PROVE  run'[g].inactive \subseteq run[g].inactive \/ Start(g)
<1>1. CASE User \/ UNCHANGED vars \/ \E i \in Ingresses : Deliver(i)
  <2>1. UNCHANGED run
    BY <1>1 DEF User, Create, Move, Change, Delete, ChangeBackend, ChangeClass, Deliver, vars
  <2> QED BY <2>1
<1>2. CASE Restart \/ \E h \in Groups : StageFails(h)
  <2>1. run'[g] = run[g] \/ run'[g] = Idle
    BY <1>2 DEF Restart, StageFails, Fail, Inv, TypeOK
  <2> QED BY <2>1, IdleType
<1>3. ASSUME NEW h \in Groups, Reconcile(h), ~Start(g)
      PROVE  run'[g].inactive \subseteq run[g].inactive
  <2>1. CASE Start(h)
    BY <1>3, <2>1, StartIs DEF Inv
  <2>2. CASE \E i : Advances(run[h], run'[h], i) /\ \A k \in Groups \ {h} : run'[k] = run[k]
    BY <2>2, IdleType DEF Advances
  <2>3. CASE Deploy(h)
    BY <2>3, DeployIs, IdleType DEF Onward, Inv
  <2>4. CASE AddFinalizer(h)
    BY <2>2, <2>4, AddFinalizerIs DEF Inv
  <2>5. CASE PatchPlan(h)
    BY <2>2, <2>5, PatchPlanIs DEF Inv
  <2>6. CASE UpdateStatus(h)
    BY <2>2, <2>6, UpdateStatusIs DEF Inv
  <2>7. CASE RemoveFinalizer(h)
    BY <2>2, <2>7, RemoveFinalizerIs DEF Inv
  <2> QED BY <1>3, <2>1, <2>3, <2>4, <2>5, <2>6, <2>7 DEF Reconcile
<1> QED BY <1>1, <1>2, <1>3 DEF Next

(* Without those returns an Ingress is inactive only if it left the group on   *)
(* purpose, never because its IngressClass is invalid, and an Ingress is taken *)
(* off a load balancer only if it is inactive or if the cache did not show the *)
(* group's finalizer when the reconcile loaded its members.                    *)
THEOREM Withdrawals == ASSUME NoReturns PROVE Spec => WithdrawnOnPurpose
<1> DEFINE Purpose == \A g \in Groups :
             /\ \A i \in run[g]'.inactive \ run[g].inactive :
                  loadGroupIDIfAnyHelper(i, cache[i]).err # "invalid class"
             /\ \A i \in Served(g) \ Served(g)' :
                  i \in run[g].inactive \cup run[g].unseen
<1>1. Inv /\ [Next]_vars => [Purpose]_vars
  <2> SUFFICES ASSUME Inv, [Next]_vars, NEW g \in Groups
               PROVE  /\ \A i \in run'[g].inactive \ run[g].inactive :
                           loadGroupIDIfAnyHelper(i, cache[i]).err # "invalid class"
                      /\ \A i \in Served(g) \ Served(g)' :
                           i \in run[g].inactive \cup run[g].unseen
    OBVIOUS
  <2>1. ASSUME NEW i \in run'[g].inactive \ run[g].inactive
        PROVE  loadGroupIDIfAnyHelper(i, cache[i]).err # "invalid class"
    <3>1. Start(g)
      BY InactiveStep
    <3>2. i \in Membership(g, "inactive")
      BY <2>1, <3>1, StartIs DEF Inv
    <3> QED BY <3>2, MembershipIs DEF Membership
  <2>2. ASSUME NEW i \in Served(g) \ Served(g)'
        PROVE  i \in run[g].inactive \cup run[g].unseen
    <3>1. PICK h \in Groups : Deploy(h)
      BY <2>2, StepKinds DEF Served
    <3>2. h = g
      BY <2>2, <3>1, DeployIs DEF Inv, Served
    <3> QED BY <2>2, <3>1, <3>2, DeployIs DEF Inv, Guarded, Served
  <2> QED BY <2>1, <2>2
<1> QED BY <1>1, Invariance, PTL DEF Spec, WithdrawnOnPurpose
=============================================================================
