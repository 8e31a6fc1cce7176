------------------------ MODULE ListenerRulesProofs ------------------------
(***************************************************************************)
(* Proofs about ListenerRules, for any configurations, any number of rules *)
(* and of failed runs.                                                     *)
(***************************************************************************)
EXTENDS ListenerRules, WellFoundedInduction, FiniteSetTheorems, TLAPS

Attached == [set : Settings, prio : 1 .. Last]
Wanted == DOMAIN desired
Stages == {"idle", "move", "modify", "cycle", "tags"}
Elements(s) == {s[k] : k \in DOMAIN s}
Repeats(s) == \E j, k \in DOMAIN s : j # k /\ s[j] = s[k]

TypeOK ==
    /\ listener \in [Rules -> Attached \cup {None}]
    /\ pc \in Stages
    /\ pc # "idle" => /\ desired \in Configs
                      /\ plan.old \in [Rules -> Attached \cup {None}]
                      /\ plan.move \in [Wanted -> Rules \cup {None}]
                      /\ plan.modify \in [Wanted -> Rules \cup {None}]
                      /\ plan.create \in Seq(Wanted)
                      /\ plan.delete \in Seq(Rules)
                      /\ DOMAIN plan = {"old", "move", "modify", "create", "delete"}

-----------------------------------------------------------------------------
(***************************************************************************)
(* The inductive invariant: the plan and the listener, for the matching m  *)
(* by settings that the plan was made from.                                *)
(***************************************************************************)
\* As many as possible of the rules listed are matched, each once.
Matched(m) ==
    /\ m \in [Wanted -> Rules \cup {None}]
    /\ \A i \in Wanted : m[i] # None => plan.old[m[i]] # None /\ plan.old[m[i]].set = desired[i]
    /\ \A i, j \in Wanted : m[i] = m[j] /\ m[i] # None => i = j
    /\ \A i \in Wanted, r \in Rules :
         m[i] = None /\ plan.old[r] # None /\ plan.old[r].set = desired[i] => \E j \in Wanted : m[j] = r

\* Matched rules are kept, and move to where they are wanted.
Kept(m) ==
    \A i \in Wanted :
        /\ m[i] # None => /\ m[i] \in Present /\ listener[m[i]].set = desired[i]
                          /\ m[i] \notin Elements(plan.delete)
                          /\ pc # "move" => listener[m[i]].prio = i
        /\ pc = "move" => plan.move[i] = IF m[i] # None /\ listener[m[i]].prio # i THEN m[i] ELSE None

\* Rules to be modified are at the priority of what they will be.
ToModify(m) ==
    /\ \A i \in modifying(plan) :
         /\ m[i] = None /\ \A j \in Wanted : m[j] # plan.modify[i]
         /\ plan.modify[i] \in Present /\ listener[plan.modify[i]].prio = i
         /\ plan.modify[i] \notin Elements(plan.delete)
    /\ pc \in {"cycle", "tags"} => modifying(plan) = {}

\* Indices to be created are free, once the matched rules have moved.
ToCreate(m) ==
    /\ ~Repeats(plan.create)
    /\ \A i \in Elements(plan.create) :
         /\ m[i] = None /\ plan.modify[i] = None
         /\ \A r \in Present : listener[r].prio = i => pc = "move" /\ \E j \in Wanted : m[j] = r
    /\ pc = "tags" => plan.create = <<>>

\* Rules to be deleted are out of the way.
ToDelete(m) ==
    /\ ~Repeats(plan.delete) /\ Len(plan.delete) <= Cardinality(Rules)
    /\ \A r \in Elements(plan.delete) :
         r \in Present /\ (listener[r].prio \in Wanted => m[listener[r].prio] # None)
    /\ pc = "tags" => plan.delete = <<>>

\* Nothing is forgotten: every rule is matched, at a priority it is wanted at, or
\* to be deleted; every index is matched, to be modified or created, or there.
Covered(m) ==
    /\ \A r \in Present : \/ \E i \in Wanted : m[i] = r
                          \/ r \in Elements(plan.delete)
                          \/ listener[r].prio \in Wanted /\ m[listener[r].prio] = None
    /\ \A i \in Wanted : \/ m[i] # None \/ plan.modify[i] # None \/ i \in Elements(plan.create)
                         \/ \E r \in Present : listener[r].prio = i /\ listener[r].set = desired[i]
                                               /\ \A j \in Wanted : m[j] # r

Counted == count = Cardinality(Present) /\ maxRules \in {-1, Cardinality(Rules)}

Planned(m) == Matched(m) /\ Kept(m) /\ ToModify(m) /\ ToCreate(m) /\ ToDelete(m) /\ Covered(m)

Inv ==
    /\ TypeOK
    /\ UniquePriorities
    /\ pc # "idle" => Counted /\ \E m \in [Wanted -> Rules \cup {None}] : Planned(m)

-----------------------------------------------------------------------------
(***************************************************************************)
(* Lemmas about the operators: sorting and sequences.                      *)
(***************************************************************************)
Less == {p \in Nat \X Nat : p[1] < p[2]}

LEMMA LessWellFounded ==
    IsWellFoundedOn(Less, Nat)
  BY NatLessThanWellFounded, Zenon DEF OpToRel, Less

LEMMA LeastNat ==
    ASSUME NEW S, S \subseteq Nat, S # {}
    PROVE  \E m \in S : \A n \in S : m <= n
  <1>1. PICK m \in S : \A n \in S : ~(<<n, m>> \in Less)
    BY WFMin, LessWellFounded
  <1>2. ASSUME NEW n \in S
        PROVE  m <= n
    <2>1. n \in Nat /\ m \in Nat /\ ~(<<n, m>> \in Less)
      BY <1>1
    <2>2. n < m => <<n, m>> \in Less
      BY <2>1 DEF Less
    <2> QED
      BY <2>1, <2>2
  <1> QED
    BY <1>2

\* q has the elements of S in the order of their keys.
Ascends(q, n, key) == \A a, b \in 1 .. n : a < b => key[q[a]] < key[q[b]]

\* Adding an element with the least key in front.
LEMMA SortStep ==
    ASSUME NEW U, NEW key \in [U -> Nat], \A x, y \in U : key[x] = key[y] => x = y,
           NEW S \in SUBSET U, NEW n \in Nat, n # 0,
           NEW x \in S, \A y \in S : key[x] <= key[y],
           NEW p \in [1 .. n - 1 -> S \ {x}], Ascends(p, n - 1, key)
    PROVE  \E q \in [1 .. n -> S] : Ascends(q, n, key)
  <1> DEFINE q == [a \in 1 .. n |-> IF a = 1 THEN x ELSE p[a - 1]]
  <1>1. q \in [1 .. n -> S]
    OBVIOUS
  <1>2. ASSUME NEW a \in 1 .. n, NEW b \in 1 .. n, a < b
        PROVE  key[q[a]] < key[q[b]]
    <2>1. b # 1 /\ b - 1 \in 1 .. n - 1 /\ q[b] = p[b - 1] /\ q[b] \in S \ {x}
      BY <1>2
    <2>2. CASE a = 1
      <3>1. q[a] = x /\ key[x] <= key[q[b]] /\ key[x] # key[q[b]]
        BY <2>1, <2>2
      <3>2. key[x] \in Nat /\ key[q[b]] \in Nat
        BY <2>1
      <3> QED
        BY <3>1, <3>2
    <2>3. CASE a # 1
      <3>1. a - 1 \in 1 .. n - 1 /\ q[a] = p[a - 1] /\ a - 1 < b - 1
        BY <1>2, <2>3
      <3> QED
        BY <2>1, <3>1 DEF Ascends
    <2> QED
      BY <2>2, <2>3
  <1>3. Ascends(q, n, key)
    BY <1>2 DEF Ascends
  <1> QED
    BY <1>1, <1>3

\* A finite set whose elements have different keys can be sorted by them.
LEMMA Sortable ==
    ASSUME NEW U, IsFiniteSet(U), NEW key \in [U -> Nat],
           \A x, y \in U : key[x] = key[y] => x = y
    PROVE  \E q \in [1 .. Cardinality(U) -> U] : Ascends(q, Cardinality(U), key)
  <1> DEFINE Sorts(S, n) == \E q \in [1 .. n -> S] : Ascends(q, n, key)
             Bad == {n \in Nat : \E S \in SUBSET U : Cardinality(S) = n /\ ~Sorts(S, n)}
  <1>1. SUFFICES Bad = {}
    BY FS_CardinalityType
  <1>2. SUFFICES ASSUME Bad # {}
                 PROVE  FALSE
    OBVIOUS
  <1>3. PICK n \in Bad : \A k \in Bad : n <= k
    <2>1. Bad \subseteq Nat
      OBVIOUS
    <2> HIDE DEF Bad
    <2> QED
      BY <1>2, <2>1, LeastNat
  <1>4. PICK S \in SUBSET U : Cardinality(S) = n /\ ~Sorts(S, n)
    OBVIOUS
  <1>5. n \in Nat /\ IsFiniteSet(S)
    BY <1>4, FS_Subset
  <1>6. CASE n = 0
    <2>1. [a \in 1 .. 0 |-> a] \in [1 .. 0 -> S] /\ Ascends([a \in 1 .. 0 |-> a], 0, key)
      BY DEF Ascends
    <2> QED
      BY <1>4, <1>6, <2>1
  <1>7. CASE n # 0
    <2>1. S # {}
      BY <1>4, <1>7, FS_EmptySet
    <2>2. {key[y] : y \in S} \subseteq Nat /\ {key[y] : y \in S} # {}
      BY <2>1
    <2>a. PICK k \in {key[y] : y \in S} : \A l \in {key[y] : y \in S} : k <= l
      BY <2>2, LeastNat
    <2>3. PICK x \in S : \A y \in S : key[x] <= key[y]
      BY <2>a
    <2>4. Cardinality(S \ {x}) = n - 1 /\ n - 1 \in Nat
      <3>1. IsFiniteSet(S \ {x}) /\ Cardinality(S \ {x}) = Cardinality(S) - 1
        BY <1>5, FS_RemoveElement
      <3> QED
        BY <1>4, <1>5, <1>7, <3>1
    <2>5. n - 1 \notin Bad
      BY <1>3, <1>5
    <2>6. Sorts(S \ {x}, n - 1)
      BY <2>4, <2>5
    <2>7. PICK p \in [1 .. n - 1 -> S \ {x}] : Ascends(p, n - 1, key)
      BY <2>6
    <2>8. Sorts(S, n)
      BY <1>5, <1>7, <2>3, <2>7, SortStep
    <2> QED
      BY <1>4, <2>8
  <1> QED
    BY <1>6, <1>7

\* A sequence without repetitions that is as long as the set is large lists it.
LEMMA Lists ==
    ASSUME NEW S, IsFiniteSet(S), NEW q \in [1 .. Cardinality(S) -> S], ~Repeats(q)
    PROVE  q \in Seq(S) /\ Len(q) = Cardinality(S) /\ Elements(q) = S
  <1>1. Cardinality(S) \in Nat
    BY FS_CardinalityType
  <1>2. q \in Seq(S) /\ Len(q) = Cardinality(S) /\ DOMAIN q = 1 .. Cardinality(S)
    BY <1>1
  <1>3. q \in Injection(1 .. Cardinality(S), S)
    BY <1>2 DEF Repeats, Injection, IsInjective
  <1>4. Cardinality(1 .. Cardinality(S)) = Cardinality(S)
    BY <1>1, FS_Interval
  <1>5. q \in Surjection(1 .. Cardinality(S), S)
    BY <1>3, <1>4, FS_Injection
  <1> QED
    BY <1>2, <1>5 DEF Surjection, Elements

LEMMA AscendsOnce ==
    ASSUME NEW S, NEW n \in Nat, NEW q \in [1 .. n -> S], NEW key \in [S -> Nat], Ascends(q, n, key)
    PROVE  ~Repeats(q)
  <1> SUFFICES ASSUME NEW j \in 1 .. n, NEW k \in 1 .. n, j # k, q[j] = q[k]
               PROVE  FALSE
    BY DEF Repeats
  <1>1. key[q[j]] \in Nat /\ key[q[j]] = key[q[k]]
    OBVIOUS
  <1>2. j < k \/ k < j
    OBVIOUS
  <1> QED
    BY <1>1, <1>2 DEF Ascends

\* The rest of a sequence.
LEMMA HeadAndTail ==
    ASSUME NEW T, NEW s \in Seq(T), s # <<>>
    PROVE  /\ Head(s) \in T /\ Tail(s) \in Seq(T) /\ Len(Tail(s)) <= Len(s)
           /\ Elements(s) = {Head(s)} \cup Elements(Tail(s))
           /\ ~Repeats(s) => ~Repeats(Tail(s)) /\ Head(s) \notin Elements(Tail(s))
  <1>1. /\ Len(s) \in Nat /\ Len(s) # 0 /\ DOMAIN s = 1 .. Len(s) /\ Head(s) = s[1]
        /\ Tail(s) \in Seq(T) /\ Len(Tail(s)) = Len(s) - 1 /\ DOMAIN Tail(s) = 1 .. Len(s) - 1
        /\ \A k \in 1 .. Len(s) - 1 : Tail(s)[k] = s[k + 1]
    OBVIOUS
  <1>2. Elements(s) = {Head(s)} \cup Elements(Tail(s))
    <2>1. ASSUME NEW k \in DOMAIN s
          PROVE  s[k] \in {Head(s)} \cup Elements(Tail(s))
      <3>1. CASE k = 1
        BY <1>1, <3>1
      <3>2. CASE k # 1
        <4>1. k - 1 \in DOMAIN Tail(s) /\ Tail(s)[k - 1] = s[k]
          BY <1>1, <3>2
        <4> QED
          BY <4>1 DEF Elements
      <3> QED
        BY <3>1, <3>2
    <2>2. Head(s) \in Elements(s)
      BY <1>1 DEF Elements
    <2>3. ASSUME NEW k \in DOMAIN Tail(s)
          PROVE  Tail(s)[k] \in Elements(s)
      <3>1. k + 1 \in DOMAIN s /\ Tail(s)[k] = s[k + 1]
        BY <1>1
      <3> QED
        BY <3>1 DEF Elements
    <2> QED
      BY <2>1, <2>2, <2>3 DEF Elements
  <1>3. ASSUME ~Repeats(s)
        PROVE  ~Repeats(Tail(s)) /\ Head(s) \notin Elements(Tail(s))
    <2>1. ASSUME NEW j \in DOMAIN Tail(s), NEW k \in DOMAIN Tail(s), j # k, Tail(s)[j] = Tail(s)[k]
          PROVE  FALSE
      <3>1. j + 1 \in DOMAIN s /\ k + 1 \in DOMAIN s /\ j + 1 # k + 1 /\ s[j + 1] = s[k + 1]
        BY <1>1, <2>1
      <3> QED
        BY <1>3, <3>1 DEF Repeats
    <2>2. ASSUME NEW k \in DOMAIN Tail(s), Tail(s)[k] = Head(s)
          PROVE  FALSE
      <3>1. 1 \in DOMAIN s /\ k + 1 \in DOMAIN s /\ k + 1 # 1 /\ s[k + 1] = s[1]
        BY <1>1, <2>2
      <3> QED
        BY <1>3, <3>1 DEF Repeats
    <2> QED
      BY <2>1, <2>2 DEF Repeats, Elements
  <1> QED
    BY <1>1, <1>2, <1>3

-----------------------------------------------------------------------------
(***************************************************************************)
(* Types.                                                                  *)
(***************************************************************************)
LEMMA Configuration ==
    ASSUME ConstantsAssumption, NEW d \in Configs
    PROVE  /\ d \in Seq(Settings) /\ Len(d) \in Nat /\ DOMAIN d = 1 .. Len(d)
           /\ \A i \in DOMAIN d : d[i] \in Settings
           /\ DOMAIN d \subseteq 1 .. Last /\ DOMAIN d \subseteq Nat
           /\ IsFiniteSet(DOMAIN d) /\ Cardinality(DOMAIN d) = Len(d)
           /\ Cardinality(Rules) \in Nat /\ Last \in Nat /\ Len(d) + Cardinality(Rules) <= Last
  <1>1. d \in Seq(Settings)
    BY DEF ConstantsAssumption
  <1>2. Len(d) \in Nat /\ DOMAIN d = 1 .. Len(d) /\ \A i \in DOMAIN d : d[i] \in Settings
    BY <1>1
  <1>3. Cardinality(Rules) \in Nat /\ Last \in Nat /\ Len(d) + Cardinality(Rules) <= Last
    BY FS_CardinalityType DEF ConstantsAssumption
  <1>4. DOMAIN d \subseteq 1 .. Last /\ DOMAIN d \subseteq Nat
    BY <1>2, <1>3
  <1>5. IsFiniteSet(1 .. Len(d)) /\ Cardinality(1 .. Len(d)) = Len(d)
    BY SMTT(40), <1>2, FS_Interval
  <1> QED
    BY <1>1, <1>2, <1>3, <1>4, <1>5

LEMMA PresentRules ==
    ASSUME ConstantsAssumption, TypeOK
    PROVE  /\ Present \subseteq Rules /\ IsFiniteSet(Present) /\ Cardinality(Present) \in Nat
           /\ Cardinality(Present) <= Cardinality(Rules)
           /\ \A r \in Present : /\ listener[r] \in Attached
                                 /\ listener[r].set \in Settings /\ listener[r].prio \in 1 .. Last
                                 /\ listener[r].prio \in Nat
  <1>1. Present \subseteq Rules
    BY DEF Present
  <1>2. IsFiniteSet(Present) /\ Cardinality(Present) \in Nat /\ Cardinality(Present) <= Cardinality(Rules)
    BY <1>1, FS_Subset, FS_CardinalityType DEF ConstantsAssumption
  <1>3. ASSUME NEW r \in Present
        PROVE  /\ listener[r] \in Attached
               /\ listener[r].set \in Settings /\ listener[r].prio \in 1 .. Last
               /\ listener[r].prio \in Nat
    <2>1. listener[r] \in Attached
      BY DEF Present, TypeOK
    <2>2. listener[r].set \in Settings /\ listener[r].prio \in 1 .. Last
      BY <2>1 DEF Attached
    <2> QED
      BY <2>1, <2>2 DEF ConstantsAssumption
  <1> QED
    BY <1>1, <1>2, <1>3

\* Rules on the listener, in the order of their priorities.
LEMMA ByPriority ==
    ASSUME ConstantsAssumption, TypeOK, UniquePriorities, NEW rs, rs \subseteq Present
    PROVE  /\ byPriority(rs) \in Seq(rs) /\ Elements(byPriority(rs)) = rs /\ ~Repeats(byPriority(rs))
           /\ Len(byPriority(rs)) <= Cardinality(Rules)
  <1> DEFINE key == [r \in rs |-> listener[r].prio]
             n == Cardinality(rs)
  <1>1. IsFiniteSet(rs) /\ n \in Nat /\ n <= Cardinality(Rules)
    <2>1. rs \subseteq Rules
      BY PresentRules
    <2> QED
      BY <2>1, FS_Subset, FS_CardinalityType DEF ConstantsAssumption
  <1>2. key \in [rs -> Nat] /\ \A x, y \in rs : key[x] = key[y] => x = y
    BY PresentRules DEF UniquePriorities
  <1>3. PICK p \in [1 .. n -> rs] : Ascends(p, n, key)
    <2> HIDE DEF key
    <2> QED
      BY <1>1, <1>2, Sortable
  <1>4. \A q \in [1 .. n -> rs] : \A a, b \in 1 .. n : /\ key[q[a]] = listener[q[a]].prio
                                                       /\ key[q[b]] = listener[q[b]].prio
    OBVIOUS
  <1>5. \A a, b \in 1 .. n : a < b => listener[p[a]].prio < listener[p[b]].prio
    BY <1>3, <1>4 DEF Ascends
  <1> DEFINE q == byPriority(rs)
  <1>6. q \in [1 .. n -> rs] /\ \A a, b \in 1 .. n : a < b => listener[q[a]].prio < listener[q[b]].prio
    <2> HIDE DEF key
    <2> QED
      BY <1>5 DEF byPriority
  <1> HIDE DEF q
  <1>7. Ascends(q, n, key)
    BY <1>4, <1>6 DEF Ascends
  <1>8. ~Repeats(q)
    <2> HIDE DEF key
    <2> QED
      BY <1>1, <1>2, <1>6, <1>7, AscendsOnce
  <1>9. q \in Seq(rs) /\ Len(q) = n /\ Elements(q) = rs
    BY <1>1, <1>6, <1>8, Lists
  <1> QED
    BY <1>1, <1>8, <1>9 DEF q

LEMMA Ascending ==
    ASSUME NEW is, is \subseteq Nat, IsFiniteSet(is)
    PROVE  ascending(is) \in Seq(is) /\ Elements(ascending(is)) = is /\ ~Repeats(ascending(is))
  <1> DEFINE key == [i \in is |-> i]
             n == Cardinality(is)
  <1>1. n \in Nat
    BY FS_CardinalityType
  <1>2. key \in [is -> Nat] /\ \A x, y \in is : key[x] = key[y] => x = y
    OBVIOUS
  <1>3. PICK p \in [1 .. n -> is] : Ascends(p, n, key)
    <2> HIDE DEF key
    <2> QED
      BY <1>2, Sortable
  <1>4. \A q \in [1 .. n -> is] : \A a, b \in 1 .. n : key[q[a]] = q[a] /\ key[q[b]] = q[b]
    OBVIOUS
  <1>5. \A a, b \in 1 .. n : a < b => p[a] < p[b]
    BY <1>3, <1>4 DEF Ascends
  <1> DEFINE q == ascending(is)
  <1>6. q \in [1 .. n -> is] /\ \A a, b \in 1 .. n : a < b => q[a] < q[b]
    <2> HIDE DEF key
    <2> QED
      BY <1>5 DEF ascending
  <1> HIDE DEF q
  <1>7. Ascends(q, n, key)
    BY <1>4, <1>6 DEF Ascends
  <1>8. ~Repeats(q)
    <2> HIDE DEF key
    <2> QED
      BY <1>1, <1>2, <1>6, <1>7, AscendsOnce
  <1>9. q \in Seq(is) /\ Len(q) = n /\ Elements(q) = is
    BY <1>1, <1>6, <1>8, Lists
  <1> QED
    BY <1>8, <1>9 DEF q

-----------------------------------------------------------------------------
(***************************************************************************)
(* A run starts: the plan is one for the matching it was made from.        *)
(***************************************************************************)
LEMMA StartPlans ==
    ASSUME ConstantsAssumption, Inv, NEW d \in Configs, Start(d)
    PROVE  Inv'
  <1>1. PICK m \in matchesBySettings(d) : plan' = matchResAndSDKListenerRules(d, m)
    BY DEF Start
  <1> DEFINE res == {i \in DOMAIN d : m[i] = None}
             sdk == {r \in Present : \A i \in DOMAIN d : m[i] # r}
             at(i) == {r \in sdk : listener[r].prio = i}
             left == {i \in res : at(i) = {}}
             gone == {r \in sdk : listener[r].prio \notin res}
  <1>2. /\ plan'.old = listener
        /\ plan'.move = [i \in DOMAIN d |-> IF m[i] # None /\ listener[m[i]].prio # i THEN m[i] ELSE None]
        /\ plan'.modify = [i \in DOMAIN d |-> IF i \in res \ left THEN CHOOSE r \in at(i) : TRUE ELSE None]
        /\ plan'.create = ascending(left)
        /\ plan'.delete = byPriority(gone)
        /\ DOMAIN plan' = {"old", "move", "modify", "create", "delete"}
    BY <1>1 DEF matchResAndSDKListenerRules
  <1>3. /\ desired' = d /\ Wanted' = DOMAIN d /\ listener' = listener /\ Present' = Present
        /\ pc' = (IF moving(plan') # {} THEN "move" ELSE "modify")
        /\ count' = Cardinality(Present) /\ maxRules' = -1
    BY DEF Start, Wanted, Present
  <1>4. TypeOK /\ UniquePriorities
    BY DEF Inv
  <1>5. /\ m \in [DOMAIN d -> Rules \cup {None}] /\ m \in [DOMAIN d -> Present \cup {None}]
        /\ \A i \in DOMAIN d : m[i] # None => listener[m[i]].set = d[i]
        /\ \A i, j \in DOMAIN d : m[i] = m[j] /\ m[i] # None => i = j
        /\ \A i \in DOMAIN d, r \in Present :
             m[i] = None /\ listener[r].set = d[i] => \E j \in DOMAIN d : m[j] = r
    BY DEF matchesBySettings, Present
  <1>6. \A r \in Rules : r # None
    BY DEF ConstantsAssumption
  <1>7. /\ plan'.delete \in Seq(gone) /\ Elements(plan'.delete) = gone /\ ~Repeats(plan'.delete)
        /\ Len(plan'.delete) <= Cardinality(Rules)
    <2>1. gone \subseteq Present
      OBVIOUS
    <2> HIDE DEF gone
    <2> QED
      BY <1>2, <1>4, <2>1, ByPriority
  <1>8. plan'.create \in Seq(left) /\ Elements(plan'.create) = left /\ ~Repeats(plan'.create)
    <2>1. left \subseteq DOMAIN d
      OBVIOUS
    <2> HIDE DEF left
    <2>2. left \subseteq Nat /\ IsFiniteSet(left)
      BY <2>1, Configuration, FS_Subset
    <2> QED
      BY <1>2, <2>2, Ascending
  <1>9. \A i \in res \ left : plan'.modify[i] \in at(i)
    <2>1. \A i \in res \ left : at(i) # {} /\ plan'.modify[i] = CHOOSE r \in at(i) : TRUE
      BY <1>2
    <2> HIDE DEF at
    <2> QED
      BY <2>1
  <1>10. \A i \in DOMAIN d : i \notin res \ left => plan'.modify[i] = None
    BY <1>2
  <1>11. plan'.modify \in [DOMAIN d -> Rules \cup {None}]
    <2>1. \A i \in DOMAIN d : plan'.modify[i] \in Rules \cup {None}
      BY <1>9, <1>10 DEF Present
    <2>2. DOMAIN plan'.modify = DOMAIN d /\ plan'.modify = [i \in DOMAIN d |-> plan'.modify[i]]
      BY <1>2
    <2> QED
      BY <2>1, <2>2
  <1>12. TypeOK'
    <2>1. plan'.move \in [DOMAIN d -> Rules \cup {None}]
      BY <1>2, <1>5
    <2>2. plan'.create \in Seq(DOMAIN d)
      BY <1>8
    <2>3. plan'.delete \in Seq(Rules)
      BY <1>7 DEF Present
    <2>4. pc' \in Stages
      BY <1>3 DEF Stages
    <2>5. listener' \in [Rules -> Attached \cup {None}] /\ plan'.old = listener'
      BY <1>2, <1>3, <1>4 DEF TypeOK
    <2> QED
      BY <1>2, <1>3, <1>11, <2>1, <2>2, <2>3, <2>4, <2>5 DEF TypeOK
  <1>13. Matched(m)'
    BY SMTT(40), <1>2, <1>3, <1>5 DEF Matched, Present
  <1>14. \A i \in DOMAIN d : m[i] # None =>
            /\ m[i] \in Present /\ m[i] \notin gone
            /\ pc' # "move" => listener[m[i]].prio = i
    <2> SUFFICES ASSUME NEW i \in DOMAIN d, m[i] # None
                 PROVE  /\ m[i] \in Present /\ m[i] \notin gone
                        /\ pc' # "move" => listener[m[i]].prio = i
      OBVIOUS
    <2>1. m[i] \in Present /\ m[i] \notin gone
      BY <1>5
    <2>2. ASSUME pc' # "move", listener[m[i]].prio # i
          PROVE  FALSE
      <3>1. plan'.move[i] = m[i] /\ i \in DOMAIN plan'.move
        BY <1>2, <2>2
      <3>2. i \in moving(plan')
        BY <3>1 DEF moving
      <3> QED
        BY <1>3, <2>2, <3>2
    <2> QED
      BY <2>1, <2>2
  <1>15. Kept(m)'
    <2>1. \A i \in DOMAIN d : pc' = "move" =>
             plan'.move[i] = IF m[i] # None /\ listener[m[i]].prio # i THEN m[i] ELSE None
      BY <1>2
    <2> HIDE DEF gone
    <2> QED
      BY <1>3, <1>5, <1>7, <1>14, <2>1 DEF Kept
  <1>16. ToModify(m)'
    <2>1. ASSUME NEW i \in DOMAIN d, plan'.modify[i] # None
          PROVE  /\ m[i] = None /\ \A j \in DOMAIN d : m[j] # plan'.modify[i]
                 /\ plan'.modify[i] \in Present /\ listener[plan'.modify[i]].prio = i
                 /\ plan'.modify[i] \notin gone
      <3>1. i \in res \ left
        BY <1>10, <2>1
      <3>2. plan'.modify[i] \in at(i)
        BY <1>9, <3>1
      <3> QED
        BY <3>1, <3>2
    <2>2. pc' \notin {"cycle", "tags"}
      BY <1>3
    <2>3. DOMAIN plan'.modify = DOMAIN d
      BY <1>11
    <2> HIDE DEF gone
    <2> QED
      BY <1>3, <1>7, <2>1, <2>2, <2>3 DEF ToModify, modifying
  <1>17. ToCreate(m)'
    <2>1. ASSUME NEW i \in left
          PROVE  /\ m[i] = None /\ plan'.modify[i] = None
                 /\ \A r \in Present : listener[r].prio = i => pc' = "move" /\ \E j \in DOMAIN d : m[j] = r
      <3>1. m[i] = None /\ plan'.modify[i] = None
        BY <1>10, <2>1
      <3>2. ASSUME NEW r \in Present, listener[r].prio = i
            PROVE  pc' = "move" /\ \E j \in DOMAIN d : m[j] = r
        <4>1. r \notin at(i)
          BY <2>1
        <4>2. PICK j \in DOMAIN d : m[j] = r
          BY <3>2, <4>1
        <4>3. m[j] # None
          BY <1>6, <4>2 DEF Present
        <4>4. j # i
          BY <3>1, <4>3
        <4> QED
          BY <1>14, <3>2, <4>2, <4>3, <4>4
      <3> QED
        BY <3>1, <3>2
    <2>2. pc' # "tags"
      BY <1>3
    <2> HIDE DEF left
    <2> QED
      BY <1>3, <1>8, <2>1, <2>2 DEF ToCreate
  <1>18. ToDelete(m)'
    <2>1. \A r \in gone : r \in Present /\ (listener[r].prio \in DOMAIN d => m[listener[r].prio] # None)
      OBVIOUS
    <2>2. pc' # "tags"
      BY <1>3
    <2> HIDE DEF gone
    <2> QED
      BY <1>3, <1>7, <2>1, <2>2 DEF ToDelete
  <1>19. Covered(m)'
    <2>1. \A r \in Present : \/ \E i \in DOMAIN d : m[i] = r
                             \/ r \in gone
                             \/ listener[r].prio \in DOMAIN d /\ m[listener[r].prio] = None
      OBVIOUS
    <2>2. ASSUME NEW i \in DOMAIN d
          PROVE  m[i] # None \/ plan'.modify[i] # None \/ i \in left
      <3>1. i \in res \ left => plan'.modify[i] \in Present
        BY <1>9
      <3> QED
        BY <1>6, <3>1 DEF Present
    <2> HIDE DEF gone, left
    <2> QED
      BY <1>3, <1>7, <1>8, <2>1, <2>2 DEF Covered
  <1>20. UniquePriorities' /\ Counted'
    BY <1>3, <1>4 DEF UniquePriorities, Counted
  <1>21. Planned(m)' /\ m \in [Wanted' -> Rules \cup {None}]
    BY <1>3, <1>5, <1>13, <1>15, <1>16, <1>17, <1>18, <1>19 DEF Planned
  <1> QED
    BY <1>12, <1>20, <1>21 DEF Inv

-----------------------------------------------------------------------------
(***************************************************************************)
(* What the calls do to the listener.                                      *)
(***************************************************************************)
\* What a run knows while it goes on.
LEMMA Running ==
    ASSUME ConstantsAssumption, TypeOK, pc # "idle"
    PROVE  /\ desired \in Configs /\ Wanted = 1 .. Len(desired) /\ Len(desired) \in Nat
           /\ \A i \in Wanted : i \in 1 .. Last /\ desired[i] \in Settings
           /\ plan.modify \in [Wanted -> Rules \cup {None}] /\ plan.move \in [Wanted -> Rules \cup {None}]
           /\ plan.create \in Seq(Wanted) /\ plan.delete \in Seq(Rules)
           /\ Elements(plan.create) \subseteq Wanted /\ Elements(plan.delete) \subseteq Rules
           /\ \A r \in Rules : r # None
  <1>1. desired \in Configs
    BY DEF TypeOK
  <1>2. /\ Wanted = 1 .. Len(desired) /\ Len(desired) \in Nat
        /\ \A i \in Wanted : i \in 1 .. Last /\ desired[i] \in Settings
    BY <1>1, Configuration DEF Wanted
  <1>3. /\ plan.modify \in [Wanted -> Rules \cup {None}] /\ plan.move \in [Wanted -> Rules \cup {None}]
        /\ plan.create \in Seq(Wanted) /\ plan.delete \in Seq(Rules)
    BY DEF TypeOK
  <1>4. Elements(plan.create) \subseteq Wanted /\ Elements(plan.delete) \subseteq Rules
    BY <1>3 DEF Elements
  <1> QED
    BY <1>1, <1>2, <1>3, <1>4 DEF ConstantsAssumption

\* An attached rule stays one when its priority or its settings change.
LEMMA AttachedRule ==
    ASSUME ConstantsAssumption, NEW x \in Attached
    PROVE  /\ x # None /\ x = [set |-> x.set, prio |-> x.prio]
           /\ \A p \in 1 .. Last : /\ [x EXCEPT !.prio = p] \in Attached /\ [x EXCEPT !.prio = p] # None
                                   /\ [x EXCEPT !.prio = p].set = x.set /\ [x EXCEPT !.prio = p].prio = p
           /\ \A s \in Settings : /\ [x EXCEPT !.set = s] \in Attached /\ [x EXCEPT !.set = s] # None
                                  /\ [x EXCEPT !.set = s].set = s /\ [x EXCEPT !.set = s].prio = x.prio
           /\ \A s \in Settings, p \in 1 .. Last : [set |-> s, prio |-> p] \in Attached
                                                   /\ [set |-> s, prio |-> p] # None
  <1>1. \A y \in Attached : y # None
    BY DEF Attached, ConstantsAssumption
  <1>2. /\ x = [set |-> x.set, prio |-> x.prio]
        /\ \A p \in 1 .. Last : /\ [x EXCEPT !.prio = p] \in Attached
                                /\ [x EXCEPT !.prio = p].set = x.set /\ [x EXCEPT !.prio = p].prio = p
    BY DEF Attached
  <1>3. \A s \in Settings : /\ [x EXCEPT !.set = s] \in Attached
                            /\ [x EXCEPT !.set = s].set = s /\ [x EXCEPT !.set = s].prio = x.prio
    BY DEF Attached
  <1>4. \A s \in Settings, p \in 1 .. Last : [set |-> s, prio |-> p] \in Attached
    BY DEF Attached
  <1> QED
    BY <1>1, <1>2, <1>3, <1>4

LEMMA PushedDown ==
    ASSUME NEW n \in Nat, NEW c \in Nat, NEW w \in Nat, NEW l \in Nat, w + c <= l, n <= c, NEW k \in 1 .. n
    PROVE  l - n + k \in 1 .. l /\ l - n + k > w
  OBVIOUS

\* Where SetRulePriorities puts a rule: a matched rule where it is wanted, a rule to be
\* deleted at the end, any other where it is.
LEMMA NewPriority ==
    ASSUME ConstantsAssumption, Inv, pc = "move", NEW m, Planned(m), NEW r \in Present
    PROVE  LET p == buildSDKSetRulePrioritiesInput(r)
           IN  /\ p \in 1 .. Last
               /\ \A i \in Wanted : m[i] = r => p = i
               /\ r \in Elements(plan.delete) =>
                     /\ p > Len(desired)
                     /\ \E k \in DOMAIN plan.delete : plan.delete[k] = r /\ p = Last - Len(plan.delete) + k
               /\ (\A i \in Wanted : m[i] # r) /\ r \notin Elements(plan.delete) =>
                     p = listener[r].prio /\ p \in Wanted /\ m[p] = None
  <1> DEFINE p == buildSDKSetRulePrioritiesInput(r)
  <1>t. /\ TypeOK /\ r \in Rules /\ r # None /\ listener[r].prio \in 1 .. Last
        /\ DOMAIN plan.move = Wanted /\ Wanted = 1 .. Len(desired) /\ Len(desired) \in Nat
        /\ \A i \in Wanted : i \in 1 .. Last
    BY Running, PresentRules DEF Inv
  <1>k. \A i \in Wanted : m[i] # None =>
            /\ m[i] \notin Elements(plan.delete)
            /\ plan.move[i] = IF listener[m[i]].prio # i THEN m[i] ELSE None
    BY DEF Planned, Kept
  <1>n. \A i \in Wanted : m[i] = None => plan.move[i] = None
    BY DEF Planned, Kept
  <1>m. \A i, j \in Wanted : m[i] = m[j] /\ m[i] # None => i = j
    BY DEF Planned, Matched
  <1>v. \A i \in moving(plan) : i \in Wanted /\ m[i] # None /\ plan.move[i] = m[i]
    BY <1>t, <1>k, <1>n DEF moving
  <1>1. CASE \E i \in Wanted : m[i] = r
    <2>1. PICK i \in Wanted : m[i] = r
      BY <1>1
    <2>2. m[i] # None /\ r \notin Elements(plan.delete)
      BY <1>t, <1>k, <2>1
    <2>3. \A j \in Wanted : m[j] = r => j = i
      BY <1>m, <2>1, <2>2
    <2>4. CASE listener[r].prio # i
      <3>1. plan.move[i] = r /\ i \in moving(plan)
        BY <1>t, <1>k, <2>1, <2>2, <2>4 DEF moving
      <3>2. \A j \in moving(plan) : plan.move[j] = r => j = i
        BY <1>v, <2>3
      <3>3. p = CHOOSE j \in moving(plan) : plan.move[j] = r
        BY <3>1 DEF buildSDKSetRulePrioritiesInput
      <3>4. p = i
        <4> HIDE DEF p
        <4> QED
          BY <3>1, <3>2, <3>3
      <3> HIDE DEF p
      <3>5. p \in 1 .. Last /\ \A j \in Wanted : m[j] = r => p = j
        BY <1>t, <2>1, <2>3, <3>4
      <3> QED
        BY <2>1, <2>2, <3>5 DEF p
    <2>5. CASE listener[r].prio = i
      <3>1. ~\E j \in moving(plan) : plan.move[j] = r
        <4> SUFFICES ASSUME NEW j \in moving(plan), plan.move[j] = r
                     PROVE  FALSE
          OBVIOUS
        <4>1. j \in Wanted /\ m[j] = r /\ j = i
          BY <1>v, <2>3
        <4> QED
          BY <1>t, <1>k, <2>5, <4>1
      <3>2. ~\E k \in DOMAIN plan.delete : plan.delete[k] = r
        BY <2>2 DEF Elements
      <3>3. p = i
        BY <2>5, <3>1, <3>2 DEF buildSDKSetRulePrioritiesInput
      <3> HIDE DEF p
      <3>4. p \in 1 .. Last /\ \A j \in Wanted : m[j] = r => p = j
        BY <1>t, <2>1, <2>3, <3>3
      <3> QED
        BY <2>1, <2>2, <3>4 DEF p
    <2> QED
      BY <2>4, <2>5
  <1>2. CASE ~\E i \in Wanted : m[i] = r
    <2>1. ~\E j \in moving(plan) : plan.move[j] = r
      BY <1>2, <1>v
    <2>2. CASE r \in Elements(plan.delete)
      <3>1. \E k \in DOMAIN plan.delete : plan.delete[k] = r
        BY <2>2 DEF Elements
      <3> DEFINE k == CHOOSE k \in DOMAIN plan.delete : plan.delete[k] = r
      <3>2. k \in DOMAIN plan.delete /\ plan.delete[k] = r
        BY <3>1
      <3>3. p = Last - Len(plan.delete) + k
        BY <2>1, <3>1 DEF buildSDKSetRulePrioritiesInput
      <3> HIDE DEF k, p
      <3>4. /\ k \in 1 .. Len(plan.delete) /\ Len(plan.delete) \in Nat
            /\ Len(plan.delete) <= Cardinality(Rules)
        BY <1>t, <3>2, Running DEF Planned, ToDelete
      <3>5. /\ Last \in Nat /\ Cardinality(Rules) \in Nat /\ Len(desired) \in Nat
            /\ Len(desired) + Cardinality(Rules) <= Last
        BY <1>t, Running, Configuration
      <3>6. p \in 1 .. Last /\ p > Len(desired)
        BY <3>3, <3>4, <3>5, PushedDown
      <3> QED
        BY <1>2, <2>2, <3>2, <3>3, <3>6 DEF p
    <2>3. CASE r \notin Elements(plan.delete)
      <3>1. ~\E k \in DOMAIN plan.delete : plan.delete[k] = r
        BY <2>3 DEF Elements
      <3>2. p = listener[r].prio
        BY <2>1, <3>1 DEF buildSDKSetRulePrioritiesInput
      <3>3. listener[r].prio \in Wanted /\ m[listener[r].prio] = None
        BY <1>2, <2>3 DEF Planned, Covered
      <3> HIDE DEF p
      <3> QED
        BY <1>2, <1>t, <2>3, <3>2, <3>3 DEF p
    <2> QED
      BY <2>2, <2>3
  <1> QED
    BY <1>1, <1>2

LEMMA PrioritizedListener ==
    ASSUME ConstantsAssumption, Inv, pc = "move", NEW m, Planned(m), listener' = prioritized
    PROVE  /\ listener' \in [Rules -> Attached \cup {None}] /\ Present' = Present
           /\ \A r \in Present : /\ listener'[r].set = listener[r].set
                                 /\ listener'[r].prio = buildSDKSetRulePrioritiesInput(r)
           /\ UniquePriorities'
  <1>t. TypeOK /\ Present \subseteq Rules
    BY PresentRules DEF Inv
  <1>1. ASSUME NEW r \in Present
        PROVE  /\ listener'[r] \in Attached /\ listener'[r] # None
               /\ listener'[r].set = listener[r].set
               /\ listener'[r].prio = buildSDKSetRulePrioritiesInput(r)
    <2>1. listener'[r] = [listener[r] EXCEPT !.prio = buildSDKSetRulePrioritiesInput(r)]
      BY <1>t, <1>1 DEF prioritized
    <2>2. listener[r] \in Attached
      BY <1>t, PresentRules
    <2>3. buildSDKSetRulePrioritiesInput(r) \in 1 .. Last
      BY NewPriority
    <2> QED
      BY <2>1, <2>2, <2>3, AttachedRule
  <1>2. ASSUME NEW r \in Rules, r \notin Present
        PROVE  listener'[r] = None
    BY <1>2 DEF prioritized
  <1>3. DOMAIN listener' = Rules /\ listener' = [r \in Rules |-> listener'[r]]
    BY DEF prioritized
  <1>4. listener' \in [Rules -> Attached \cup {None}]
    BY <1>1, <1>2, <1>3
  <1>5. Present' = Present
    BY <1>1, <1>2, <1>t DEF Present
  <1>6. UniquePriorities'
    <2> SUFFICES ASSUME NEW q \in Present, NEW r \in Present,
                        buildSDKSetRulePrioritiesInput(q) = buildSDKSetRulePrioritiesInput(r)
                 PROVE  q = r
      BY <1>1, <1>5 DEF UniquePriorities
    <2> DEFINE p == buildSDKSetRulePrioritiesInput(q)
               goes(x) == x \in Elements(plan.delete)
               stays(x) == (\A i \in Wanted : m[i] # x) /\ ~goes(x)
    <2>w. Wanted = 1 .. Len(desired) /\ Len(desired) \in Nat /\ q # None /\ r # None /\ p \in 1 .. Last
      BY <1>t, Running, NewPriority
    <2>q. /\ \A i \in Wanted : m[i] = q => p = i
          /\ goes(q) => /\ p > Len(desired)
                        /\ \E k \in DOMAIN plan.delete : plan.delete[k] = q /\ p = Last - Len(plan.delete) + k
          /\ stays(q) => p = listener[q].prio /\ p \in Wanted /\ m[p] = None
      BY NewPriority
    <2>r. /\ \A i \in Wanted : m[i] = r => p = i
          /\ goes(r) => /\ p > Len(desired)
                        /\ \E k \in DOMAIN plan.delete : plan.delete[k] = r /\ p = Last - Len(plan.delete) + k
          /\ stays(r) => p = listener[r].prio /\ p \in Wanted /\ m[p] = None
      BY NewPriority
    <2> HIDE DEF p
    <2>1. p \in Wanted => ~(p > Len(desired))
      BY <2>w
    <2>2. CASE goes(q) /\ goes(r)
      <3>1. PICK k \in DOMAIN plan.delete : plan.delete[k] = q /\ p = Last - Len(plan.delete) + k
        BY <2>2, <2>q
      <3>2. PICK l \in DOMAIN plan.delete : plan.delete[l] = r /\ p = Last - Len(plan.delete) + l
        BY <2>2, <2>r
      <3>3. Last \in Nat /\ Len(plan.delete) \in Nat /\ k \in Nat /\ l \in Nat
        BY <1>t, Running DEF ConstantsAssumption
      <3>4. k = l
        <4>1. \A a, b, x, y \in Nat : a - b + x = a - b + y => x = y
          OBVIOUS
        <4> QED
          BY <3>1, <3>2, <3>3, <4>1
      <3> QED
        BY <3>1, <3>2, <3>4
    <2>3. CASE goes(q) /\ ~goes(r)
      BY <2>3, <2>q, <2>r, <2>1
    <2>4. CASE ~goes(q) /\ goes(r)
      BY <2>4, <2>q, <2>r, <2>1
    <2>5. CASE stays(q) /\ stays(r)
      BY <2>5, <2>q, <2>r DEF Inv, UniquePriorities
    <2>6. CASE \E i \in Wanted : m[i] = q
      <3>1. m[p] = q
        BY <2>6, <2>q
      <3>2. CASE \E i \in Wanted : m[i] = r
        BY <2>r, <3>1, <3>2
      <3>3. CASE stays(r)
        BY <2>w, <2>r, <3>1, <3>3
      <3> QED
        BY <2>2, <2>4, <3>2, <3>3
    <2>7. CASE \E i \in Wanted : m[i] = r
      <3>1. m[p] = r
        BY <2>7, <2>r
      <3>2. CASE stays(q)
        BY <2>w, <2>q, <3>1, <3>2
      <3> QED
        BY <2>2, <2>3, <2>6, <3>2
    <2> QED
      BY <2>2, <2>3, <2>4, <2>5, <2>6, <2>7
  <1> QED
    BY <1>1, <1>4, <1>5, <1>6

LEMMA SetRulePrioritiesStep ==
    ASSUME ConstantsAssumption, Inv, SetRulePriorities
    PROVE  Inv'
  <1>1. /\ pc = "move" /\ pc' = "modify" /\ listener' = prioritized
        /\ UNCHANGED <<desired, plan, count, maxRules>> /\ Wanted' = Wanted
    BY DEF SetRulePriorities, Wanted
  <1>2. PICK m \in [Wanted -> Rules \cup {None}] : Planned(m)
    BY <1>1 DEF Inv
  <1>3. /\ listener' \in [Rules -> Attached \cup {None}] /\ Present' = Present
        /\ \A r \in Present : /\ listener'[r].set = listener[r].set
                              /\ listener'[r].prio = buildSDKSetRulePrioritiesInput(r)
        /\ UniquePriorities'
    BY <1>1, <1>2, PrioritizedListener
  <1>4. ASSUME NEW r \in Present
        PROVE  /\ \A i \in Wanted : m[i] = r => listener'[r].prio = i
               /\ r \in Elements(plan.delete) => listener'[r].prio \notin Wanted
               /\ (\A i \in Wanted : m[i] # r) /\ r \notin Elements(plan.delete) =>
                     listener'[r].prio = listener[r].prio /\ listener[r].prio \in Wanted /\ m[listener[r].prio] = None
    <2> DEFINE p == buildSDKSetRulePrioritiesInput(r)
    <2>1. /\ \A i \in Wanted : m[i] = r => p = i
          /\ r \in Elements(plan.delete) => p > Len(desired)
          /\ (\A i \in Wanted : m[i] # r) /\ r \notin Elements(plan.delete) =>
                p = listener[r].prio /\ p \in Wanted /\ m[p] = None
          /\ p \in 1 .. Last
      BY <1>1, <1>2, NewPriority
    <2>2. Wanted = 1 .. Len(desired) /\ Len(desired) \in Nat
      BY <1>1, Running DEF Inv
    <2>3. listener'[r].prio = p
      BY <1>3
    <2> HIDE DEF p
    <2>4. p > Len(desired) => p \notin Wanted
      BY <2>1, <2>2
    <2> QED
      BY <2>1, <2>3, <2>4
  <1>t. TypeOK /\ pc # "idle" /\ \A r \in Rules : r # None
    BY <1>1, Running DEF Inv
  <1>5. TypeOK'
    BY <1>1, <1>3, <1>t DEF TypeOK, Stages
  <1>6. Matched(m)'
    BY <1>1, <1>2 DEF Planned, Matched
  <1>7. Kept(m)'
    <2>1. \A i \in Wanted : m[i] # None => /\ m[i] \in Present /\ listener[m[i]].set = desired[i]
                                           /\ m[i] \notin Elements(plan.delete)
      BY <1>2 DEF Planned, Kept
    <2>2. \A i \in Wanted : m[i] # None => listener'[m[i]].set = desired[i] /\ listener'[m[i]].prio = i
      BY <1>3, <1>4, <2>1
    <2> QED
      BY <1>1, <1>3, <2>1, <2>2 DEF Kept
  <1>8. ToModify(m)'
    <2>1. \A i \in modifying(plan) :
             /\ m[i] = None /\ \A j \in Wanted : m[j] # plan.modify[i]
             /\ plan.modify[i] \in Present /\ listener[plan.modify[i]].prio = i
             /\ plan.modify[i] \notin Elements(plan.delete)
      BY <1>2 DEF Planned, ToModify
    <2>2. \A i \in modifying(plan) : listener'[plan.modify[i]].prio = i
      BY <1>4, <2>1
    <2> QED
      BY <1>1, <1>3, <2>1, <2>2 DEF ToModify, modifying
  <1>9. ToCreate(m)'
    <2>1. /\ ~Repeats(plan.create)
          /\ \A i \in Elements(plan.create) :
               /\ m[i] = None /\ plan.modify[i] = None
               /\ \A r \in Present : listener[r].prio = i => \E j \in Wanted : m[j] = r
      BY <1>2 DEF Planned, ToCreate
    <2>2. ASSUME NEW i \in Elements(plan.create), NEW r \in Present, listener'[r].prio = i
          PROVE  FALSE
      <3>1. i \in Wanted /\ m[i] = None /\ r # None
        BY <1>t, <2>1, Running, PresentRules
      <3>2. CASE \E j \in Wanted : m[j] = r
        BY <1>4, <2>2, <3>1, <3>2
      <3>3. CASE \A j \in Wanted : m[j] # r
        BY <1>4, <2>1, <2>2, <3>1, <3>3
      <3> QED
        BY <3>2, <3>3
    <2> QED
      BY <1>1, <1>3, <2>1, <2>2 DEF ToCreate
  <1>10. ToDelete(m)'
    <2>1. /\ ~Repeats(plan.delete) /\ Len(plan.delete) <= Cardinality(Rules)
          /\ \A r \in Elements(plan.delete) : r \in Present
      BY <1>2 DEF Planned, ToDelete
    <2> QED
      BY <1>1, <1>3, <1>4, <2>1 DEF ToDelete
  <1>11. Covered(m)'
    <2>1. \A r \in Present : \/ \E i \in Wanted : m[i] = r
                             \/ r \in Elements(plan.delete)
                             \/ listener'[r].prio \in Wanted /\ m[listener'[r].prio] = None
      BY <1>4
    <2>2. ASSUME NEW i \in Wanted, m[i] = None, plan.modify[i] = None, i \notin Elements(plan.create)
          PROVE  \E r \in Present : listener'[r].prio = i /\ listener'[r].set = desired[i]
                                    /\ \A j \in Wanted : m[j] # r
      <3>1. PICK r \in Present : listener[r].prio = i /\ listener[r].set = desired[i] /\ \A j \in Wanted : m[j] # r
        BY <1>2, <2>2 DEF Planned, Covered
      <3>2. r \notin Elements(plan.delete)
        BY <1>2, <2>2, <3>1 DEF Planned, ToDelete
      <3> QED
        BY <1>3, <1>4, <3>1, <3>2
    <2> QED
      BY <1>1, <1>3, <2>1, <2>2 DEF Covered
  <1>12. Counted'
    BY <1>1, <1>3, <1>t DEF Inv, Counted
  <1>13. Planned(m)' /\ m \in [Wanted' -> Rules \cup {None}]
    BY <1>1, <1>2, <1>6, <1>7, <1>8, <1>9, <1>10, <1>11 DEF Planned
  <1> QED
    BY <1>3, <1>5, <1>12, <1>13 DEF Inv

\* A rule modified in place keeps its priority.
LEMMA ModifiedListener ==
    ASSUME ConstantsAssumption, Inv, pc = "modify", NEW m, Planned(m), NEW i \in modifying(plan),
           listener' = modified(i)
    PROVE  /\ i \in Wanted /\ plan.modify[i] \in Present
           /\ listener' \in [Rules -> Attached \cup {None}] /\ Present' = Present
           /\ \A r \in Present : /\ listener'[r].prio = listener[r].prio
                                 /\ listener'[r].set = IF r = plan.modify[i] THEN desired[i] ELSE listener[r].set
           /\ UniquePriorities'
  <1> DEFINE x == plan.modify[i]
  <1>t. TypeOK /\ Present \subseteq Rules
    BY PresentRules DEF Inv
  <1>1. i \in Wanted /\ x \in Present /\ desired[i] \in Settings
    BY <1>t, Running DEF Planned, ToModify, modifying
  <1>2. listener[x] \in Attached
    BY <1>t, <1>1, PresentRules
  <1>3. listener' = [listener EXCEPT ![x] = [listener[x] EXCEPT !.set = desired[i]]]
    BY <1>t, <1>1 DEF modified, TypeOK
  <1>4. /\ [listener[x] EXCEPT !.set = desired[i]] \in Attached /\ [listener[x] EXCEPT !.set = desired[i]] # None
        /\ [listener[x] EXCEPT !.set = desired[i]].set = desired[i]
        /\ [listener[x] EXCEPT !.set = desired[i]].prio = listener[x].prio
    BY <1>1, <1>2, AttachedRule
  <1> HIDE DEF x
  <1>5. listener' \in [Rules -> Attached \cup {None}]
    BY <1>1, <1>3, <1>4, <1>t DEF TypeOK
  <1>6. \A r \in Rules : r # x => listener'[r] = listener[r]
    BY <1>3, <1>t DEF TypeOK
  <1>7. listener'[x] = [listener[x] EXCEPT !.set = desired[i]]
    BY <1>1, <1>3, <1>t DEF TypeOK
  <1>8. Present' = Present
    BY <1>1, <1>4, <1>6, <1>7 DEF Present
  <1>9. \A r \in Present : /\ listener'[r].prio = listener[r].prio
                           /\ listener'[r].set = IF r = x THEN desired[i] ELSE listener[r].set
    BY <1>4, <1>6, <1>7, <1>t
  <1>10. UniquePriorities'
    BY <1>8, <1>9 DEF Inv, UniquePriorities
  <1> QED
    BY <1>1, <1>5, <1>8, <1>9, <1>10 DEF x

LEMMA UpdateRulesStep ==
    ASSUME ConstantsAssumption, Inv, NEW i, UpdateRules(i)
    PROVE  Inv'
  <1>1. /\ pc = "modify" /\ pc' = pc /\ i \in modifying(plan) /\ listener' = modified(i)
        /\ plan' = [plan EXCEPT !.modify[i] = None]
        /\ UNCHANGED <<desired, count, maxRules>> /\ Wanted' = Wanted
    BY DEF UpdateRules, Wanted
  <1>2. PICK m \in [Wanted -> Rules \cup {None}] : Planned(m)
    BY <1>1 DEF Inv
  <1> DEFINE x == plan.modify[i]
  <1>3. /\ i \in Wanted /\ x \in Present
        /\ listener' \in [Rules -> Attached \cup {None}] /\ Present' = Present
        /\ \A r \in Present : /\ listener'[r].prio = listener[r].prio
                              /\ listener'[r].set = IF r = x THEN desired[i] ELSE listener[r].set
        /\ UniquePriorities'
    BY <1>1, <1>2, ModifiedListener
  <1>t. TypeOK /\ pc # "idle"
    BY <1>1 DEF Inv
  <1>4. /\ plan'.modify = [plan.modify EXCEPT ![i] = None]
        /\ plan'.old = plan.old /\ plan'.move = plan.move /\ plan'.create = plan.create
        /\ plan'.delete = plan.delete /\ DOMAIN plan' = DOMAIN plan
    BY <1>1, <1>t DEF TypeOK
  <1>5. /\ plan'.modify \in [Wanted -> Rules \cup {None}] /\ plan'.modify[i] = None
        /\ \A j \in Wanted : j # i => plan'.modify[j] = plan.modify[j]
    BY <1>3, <1>4, <1>t DEF TypeOK
  <1>6. TypeOK'
    BY <1>1, <1>3, <1>4, <1>5, <1>t DEF TypeOK
  <1>7. /\ m[i] = None /\ \A j \in Wanted : m[j] # x
        /\ listener[x].prio = i
    BY <1>1, <1>2 DEF Planned, ToModify
  <1> HIDE DEF x
  <1>8. Matched(m)'
    BY <1>1, <1>2, <1>4 DEF Planned, Matched
  <1>9. Kept(m)'
    BY <1>1, <1>2, <1>3, <1>4, <1>7 DEF Planned, Kept
  <1>10. ToModify(m)'
    <2>1. modifying(plan') \subseteq modifying(plan)
          /\ \A j \in modifying(plan') : plan'.modify[j] = plan.modify[j]
      BY <1>4, <1>5, <1>t DEF modifying, TypeOK
    <2> QED
      BY <1>1, <1>2, <1>3, <1>4, <2>1 DEF Planned, ToModify
  <1>11. ToCreate(m)'
    <2>1. Elements(plan.create) \subseteq Wanted
      BY <1>t, Running
    <2>2. \A j \in Elements(plan.create) : plan'.modify[j] = None
      BY <1>2, <1>5, <2>1 DEF Planned, ToCreate
    <2> QED
      BY <1>1, <1>2, <1>3, <1>4, <2>2 DEF Planned, ToCreate
  <1>12. ToDelete(m)'
    BY <1>1, <1>2, <1>3, <1>4 DEF Planned, ToDelete
  <1>13. Covered(m)'
    <2>1. \A r \in Present : \/ \E j \in Wanted : m[j] = r
                             \/ r \in Elements(plan.delete)
                             \/ listener'[r].prio \in Wanted /\ m[listener'[r].prio] = None
      BY <1>2, <1>3 DEF Planned, Covered
    <2>2. ASSUME NEW j \in Wanted, m[j] = None, plan'.modify[j] = None, j \notin Elements(plan.create)
          PROVE  \E r \in Present : listener'[r].prio = j /\ listener'[r].set = desired[j]
                                    /\ \A k \in Wanted : m[k] # r
      <3>1. CASE j = i
        BY <1>3, <1>7, <3>1
      <3>2. CASE j # i
        <4>1. PICK r \in Present : listener[r].prio = j /\ listener[r].set = desired[j] /\ \A k \in Wanted : m[k] # r
          BY <1>2, <1>5, <2>2, <3>2 DEF Planned, Covered
        <4>2. r # x
          BY <1>7, <3>2, <4>1
        <4> QED
          BY <1>3, <4>1, <4>2
      <3> QED
        BY <3>1, <3>2
    <2> QED
      BY <1>1, <1>3, <1>4, <2>1, <2>2 DEF Covered
  <1>14. Counted'
    BY <1>1, <1>3, <1>t DEF Inv, Counted
  <1>15. Planned(m)' /\ m \in [Wanted' -> Rules \cup {None}]
    BY <1>1, <1>2, <1>8, <1>9, <1>10, <1>11, <1>12, <1>13 DEF Planned
  <1> QED
    BY <1>3, <1>6, <1>14, <1>15 DEF Inv

\* A rule is created at a priority that is free.
LEMMA CreatedListener ==
    ASSUME ConstantsAssumption, Inv, toCreate, NEW m, Planned(m), NEW x \in Free, listener' = created(x)
    PROVE  /\ Head(plan.create) \in Elements(plan.create) /\ Head(plan.create) \in Wanted
           /\ listener' \in [Rules -> Attached \cup {None}] /\ Present' = Present \cup {x}
           /\ \A r \in Present : listener'[r] = listener[r] /\ listener[r].prio # Head(plan.create)
           /\ listener'[x] = [set |-> desired[Head(plan.create)], prio |-> Head(plan.create)]
           /\ UniquePriorities'
  <1> DEFINE i == Head(plan.create)
             new == [set |-> desired[i], prio |-> i]
  <1>t. TypeOK /\ Present \subseteq Rules /\ pc = "cycle" /\ plan.create # <<>> /\ x \in Rules /\ x \notin Present
    BY PresentRules DEF Inv, toCreate, Free
  <1>1. i \in Elements(plan.create) /\ i \in Wanted
    BY <1>t, Running, HeadAndTail
  <1>2. desired[i] \in Settings /\ i \in 1 .. Last
    BY <1>t, <1>1, Running
  <1> HIDE DEF i
  <1>3. new \in Attached /\ new # None /\ new.prio = i
    <2>1. new \in Attached
      BY <1>2 DEF Attached
    <2> QED
      BY <2>1 DEF Attached, ConstantsAssumption
  <1>4. listener' = [listener EXCEPT ![x] = new]
    BY DEF created, i
  <1> HIDE DEF new
  <1>5. /\ listener' \in [Rules -> Attached \cup {None}] /\ listener'[x] = new
        /\ \A r \in Rules : r # x => listener'[r] = listener[r]
    BY <1>3, <1>4, <1>t DEF TypeOK
  <1>6. Present' = Present \cup {x} /\ \A r \in Present : listener'[r] = listener[r]
    BY <1>3, <1>5, <1>t DEF Present
  <1>7. \A r \in Present : listener[r].prio # i
    BY <1>1, <1>t DEF Planned, ToCreate
  <1>8. UniquePriorities'
    BY <1>3, <1>5, <1>6, <1>7 DEF Inv, UniquePriorities
  <1> QED
    BY <1>1, <1>5, <1>6, <1>7, <1>8 DEF i, new

LEMMA CreateRuleStep ==
    ASSUME ConstantsAssumption, Inv, NEW x \in Rules, CreateRule(x)
    PROVE  Inv'
  <1>1. /\ toCreate /\ x \in Free /\ pc = "cycle" /\ pc' = pc /\ listener' = created(x)
        /\ plan' = [plan EXCEPT !.create = Tail(plan.create)] /\ plan.create # <<>>
        /\ count' = count + 1 /\ UNCHANGED <<desired, maxRules>> /\ Wanted' = Wanted
    BY DEF CreateRule, Wanted, toCreate
  <1>2. PICK m \in [Wanted -> Rules \cup {None}] : Planned(m)
    BY <1>1 DEF Inv
  <1> DEFINE i == Head(plan.create)
  <1>3. /\ i \in Elements(plan.create) /\ i \in Wanted
        /\ listener' \in [Rules -> Attached \cup {None}] /\ Present' = Present \cup {x}
        /\ \A r \in Present : listener'[r] = listener[r] /\ listener[r].prio # i
        /\ listener'[x].set = desired[i] /\ listener'[x].prio = i
        /\ UniquePriorities'
    BY <1>1, <1>2, CreatedListener
  <1>t. TypeOK /\ pc # "idle" /\ x \notin Present /\ x # None
    BY <1>1, Running DEF Inv, Free
  <1>4. /\ plan'.create = Tail(plan.create)
        /\ plan'.old = plan.old /\ plan'.move = plan.move /\ plan'.modify = plan.modify
        /\ plan'.delete = plan.delete /\ DOMAIN plan' = DOMAIN plan
    BY <1>1, <1>t DEF TypeOK
  <1>5. /\ plan'.create \in Seq(Wanted)
        /\ Elements(plan.create) = {i} \cup Elements(plan'.create)
        /\ ~Repeats(plan'.create) /\ i \notin Elements(plan'.create)
    <2>1. plan.create \in Seq(Wanted) /\ ~Repeats(plan.create)
      BY <1>2, <1>t, Running DEF Planned, ToCreate
    <2> QED
      BY <1>1, <1>4, <2>1, HeadAndTail
  <1> HIDE DEF i
  <1>6. TypeOK'
    BY <1>1, <1>3, <1>4, <1>5, <1>t DEF TypeOK
  <1>7. m[i] = None /\ plan.modify[i] = None /\ \A j \in Wanted : m[j] # x
    BY <1>2, <1>3, <1>t DEF Planned, ToCreate, Kept
  <1>8. Matched(m)'
    BY <1>1, <1>2, <1>4 DEF Planned, Matched
  <1>9. Kept(m)'
    BY <1>1, <1>2, <1>3, <1>4 DEF Planned, Kept
  <1>10. ToModify(m)'
    BY <1>1, <1>2, <1>4 DEF Planned, ToModify, modifying
  <1>11. ToCreate(m)'
    BY <1>1, <1>2, <1>3, <1>4, <1>5 DEF Planned, ToCreate
  <1>12. ToDelete(m)'
    BY <1>1, <1>2, <1>3, <1>4, <1>t DEF Planned, ToDelete
  <1>13. Covered(m)'
    <2>1. \A r \in Present' : \/ \E j \in Wanted : m[j] = r
                              \/ r \in Elements(plan.delete)
                              \/ listener'[r].prio \in Wanted /\ m[listener'[r].prio] = None
      BY SMTT(40), <1>2, <1>3, <1>7 DEF Planned, Covered
    <2>2. ASSUME NEW j \in Wanted, m[j] = None, plan.modify[j] = None, j \notin Elements(plan'.create)
          PROVE  \E r \in Present' : listener'[r].prio = j /\ listener'[r].set = desired[j]
                                     /\ \A k \in Wanted : m[k] # r
      <3>1. CASE j = i
        BY <1>3, <1>7, <3>1
      <3>2. CASE j # i
        <4>1. PICK r \in Present : listener[r].prio = j /\ listener[r].set = desired[j] /\ \A k \in Wanted : m[k] # r
          BY <1>2, <1>5, <2>2, <3>2 DEF Planned, Covered
        <4> QED
          BY <1>3, <4>1
      <3> QED
        BY <3>1, <3>2
    <2> QED
      BY <1>1, <1>4, <2>1, <2>2 DEF Covered
  <1>14. Counted'
    <2>1. IsFiniteSet(Present) /\ Cardinality(Present) \in Nat
      BY <1>t, PresentRules
    <2>2. Cardinality(Present \cup {x}) = Cardinality(Present) + 1
      BY <1>t, <2>1, FS_AddElement
    <2> QED
      BY <1>1, <1>3, <1>t, <2>2 DEF Inv, Counted
  <1>15. Planned(m)' /\ m \in [Wanted' -> Rules \cup {None}]
    BY <1>1, <1>2, <1>8, <1>9, <1>10, <1>11, <1>12, <1>13 DEF Planned
  <1> QED
    BY <1>3, <1>6, <1>14, <1>15 DEF Inv

LEMMA DeletedListener ==
    ASSUME ConstantsAssumption, Inv, toDelete, NEW m, Planned(m), listener' = deleted
    PROVE  /\ Head(plan.delete) \in Elements(plan.delete) /\ Head(plan.delete) \in Present
           /\ listener' \in [Rules -> Attached \cup {None}] /\ Present' = Present \ {Head(plan.delete)}
           /\ \A r \in Present' : listener'[r] = listener[r]
           /\ UniquePriorities'
  <1> DEFINE x == Head(plan.delete)
  <1>t. TypeOK /\ Present \subseteq Rules /\ pc = "cycle" /\ plan.delete # <<>>
    BY PresentRules DEF Inv, toDelete
  <1>1. x \in Elements(plan.delete)
    BY <1>t, Running, HeadAndTail
  <1>2. x \in Present
    BY <1>1 DEF Planned, ToDelete
  <1>3. listener' = [listener EXCEPT ![x] = None]
    BY DEF deleted
  <1> HIDE DEF x
  <1>4. /\ listener' \in [Rules -> Attached \cup {None}] /\ listener'[x] = None
        /\ \A r \in Rules : r # x => listener'[r] = listener[r]
    BY <1>2, <1>3, <1>t DEF TypeOK
  <1>5. Present' = Present \ {x} /\ \A r \in Present' : listener'[r] = listener[r]
    BY <1>4, <1>t DEF Present
  <1>6. UniquePriorities'
    BY <1>5 DEF Inv, UniquePriorities
  <1> QED
    BY <1>1, <1>2, <1>4, <1>5, <1>6 DEF x

LEMMA DeleteRuleStep ==
    ASSUME ConstantsAssumption, Inv, DeleteRule
    PROVE  Inv'
  <1>1. /\ toDelete /\ pc = "cycle" /\ pc' = pc /\ listener' = deleted
        /\ plan' = [plan EXCEPT !.delete = Tail(plan.delete)] /\ plan.delete # <<>>
        /\ count' = count - 1 /\ UNCHANGED <<desired, maxRules>> /\ Wanted' = Wanted
    BY DEF DeleteRule, Wanted, toDelete
  <1>2. PICK m \in [Wanted -> Rules \cup {None}] : Planned(m)
    BY <1>1 DEF Inv
  <1> DEFINE x == Head(plan.delete)
  <1>3. /\ x \in Elements(plan.delete) /\ x \in Present
        /\ listener' \in [Rules -> Attached \cup {None}] /\ Present' = Present \ {x}
        /\ \A r \in Present' : listener'[r] = listener[r]
        /\ UniquePriorities'
    BY <1>1, <1>2, DeletedListener
  <1>t. TypeOK /\ pc # "idle"
    BY <1>1 DEF Inv
  <1>4. /\ plan'.delete = Tail(plan.delete)
        /\ plan'.old = plan.old /\ plan'.move = plan.move /\ plan'.modify = plan.modify
        /\ plan'.create = plan.create /\ DOMAIN plan' = DOMAIN plan
    BY <1>1, <1>t DEF TypeOK
  <1>5. /\ plan'.delete \in Seq(Rules) /\ Len(plan'.delete) <= Cardinality(Rules)
        /\ Elements(plan.delete) = {x} \cup Elements(plan'.delete)
        /\ ~Repeats(plan'.delete) /\ x \notin Elements(plan'.delete)
    <2>1. plan.delete \in Seq(Rules) /\ ~Repeats(plan.delete) /\ Len(plan.delete) <= Cardinality(Rules)
      BY <1>2, <1>t, Running DEF Planned, ToDelete
    <2>2. /\ plan'.delete \in Seq(Rules) /\ Len(plan'.delete) <= Len(plan.delete)
          /\ Elements(plan.delete) = {x} \cup Elements(plan'.delete)
          /\ ~Repeats(plan'.delete) /\ x \notin Elements(plan'.delete)
      BY <1>1, <1>4, <2>1, HeadAndTail
    <2>3. Len(plan.delete) \in Nat /\ Len(plan'.delete) \in Nat /\ Cardinality(Rules) \in Nat
      BY SMTT(40), <2>1, <2>2, FS_CardinalityType DEF ConstantsAssumption
    <2> QED
      BY <2>1, <2>2, <2>3
  <1> HIDE DEF x
  <1>6. TypeOK'
    BY <1>1, <1>3, <1>4, <1>5, <1>t DEF TypeOK
  <1>7. /\ \A j \in Wanted : m[j] # None => m[j] # x
        /\ listener[x].prio \in Wanted => m[listener[x].prio] # None
    BY <1>2, <1>3 DEF Planned, Kept, ToDelete
  <1>8. Matched(m)'
    BY <1>1, <1>2, <1>4 DEF Planned, Matched
  <1>9. Kept(m)'
    BY <1>1, <1>2, <1>3, <1>4, <1>5, <1>7 DEF Planned, Kept
  <1>10. ToModify(m)'
    BY <1>1, <1>2, <1>4 DEF Planned, ToModify, modifying
  <1>11. ToCreate(m)'
    BY <1>1, <1>2, <1>3, <1>4 DEF Planned, ToCreate
  <1>12. ToDelete(m)'
    BY <1>1, <1>2, <1>3, <1>4, <1>5 DEF Planned, ToDelete
  <1>13. Covered(m)'
    <2>1. \A r \in Present' : \/ \E j \in Wanted : m[j] = r
                              \/ r \in Elements(plan'.delete)
                              \/ listener'[r].prio \in Wanted /\ m[listener'[r].prio] = None
      BY <1>2, <1>3, <1>5 DEF Planned, Covered
    <2>2. ASSUME NEW j \in Wanted, m[j] = None, plan.modify[j] = None, j \notin Elements(plan.create)
          PROVE  \E r \in Present' : listener'[r].prio = j /\ listener'[r].set = desired[j]
                                     /\ \A k \in Wanted : m[k] # r
      <3>1. PICK r \in Present : listener[r].prio = j /\ listener[r].set = desired[j] /\ \A k \in Wanted : m[k] # r
        BY <1>2, <2>2 DEF Planned, Covered
      <3>2. r # x
        BY <1>7, <2>2, <3>1
      <3> QED
        BY <1>3, <3>1, <3>2
    <2> QED
      BY <1>1, <1>4, <2>1, <2>2 DEF Covered
  <1>14. Counted'
    <2>1. IsFiniteSet(Present) /\ Cardinality(Present) \in Nat
      BY <1>t, PresentRules
    <2>2. Cardinality(Present \ {x}) = Cardinality(Present) - 1
      BY <1>3, <2>1, FS_RemoveElement
    <2> QED
      BY <1>1, <1>3, <1>t, <2>2 DEF Inv, Counted
  <1>15. Planned(m)' /\ m \in [Wanted' -> Rules \cup {None}]
    BY <1>1, <1>2, <1>8, <1>9, <1>10, <1>11, <1>12, <1>13 DEF Planned
  <1> QED
    BY <1>3, <1>6, <1>14, <1>15 DEF Inv

-----------------------------------------------------------------------------
(***************************************************************************)
(* The other steps.                                                        *)
(***************************************************************************)
\* The run goes on to its next stage, or learns how many rules there may be.
LEMMA NextStage ==
    ASSUME ConstantsAssumption, Inv, ModifiedAll \/ CycleDone \/ createTooMany
    PROVE  Inv'
  <1>1. /\ pc \in {"modify", "cycle"} /\ pc' \in {"cycle", "tags"}
        /\ UNCHANGED <<listener, desired, plan, count>>
        /\ pc' = "tags" => plan.create = <<>> /\ plan.delete = <<>> /\ pc = "cycle"
        /\ pc' = "cycle" /\ pc = "modify" => modifying(plan) = {}
    BY DEF ModifiedAll, CycleDone, createTooMany, toCreate
  <1>2. Wanted' = Wanted /\ Present' = Present
    BY <1>1 DEF Wanted, Present
  <1>3. PICK m \in [Wanted -> Rules \cup {None}] : Planned(m)
    BY <1>1 DEF Inv
  <1>4. TypeOK' /\ UniquePriorities'
    BY <1>1, <1>2 DEF Inv, TypeOK, UniquePriorities, Stages
  <1>5. Matched(m)' /\ Covered(m)'
    BY <1>1, <1>2, <1>3 DEF Planned, Matched, Covered
  <1>6. Kept(m)'
    BY <1>1, <1>2, <1>3 DEF Planned, Kept
  <1>7. ToModify(m)'
    BY <1>1, <1>2, <1>3 DEF Planned, ToModify, modifying
  <1>8. ToCreate(m)'
    BY <1>1, <1>2, <1>3 DEF Planned, ToCreate
  <1>9. ToDelete(m)'
    BY <1>1, <1>2, <1>3 DEF Planned, ToDelete
  <1>10. Counted'
    <2>1. Counted
      BY <1>1 DEF Inv
    <2>2. CASE createTooMany
      <3>1. Present = Rules
        BY <2>2 DEF createTooMany, Free, Present
      <3> QED
        BY <1>1, <1>2, <2>1, <2>2, <3>1 DEF Counted, createTooMany
    <2>3. CASE ModifiedAll \/ CycleDone
      BY <1>1, <1>2, <2>1, <2>3 DEF Counted, ModifiedAll, CycleDone
    <2> QED
      BY <2>2, <2>3
  <1>11. Planned(m)' /\ m \in [Wanted' -> Rules \cup {None}]
    BY <1>2, <1>3, <1>5, <1>6, <1>7, <1>8, <1>9 DEF Planned
  <1> QED
    BY <1>4, <1>10, <1>11 DEF Inv

\* A run ends, or fails.
LEMMA RunEnds ==
    ASSUME ConstantsAssumption, Inv, createRefused \/ UpdateRulesTags \/ Abort
    PROVE  Inv'
  <1>1. pc' = "idle"
    BY DEF createRefused, UpdateRulesTags, Abort
  <1>2. SUFFICES listener' \in [Rules -> Attached \cup {None}] /\ UniquePriorities'
    BY <1>1 DEF Inv, TypeOK, Stages
  <1>3. CASE UNCHANGED listener
    BY <1>3 DEF Inv, TypeOK, UniquePriorities, Present
  <1>4. CASE Abort /\ ~UNCHANGED listener
    <2>1. pc # "idle"
      BY <1>4 DEF Abort
    <2>2. PICK m \in [Wanted -> Rules \cup {None}] : Planned(m)
      BY <2>1 DEF Inv
    <2>3. CASE pc = "move" /\ listener' = prioritized
      BY <2>2, <2>3, PrioritizedListener
    <2>4. CASE \E i \in modifying(plan) : pc = "modify" /\ listener' = modified(i)
      BY <2>2, <2>4, ModifiedListener
    <2>5. CASE \E r \in Free : toCreate /\ listener' = created(r)
      BY <2>2, <2>5, CreatedListener
    <2>6. CASE toDelete /\ listener' = deleted
      BY <2>2, <2>6, DeletedListener
    <2> QED
      BY <1>4, <2>3, <2>4, <2>5, <2>6 DEF Abort
  <1> QED
    BY <1>3, <1>4 DEF createRefused, UpdateRulesTags

LEMMA InvInit ==
    ASSUME ConstantsAssumption, Init
    PROVE  Inv
  <1>1. listener = [r \in Rules |-> None] /\ pc = "idle"
    BY DEF Init
  <1>2. Present = {}
    BY <1>1 DEF Present
  <1> QED
    BY <1>1, <1>2 DEF Inv, TypeOK, UniquePriorities, Stages

LEMMA InvNext ==
    ASSUME ConstantsAssumption, Inv, [Next]_vars
    PROVE  Inv'
  <1>1. CASE \E d \in Configs : Start(d)
    BY <1>1, StartPlans
  <1>2. CASE Synthesize
    BY <1>2, SetRulePrioritiesStep, UpdateRulesStep, CreateRuleStep, DeleteRuleStep, NextStage, RunEnds
       DEF Synthesize
  <1>3. CASE Abort
    BY <1>3, RunEnds
  <1>4. CASE UNCHANGED vars
    <2>1. UNCHANGED <<listener, desired, pc, plan, count, maxRules>> /\ Wanted' = Wanted /\ Present' = Present
      BY <1>4 DEF vars, Wanted, Present
    <2>2. TypeOK' /\ UniquePriorities' /\ (Counted => Counted')
      BY <2>1 DEF Inv, TypeOK, UniquePriorities, Counted
    <2>3. ASSUME NEW m, Planned(m)
          PROVE  Planned(m)'
      <3>1. Matched(m)' /\ Kept(m)'
        BY <2>1, <2>3 DEF Planned, Matched, Kept
      <3>2. ToModify(m)'
        BY <2>1, <2>3 DEF Planned, ToModify, modifying
      <3>3. ToCreate(m)' /\ ToDelete(m)'
        BY <2>1, <2>3 DEF Planned, ToCreate, ToDelete
      <3>4. Covered(m)'
        BY <2>1, <2>3 DEF Planned, Covered
      <3> QED
        BY <3>1, <3>2, <3>3, <3>4 DEF Planned
    <2> QED
      BY <2>1, <2>2, <2>3 DEF Inv
  <1> QED
    BY <1>1, <1>2, <1>3, <1>4 DEF Next

-----------------------------------------------------------------------------
(***************************************************************************)
(* The properties.                                                         *)
(***************************************************************************)
\* Whatever the configurations, whichever runs fail and wherever they stop, a run goes
\* on with a plan that fits the listener as it is by now: every rule is matched and kept,
\* or to be modified, or to be deleted, and every rule to be created has its priority
\* free (synthesizeListenerRulesOnListener).
THEOREM Invariance ==
    ASSUME ConstantsAssumption
    PROVE  Spec => []Inv
  <1>1. Init => Inv
    BY InvInit
  <1>2. Inv /\ [Next]_vars => Inv'
    BY InvNext
  <1> QED
    BY <1>1, <1>2, PTL DEF Spec

\* No call of the synthesizer ever gives two rules of the listener the same priority,
\* which ELB would refuse: neither when rules swap places (setRulePriorities) nor when
\* one is created while others wait to be deleted (createAndDeleteRules).
THEOREM PrioritiesNeverClash ==
    ASSUME ConstantsAssumption
    PROVE  Spec => []UniquePriorities
  <1>1. Inv => UniquePriorities
    BY DEF Inv
  <1> QED
    BY <1>1, Invariance, PTL

\* When nothing is left to be deleted, every rule is at a priority that is wanted.
LEMMA AtWantedPriorities ==
    ASSUME ConstantsAssumption, Inv, pc \in {"cycle", "tags"}, plan.delete = <<>>
    PROVE  \A r \in Present : listener[r].prio \in Wanted
  <1>1. PICK m \in [Wanted -> Rules \cup {None}] : Planned(m)
    BY DEF Inv
  <1>2. Elements(plan.delete) = {}
    BY DEF Elements
  <1> SUFFICES ASSUME NEW r \in Present
               PROVE  listener[r].prio \in Wanted
    OBVIOUS
  <1>3. r # None
    BY Running, PresentRules DEF Inv
  <1>4. CASE \E i \in Wanted : m[i] = r
    BY SMTT(40), <1>1, <1>3, <1>4 DEF Planned, Kept
  <1>5. CASE ~\E i \in Wanted : m[i] = r
    BY <1>1, <1>2, <1>5 DEF Planned, Covered
  <1> QED
    BY <1>4, <1>5

\* A run that gets as far as the tags has made the listener exactly what is wanted,
\* each rule at its priority and no other rule left (createAndDeleteRules returned).
THEOREM RunsConverge ==
    ASSUME ConstantsAssumption
    PROVE  Spec => []Converged
  <1>1. ASSUME Inv, pc = "tags"
        PROVE  /\ Cardinality(Present) = Len(desired)
               /\ \A i \in DOMAIN desired :
                    \E r \in Present : listener[r] = [set |-> desired[i], prio |-> i]
    <2>1. PICK m \in [Wanted -> Rules \cup {None}] : Planned(m)
      BY <1>1 DEF Inv
    <2>2. plan.create = <<>> /\ plan.delete = <<>> /\ modifying(plan) = {}
      BY <1>1, <2>1 DEF Planned, ToModify, ToCreate, ToDelete
    <2>3. Elements(plan.create) = {} /\ \A i \in Wanted : plan.modify[i] = None
      BY <1>1, <2>2, Running DEF Inv, Elements, modifying
    <2>4. ASSUME NEW i \in Wanted
          PROVE  \E r \in Present : listener[r] = [set |-> desired[i], prio |-> i]
      <3>1. PICK r \in Present : listener[r].set = desired[i] /\ listener[r].prio = i
        <4>1. CASE m[i] # None
          BY <1>1, <2>1, <4>1 DEF Planned, Kept
        <4>2. CASE m[i] = None
          BY <2>1, <2>3, <4>2 DEF Planned, Covered
        <4> QED
          BY <4>1, <4>2
      <3>2. listener[r] \in Attached
        BY <1>1, PresentRules DEF Inv
      <3> QED
        BY <3>1, <3>2, AttachedRule
    <2> DEFINE f == [r \in Present |-> listener[r].prio]
    <2>5. f \in [Present -> Wanted]
      BY <1>1, <2>2, AtWantedPriorities
    <2>6. f \in Injection(Present, Wanted)
      BY <1>1, <2>5 DEF Inv, UniquePriorities, Injection, IsInjective
    <2>7. f \in Surjection(Present, Wanted)
      <3>1. ASSUME NEW i \in Wanted
            PROVE  \E r \in Present : f[r] = i
        <4>1. PICK r \in Present : listener[r] = [set |-> desired[i], prio |-> i]
          BY <2>4
        <4> QED
          BY <4>1
      <3> QED
        BY <2>5, <3>1 DEF Surjection
    <2>8. IsFiniteSet(Wanted) /\ Cardinality(Wanted) = Len(desired)
      BY <1>1, Running, Configuration DEF Inv, Wanted
    <2>9. Cardinality(Present) = Cardinality(Wanted)
      <3> HIDE DEF f
      <3> QED
        BY <2>6, <2>7, <2>8, FS_Injection
    <2> QED
      BY <2>4, <2>8, <2>9 DEF Wanted
  <1>2. Inv => Converged
    BY <1>1 DEF Converged
  <1> QED
    BY <1>2, Invariance, PTL

\* A run gives up for want of room (TooManyRules, in createAndDeleteRules) only when
\* more rules are wanted than a listener may have: deleting first always makes room
\* otherwise, whatever rules earlier runs have left.
THEOREM RefusedOnlyForWantOfRoom ==
    ASSUME ConstantsAssumption
    PROVE  Spec => []RefusedOnlyIfTooMany
  <1>1. ASSUME Inv, tooManyAttached
        PROVE  Len(desired) > Cardinality(Rules)
    <2>1. /\ pc = "cycle" /\ plan.create # <<>> /\ TypeOK /\ Counted
          /\ (toCreate /\ Free = {} /\ maxRules # -1) \/ (~toCreate /\ plan.delete = <<>>)
      BY <1>1 DEF tooManyAttached, Inv
    <2>2. Cardinality(Present) \in Nat /\ Cardinality(Rules) \in Nat /\ count = Cardinality(Present)
      BY <2>1, PresentRules, FS_CardinalityType DEF Counted, ConstantsAssumption
    <2>3. ~toCreate /\ plan.delete = <<>> /\ count = maxRules
      <3>1. ASSUME toCreate, Free = {}, maxRules # -1
            PROVE  FALSE
        <4>1. Present = Rules
          BY <3>1 DEF Free, Present
        <4>2. count # maxRules /\ maxRules = Cardinality(Rules)
          BY <2>1, <3>1 DEF toCreate, Counted
        <4> QED
          BY <2>2, <4>1, <4>2
      <3> QED
        BY <2>1, <3>1 DEF toCreate
    <2>4. Cardinality(Present) = Cardinality(Rules)
      BY <2>1, <2>2, <2>3 DEF Counted
    <2> DEFINE i == Head(plan.create)
               f == [r \in Present |-> listener[r].prio]
    <2>5. i \in Elements(plan.create) /\ i \in Wanted
      BY SMTT(40), <2>1, Running, HeadAndTail
    <2>6. \A r \in Present : listener[r].prio \in Wanted /\ listener[r].prio # i
      <3>1. PICK m \in [Wanted -> Rules \cup {None}] : Planned(m)
        BY <1>1, <2>1 DEF Inv
      <3>2. \A r \in Present : listener[r].prio # i
        BY <2>1, <2>5, <3>1 DEF Planned, ToCreate
      <3> QED
        BY <1>1, <2>1, <2>3, <3>2, AtWantedPriorities
    <2> HIDE DEF i
    <2>7. f \in Injection(Present, Wanted \ {i})
      BY <1>1, <2>6 DEF Inv, UniquePriorities, Injection, IsInjective
    <2>8. IsFiniteSet(Wanted) /\ Cardinality(Wanted) = Len(desired) /\ Len(desired) \in Nat
      BY <2>1, Running, Configuration DEF Wanted
    <2>9. IsFiniteSet(Wanted \ {i}) /\ Cardinality(Wanted \ {i}) = Len(desired) - 1
      BY <2>5, <2>8, FS_RemoveElement
    <2> HIDE DEF f
    <2>10. Cardinality(Present) <= Cardinality(Wanted \ {i})
      BY <2>7, <2>9, FS_Injection
    <2> QED
      BY <2>2, <2>4, <2>8, <2>9, <2>10
  <1>2. Inv => RefusedOnlyIfTooMany
    BY <1>1 DEF RefusedOnlyIfTooMany
  <1> QED
    BY <1>2, Invariance, PTL

\* A rule that is on the listener when a run starts and stays wanted is there in every
\* state of the run: as many copies of its settings as there were, or as are wanted, if
\* that is less (matchResAndSDKListenerRules, by settings first).
THEOREM WantedRulesServe ==
    ASSUME ConstantsAssumption
    PROVE  Spec => []WantedRulesStay
  <1>1. ASSUME Inv, pc # "idle", NEW s
        PROVE  copies(listener, s) >= Least(copies(plan.old, s), wanted(s))
    <2>1. PICK m \in [Wanted -> Rules \cup {None}] : Planned(m)
      BY <1>1 DEF Inv
    <2> DEFINE now == {r \in Rules : listener[r] # None /\ listener[r].set = s}
               was == {r \in Rules : plan.old[r] # None /\ plan.old[r].set = s}
               want == {i \in Wanted : desired[i] = s}
    <2>t. TypeOK /\ \A r \in Rules : r # None
      BY <1>1, Running DEF Inv
    <2>2. IsFiniteSet(now) /\ IsFiniteSet(was)
      BY FS_Subset DEF ConstantsAssumption
    <2>3. IsFiniteSet(want)
      <3>1. IsFiniteSet(Wanted)
        BY <1>1, <2>t, Running, Configuration DEF Wanted
      <3> QED
        BY <3>1, FS_Subset
    <2>4. Cardinality(now) \in Nat /\ Cardinality(was) \in Nat /\ Cardinality(want) \in Nat
      <3> HIDE DEF now, was, want
      <3> QED
        BY <2>2, <2>3, FS_CardinalityType
    <2>5. copies(listener, s) = Cardinality(now) /\ copies(plan.old, s) = Cardinality(was)
          /\ wanted(s) = Cardinality(want)
      BY DEF copies, wanted, Wanted
    <2>6. \A i \in want : m[i] # None => m[i] \in now
      BY <2>1 DEF Planned, Kept, Present
    <2>7. CASE \E i \in want : m[i] = None
      <3>1. ASSUME NEW r \in was
            PROVE  r \in now
        <4>1. PICK i \in want : m[i] = None
          BY <2>7
        <4>2. PICK j \in Wanted : m[j] = r
          BY <2>1, <3>1, <4>1 DEF Planned, Matched
        <4>3. m[j] # None
          BY <2>t, <4>2
        <4>4. j \in want
          BY <2>1, <3>1, <4>2, <4>3 DEF Planned, Matched
        <4> QED
          BY <2>6, <4>2, <4>3, <4>4
      <3>2. Cardinality(was) <= Cardinality(now)
        <4>1. was \subseteq now
          BY <3>1
        <4> HIDE DEF was, now
        <4> QED
          BY <2>2, <4>1, FS_Subset
      <3> HIDE DEF now, was, want
      <3> QED
        BY <2>4, <2>5, <3>2 DEF Least
    <2>8. CASE \A i \in want : m[i] # None
      <3> DEFINE f == [i \in want |-> m[i]]
      <3>1. f \in Injection(want, now)
        <4>1. \A i \in want : m[i] \in now
          BY <2>6, <2>8
        <4>2. \A i, j \in want : m[i] = m[j] => i = j
          BY <2>1, <2>8 DEF Planned, Matched
        <4> HIDE DEF want, now
        <4> QED
          BY <4>1, <4>2 DEF Injection, IsInjective
      <3> HIDE DEF now, was, want, f
      <3>2. Cardinality(want) <= Cardinality(now)
        BY <2>2, <3>1, FS_Injection
      <3> QED
        BY <2>4, <2>5, <3>2 DEF Least
    <2> QED
      BY <2>7, <2>8
  <1>2. Inv => WantedRulesStay
    BY <1>1 DEF WantedRulesStay
  <1> QED
    BY <1>2, Invariance, PTL

=============================================================================
