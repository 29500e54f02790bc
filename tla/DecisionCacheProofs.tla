------------------------ MODULE DecisionCacheProofs -------------------------
(***************************************************************************)
(* What the stores, the memoised snapshot and the cached decisions have in *)
(* common at every moment, for any accounts, events, policies and ceilings.*)
(***************************************************************************)
EXTENDS DecisionCache, FiniteSetTheorems, TLAPS

-----------------------------------------------------------------------------
(* The orders that maps keep their keys in.                                *)

LEMMA EmptyOrder == Members(<< >>) = {}
BY DEF Members

(* A key that is set belongs to the map, at most the oldest one leaves it  *)
(* and the ceiling is kept.                                                *)
LEMMA EnteredOrder ==
  ASSUME NEW S, NEW order \in Seq(S), NEW k \in S, NEW max \in Nat,
         max > 0 => Len(order) <= max
  PROVE  /\ Entered(order, k, max) \in Seq(S)
         /\ Members(Entered(order, k, max)) \subseteq Members(order) \cup {k}
         /\ k \in Members(Entered(order, k, max))
         /\ max > 0 => Len(Entered(order, k, max)) <= max
         /\ k \in Members(order) => Entered(order, k, max) = order
<1> DEFINE longer == IF k \in Members(order) THEN order ELSE Append(order, k)
<1>1. CASE k \in Members(order)
  <2>1. Entered(order, k, max) = order
    BY <1>1 DEF Entered
  <2> QED
    BY <1>1, <2>1
<1>2. CASE k \notin Members(order)
  <2>1. /\ longer \in Seq(S) /\ Len(longer) = Len(order) + 1 /\ longer[Len(longer)] = k
        /\ \A i \in 1..Len(order) : longer[i] = order[i]
    BY <1>2
  <2>2. Members(longer) = Members(order) \cup {k}
    BY <2>1 DEF Members
  <2>3. CASE max > 0 /\ Len(longer) > max /\ Head(longer) # k
    <3>1. Entered(order, k, max) = Tail(longer)
      BY <1>2, <2>3 DEF Entered
    <3>2. /\ Tail(longer) \in Seq(S) /\ Len(Tail(longer)) = Len(order)
          /\ \A i \in 1..Len(order) : Tail(longer)[i] = longer[i + 1]
      BY <2>1
    <3>3. Len(order) > 0
      BY <2>1, <2>3
    <3> HIDE DEF longer
    <3>4. /\ DOMAIN Tail(longer) = 1..Len(order) /\ DOMAIN longer = 1..(Len(order) + 1)
          /\ \A i \in 1..Len(order) : i + 1 \in 1..(Len(order) + 1)
      BY <2>1, <3>2
    <3>5. Members(Tail(longer)) \subseteq Members(longer) /\ k \in Members(Tail(longer))
      BY <2>1, <3>2, <3>3, <3>4 DEF Members
    <3> QED
      BY <1>2, <2>1, <2>2, <3>1, <3>2, <3>5
  <2>4. CASE ~(max > 0 /\ Len(longer) > max /\ Head(longer) # k)
    <3>1. Entered(order, k, max) = longer
      BY <1>2, <2>4 DEF Entered
    <3>2. max > 0 /\ Len(longer) > max => Len(order) > 0
      BY <2>1
    <3>3. max > 0 /\ Len(longer) > max => Head(longer) = order[1]
      BY <2>1, <3>2
    <3>4. max > 0 => Len(longer) <= max
      BY <1>2, <2>1, <2>4, <3>2, <3>3 DEF Members
    <3> QED
      BY <1>2, <2>1, <2>2, <3>1, <3>4
  <2> QED
    BY <2>3, <2>4
<1> QED
  BY <1>1, <1>2

(* The n-th of the indices that are kept, counted from the first.          *)
LEMMA Counting ==
  ASSUME NEW m \in Nat, NEW kept \in SUBSET (1..m)
  PROVE  /\ IsFiniteSet(kept) /\ Cardinality(kept) \in 0..m
         /\ \A i \in kept : Cardinality({j \in kept : j <= i}) \in 1..Cardinality(kept)
         /\ \A n \in 1..Cardinality(kept) :
              \E i \in kept : Cardinality({j \in kept : j <= i}) = n
         /\ \A i, h \in kept :
              Cardinality({j \in kept : j <= i}) = Cardinality({j \in kept : j <= h}) => i = h
<1> DEFINE UpTo(i) == {j \in kept : j <= i}
           rank == [i \in kept |-> Cardinality(UpTo(i))]
<1>1. IsFiniteSet(kept) /\ Cardinality(kept) \in 0..m
  <2>1. IsFiniteSet(1..m) /\ Cardinality(1..m) = m
    BY FS_Interval
  <2>2. IsFiniteSet(kept) /\ Cardinality(kept) <= Cardinality(1..m)
    BY <2>1, FS_Subset
  <2> QED
    BY <2>1, <2>2, FS_CardinalityType
<1>2. ASSUME NEW i \in kept
      PROVE  IsFiniteSet(UpTo(i)) /\ Cardinality(UpTo(i)) \in 1..Cardinality(kept)
  <2>1. IsFiniteSet(UpTo(i)) /\ Cardinality(UpTo(i)) <= Cardinality(kept)
    BY <1>1, FS_Subset
  <2>2. UpTo(i) # {}
    OBVIOUS
  <2>3. Cardinality(UpTo(i)) \in Nat /\ Cardinality(UpTo(i)) # 0
    BY <2>1, <2>2, FS_EmptySet, FS_CardinalityType
  <2> QED
    BY <1>1, <2>1, <2>3
<1>3. ASSUME NEW i \in kept, NEW j \in kept, Cardinality(UpTo(i)) = Cardinality(UpTo(j))
      PROVE  i = j
  <2>1. ASSUME NEW a \in kept, NEW b \in kept, a < b,
               Cardinality(UpTo(a)) = Cardinality(UpTo(b))
        PROVE  FALSE
    <3>1. UpTo(a) \in SUBSET UpTo(b) /\ b \in UpTo(b) /\ b \notin UpTo(a)
      <4>1. \A x \in kept : x \in Int
        OBVIOUS
      <4>2. ASSUME NEW x \in kept, x <= a PROVE x <= b
        BY <2>1, <4>1, <4>2
      <4>3. ~(b <= a)
        BY <2>1, <4>1
      <4>4. UpTo(a) \subseteq UpTo(b)
        BY <4>2
      <4>5. b \in UpTo(b) /\ b \notin UpTo(a)
        BY <4>1, <4>3
      <4> QED
        BY <4>4, <4>5
    <3>2. IsFiniteSet(UpTo(b))
      BY <1>2
    <3> HIDE DEF UpTo
    <3>3. UpTo(a) = UpTo(b)
      BY <2>1, <3>1, <3>2, FS_Subset
    <3> QED
      BY <3>1, <3>3
  <2>2. i \in Int /\ j \in Int
    OBVIOUS
  <2> HIDE DEF UpTo
  <2> QED
    BY <1>3, <2>1, <2>2
<1>4. rank \in Injection(kept, 1..Cardinality(kept))
  <2> HIDE DEF UpTo
  <2>1. rank \in [kept -> 1..Cardinality(kept)]
    BY <1>2
  <2> QED
    BY <1>3, <2>1 DEF Injection, IsInjective
<1>5. rank \in Surjection(kept, 1..Cardinality(kept))
  <2>1. IsFiniteSet(1..Cardinality(kept)) /\ Cardinality(1..Cardinality(kept)) = Cardinality(kept)
    BY <1>1, FS_Interval
  <2> HIDE DEF rank
  <2> QED
    BY <1>4, <2>1, FS_Injection
<1> HIDE DEF UpTo
<1>6. \A n \in 1..Cardinality(kept) : \E i \in kept : rank[i] = n
  BY <1>5 DEF Surjection
<1> QED
  BY <1>1, <1>2, <1>3, <1>6 DEF UpTo

(* Of the keys that are left none is lost and none is gained.              *)
LEMMA WithoutOrder ==
  ASSUME NEW S, NEW order \in Seq(S), NEW gone
  PROVE  /\ Without(order, gone) \in Seq(S)
         /\ Members(Without(order, gone)) = Members(order) \ gone
         /\ Len(Without(order, gone)) <= Len(order)
<1> DEFINE kept == {i \in DOMAIN order : order[i] \notin gone}
           c == Cardinality(kept)
           Rank(i) == Cardinality({j \in kept : j <= i})
           nth == [n \in 1..c |-> CHOOSE i \in kept : Rank(i) = n]
           rest == [n \in 1..c |-> order[CHOOSE i \in kept : Rank(i) = n]]
<1>1. /\ c \in 0..Len(order)
      /\ \A i \in kept : Rank(i) \in 1..c
      /\ \A n \in 1..c : \E i \in kept : Rank(i) = n
      /\ \A i, h \in kept : Rank(i) = Rank(h) => i = h
  <2>1. Len(order) \in Nat /\ kept \in SUBSET (1..Len(order))
    OBVIOUS
  <2> HIDE DEF kept
  <2> QED
    BY <2>1, Counting
<1>2. Without(order, gone) = rest
  BY DEF Without
<1>3. \A i \in kept : i \in 1..Len(order) /\ order[i] \in S /\ order[i] \notin gone
  OBVIOUS
<1> HIDE DEF kept, Rank
<1>4. \A n \in 1..c : nth[n] \in kept /\ rest[n] = order[nth[n]]
  BY <1>1
<1>5. rest \in Seq(S) /\ Len(rest) = c /\ DOMAIN rest = 1..c
  <2>1. rest \in [1..c -> S] /\ c \in Nat
    BY <1>1, <1>3, <1>4
  <2> HIDE DEF rest, c
  <2> QED
    BY <2>1
<1>6. Members(rest) \subseteq Members(order) \ gone
  <2> HIDE DEF rest, nth
  <2>1. \A n \in 1..c : rest[n] = order[nth[n]] /\ nth[n] \in DOMAIN order /\ rest[n] \notin gone
    BY <1>3, <1>4
  <2> QED
    BY <1>5, <2>1 DEF Members
<1>7. ASSUME NEW i \in DOMAIN order, order[i] \notin gone PROVE order[i] \in Members(rest)
  <2>1. i \in kept
    BY <1>7 DEF kept
  <2>2. Rank(i) \in 1..c /\ nth[Rank(i)] = i
    BY <1>1, <2>1
  <2> QED
    BY <1>4, <1>5, <2>2 DEF Members
<1> QED
  BY <1>1, <1>2, <1>5, <1>6, <1>7 DEF Members

-----------------------------------------------------------------------------
(* The types, by the stores that the steps change apart.                   *)
Evidence ==
  /\ admin \in Admin /\ trust \in Trust /\ now \in 0..MaxTime
  /\ {rootPolicy, localPolicy} \subseteq Policies \cup {NoPolicy}
  /\ overrides \in [Key -> Nat \cup {None}]

Reported ==
  /\ reportOrder \in Seq(Key) /\ reporters \in [Key -> SUBSET Pubkey]
  /\ Members(reportOrder) = {k \in Key : reporters[k] # {}}
  /\ MaxTargets > 0 => Len(reportOrder) <= MaxTargets

Listed ==
  /\ listOrder \in Seq(Pubkey) /\ lists \in [Pubkey -> MuteList \cup {None}]
  /\ Members(listOrder) = {p \in Pubkey : lists[p] # None}
  /\ MaxLists > 0 => Len(listOrder) <= MaxLists

Remembered ==
  /\ cacheOrder \in Seq(CacheKey) /\ cached \in [CacheKey -> Decision \cup {None}]
  /\ Members(cacheOrder) = Held /\ Len(cacheOrder) <= MaxCached

Typed == Evidence /\ Reported /\ Listed /\ Remembered

LEMMA TypedIsTypeOK == Typed => TypeOK
BY DEF Typed, Evidence, Reported, Listed, Remembered, TypeOK

LEMMA CacheKeys ==
  /\ \A c \in CacheKey : c[1] \in Profile /\ c[2] \in Key /\ c = << c[1], c[2] >>
  /\ \A t \in Target : t.key \in Key
BY DEF CacheKey, Target, Key

LEMMA InitTyped == Init => Typed
<1> SUFFICES ASSUME Init PROVE Typed
  OBVIOUS
<1>1. Evidence
  BY BoundsAssumption DEF Init, Evidence, Admin, Trust
<1>2. Reported
  BY EmptyOrder, BoundsAssumption DEF Init, Reported
<1>3. Listed
  BY EmptyOrder, BoundsAssumption DEF Init, Listed
<1>4. Remembered
  BY EmptyOrder, BoundsAssumption DEF Init, Remembered, Held
<1> QED
  BY <1>1, <1>2, <1>3, <1>4 DEF Typed

(* Whatever keys are named, the cache remains a map with an order.         *)
LEMMA InvalidateRemembers ==
  ASSUME NEW keys, Remembered, Invalidate(keys)
  PROVE  Remembered'
<1>1. /\ cacheOrder' \in Seq(CacheKey) /\ Len(cacheOrder') <= Len(cacheOrder)
      /\ Members(cacheOrder') = Members(cacheOrder) \ (Profile \X keys)
  BY WithoutOrder DEF Remembered, Invalidate
<1>2. \A c \in CacheKey : cached'[c] # None <=> c \in Held \ (Profile \X keys)
  BY CacheKeys DEF Invalidate, Held
<1>3. cached' \in [CacheKey -> Decision \cup {None}]
  BY DEF Remembered, Invalidate
<1>4. Members(cacheOrder') = Held'
  BY <1>1, <1>2 DEF Remembered, Held
<1>5. Len(cacheOrder') <= MaxCached
  BY <1>1, BoundsAssumption DEF Remembered
<1> QED
  BY <1>1, <1>3, <1>4, <1>5 DEF Remembered

LEMMA NoChangeRemembers == Remembered /\ NoChange => Remembered'
BY DEF Remembered, NoChange, Held

(* A report enters its store and may push out the oldest target; a report  *)
(* that was known already changes nothing.                                 *)
LEMMA IngestReported ==
  ASSUME Reported, NEW k \in Key, NEW p \in Pubkey,
         reportOrder' = Entered(reportOrder, k, MaxTargets),
         reporters' = [j \in Key |->
                         IF j \notin Members(reportOrder') THEN {}
                         ELSE reporters[j] \cup (IF j = k THEN {p} ELSE {})]
  PROVE  /\ Reported'
         /\ \A j \in Key : j # k => reporters'[j] \subseteq reporters[j]
         /\ p \in reporters[k] => reporters' = reporters
<1>1. /\ reportOrder' \in Seq(Key)
      /\ MaxTargets > 0 => Len(reportOrder') <= MaxTargets
      /\ Members(reportOrder') \subseteq Members(reportOrder) \cup {k}
      /\ k \in Members(reportOrder')
      /\ k \in Members(reportOrder) => reportOrder' = reportOrder
  BY EnteredOrder, BoundsAssumption DEF Reported
<1>2. reporters' \in [Key -> SUBSET Pubkey]
  BY DEF Reported
<1>3. Members(reportOrder') = {j \in Key : reporters'[j] # {}}
  BY <1>1 DEF Reported
<1>4. ASSUME p \in reporters[k] PROVE reporters' = reporters
  <2>1. k \in Members(reportOrder)
    BY <1>4 DEF Reported
  <2>2. reportOrder' = reportOrder
    BY <1>1, <2>1
  <2>3. \A j \in Key : reporters'[j] = reporters[j]
    BY <1>4, <2>2 DEF Reported
  <2> QED
    BY <1>2, <2>3 DEF Reported
<1>5. \A j \in Key : j # k => reporters'[j] \subseteq reporters[j]
  OBVIOUS
<1>6. Reported'
  BY <1>1, <1>2, <1>3 DEF Reported
<1> QED
  BY <1>4, <1>5, <1>6

LEMMA ClearReported ==
  ASSUME Reported, NEW k \in Key,
         reportOrder' = Without(reportOrder, {k}), reporters' = [reporters EXCEPT ![k] = {}]
  PROVE  Reported'
<1>1. /\ reportOrder' \in Seq(Key) /\ Members(reportOrder') = Members(reportOrder) \ {k}
      /\ Len(reportOrder') <= Len(reportOrder)
  BY WithoutOrder DEF Reported
<1>2. reporters' \in [Key -> SUBSET Pubkey]
  BY DEF Reported
<1>3. Members(reportOrder') = {j \in Key : reporters'[j] # {}}
  BY <1>1 DEF Reported
<1>4. MaxTargets > 0 => Len(reportOrder') <= MaxTargets
  BY <1>1, BoundsAssumption DEF Reported
<1> QED
  BY <1>1, <1>2, <1>3, <1>4 DEF Reported

(* A list takes its owner's place and may push out another owner's.        *)
LEMMA ReplaceListed ==
  ASSUME Listed, NEW l \in MuteList,
         listOrder' = Entered(listOrder, l.owner, MaxLists),
         lists' = [p \in Pubkey |-> IF p \notin Members(listOrder') THEN None
                                    ELSE IF p = l.owner THEN l ELSE lists[p]]
  PROVE  /\ Listed'
         /\ \A p \in Pubkey : p # l.owner => lists'[p] \in {lists[p], None}
         /\ lists'[l.owner] = l
<1>1. l.owner \in Pubkey
  BY DEF MuteList
<1>2. /\ listOrder' \in Seq(Pubkey)
      /\ MaxLists > 0 => Len(listOrder') <= MaxLists
      /\ Members(listOrder') \subseteq Members(listOrder) \cup {l.owner}
      /\ l.owner \in Members(listOrder')
  BY <1>1, EnteredOrder, BoundsAssumption DEF Listed
<1>3. lists' \in [Pubkey -> MuteList \cup {None}]
  BY DEF Listed
<1>4. Members(listOrder') = {p \in Pubkey : lists'[p] # None}
  BY <1>1, <1>2, InputAssumption DEF Listed
<1>5. \A p \in Pubkey : p # l.owner => lists'[p] \in {lists[p], None}
  BY <1>1
<1>6. lists'[l.owner] = l
  BY <1>1, <1>2
<1>7. Listed'
  BY <1>2, <1>3, <1>4 DEF Listed
<1> QED
  BY <1>5, <1>6, <1>7

LEMMA PruneListed ==
  ASSUME Listed, NEW pruned,
         listOrder' = Without(listOrder, pruned),
         lists' = [p \in Pubkey |-> IF p \in pruned THEN None ELSE lists[p]]
  PROVE  Listed'
<1>1. /\ listOrder' \in Seq(Pubkey) /\ Members(listOrder') = Members(listOrder) \ pruned
      /\ Len(listOrder') <= Len(listOrder)
  BY WithoutOrder DEF Listed
<1>2. lists' \in [Pubkey -> MuteList \cup {None}]
  BY DEF Listed
<1>3. Members(listOrder') = {p \in Pubkey : lists'[p] # None}
  BY <1>1 DEF Listed
<1>4. MaxLists > 0 => Len(listOrder') <= MaxLists
  BY <1>1, BoundsAssumption DEF Listed
<1> QED
  BY <1>1, <1>2, <1>3, <1>4 DEF Listed

-----------------------------------------------------------------------------
(* A snapshot, with the community markers that were known when it was made.*)
Shot(marked) ==
  [ admin     |-> [ denied |-> admin.denied, marked |-> marked,
                    protectedActors |-> admin.protectedActors ],
    trustSet  |-> TrustSet(trust),
    reporters |-> reporters,
    lists     |-> lists ]

Snapped == snapshot = None \/ \E m \in SUBSET Key : snapshot = Shot(m)

LEMMA MaterialisedShot == Evidence => Materialised = Shot(admin.marked)
BY DEF Evidence, Admin, Materialised, Shot

LEMMA SnappedIsCurrent == Evidence /\ Snapped => SnapshotCurrent
<1> SUFFICES ASSUME Evidence, NEW m \in SUBSET Key, snapshot = Shot(m) PROVE SnapshotCurrent
  BY DEF Snapped, SnapshotCurrent
<1>1. [Shot(m) EXCEPT !.admin.marked = {}] = Shot({})
  BY DEF Shot
<1>2. [Shot(admin.marked) EXCEPT !.admin.marked = {}] = Shot({})
  BY DEF Shot
<1> QED
  BY <1>1, <1>2, MaterialisedShot DEF SnapshotCurrent

(* What decides: the evidence about a target, as the stores hold it now.   *)
Protected(t) == Authors(t) \cap admin.protectedActors # {}

Denied(t) == ~Protected(t) /\ ({t.key} \cup Authors(t)) \cap admin.denied # {}

Counts(p) == p \in TrustSet(trust) /\ p \notin trust.blocks /\ p \notin admin.denied

MutedBy(p, k) ==
  /\ lists[p] # None /\ k \in lists[p].entries
  /\ ~(Window > 0 /\ lists[p].updatedAt + Window < now)

Live(k) == overrides[k] # None /\ overrides[k] > now

(* Of a snapshot's community markers a decision holds its marker only.     *)
LEMMA DecideShot ==
  ASSUME NEW t \in Target, NEW profile, NEW m
  PROVE  /\ Decide(t, profile, Shot(m)).target = t
         /\ Decide(t, profile, Shot(m)).profile = profile
         /\ Decide(t, profile, Shot(m)).policy = EffectivePolicy(localPolicy, rootPolicy)
         /\ Decide(t, profile, Shot(m)).protected = Protected(t)
         /\ Decide(t, profile, Shot(m)).denied = Denied(t)
         /\ Decide(t, profile, Shot(m)).blocked = (Authors(t) \cap trust.blocks # {})
         /\ Decide(t, profile, Shot(m)).reporters = {p \in reporters[t.key] : Counts(p)}
         /\ Decide(t, profile, Shot(m)).muters = {p \in Pubkey : MutedBy(p, t.key) /\ Counts(p)}
         /\ Decide(t, profile, Shot(m)).overridden = Live(t.key)
<1>1. /\ Shot(m).admin.denied = admin.denied /\ Shot(m).trustSet = TrustSet(trust)
      /\ Shot(m).admin.protectedActors = admin.protectedActors
      /\ Shot(m).reporters = reporters /\ Shot(m).lists = lists
  BY DEF Shot
<1>2. \A signers : Countable(signers, Shot(m), trust.blocks) = {p \in signers : Counts(p)}
  BY <1>1 DEF Countable, Counts
<1> HIDE DEF Shot
<1> DEFINE muters == {p \in Pubkey : /\ Shot(m).lists[p] # None
                                     /\ t.key \in Shot(m).lists[p].entries
                                     /\ ~(Window > 0 /\ Shot(m).lists[p].updatedAt + Window < now)}
<1>3. Countable(muters, Shot(m), trust.blocks)
        = {p \in Pubkey : MutedBy(p, t.key) /\ Counts(p)}
  BY <1>1, <1>2 DEF MutedBy
<1>4. Countable(Shot(m).reporters[t.key], Shot(m), trust.blocks)
        = {p \in reporters[t.key] : Counts(p)}
  BY <1>1, <1>2
<1> QED
  BY <1>1, <1>3, <1>4 DEF Decide, Protected, Denied, Live

LEMMA DecideType ==
  ASSUME Evidence, Reported, Listed,
         NEW t \in Target, NEW profile \in Profile, NEW m \in SUBSET Key
  PROVE  Decide(t, profile, Shot(m)) \in Decision
<1>1. EffectivePolicy(localPolicy, rootPolicy) \in Policy
  BY DEF Evidence, EffectivePolicy, Policy
<1>2. {p \in reporters[t.key] : Counts(p)} \in SUBSET Pubkey
  BY CacheKeys DEF Reported
<1>3. {p \in Pubkey : MutedBy(p, t.key) /\ Counts(p)} \in SUBSET Pubkey
  OBVIOUS
<1> DEFINE d == Decide(t, profile, Shot(m))
<1>4. d = [ target |-> d.target, profile |-> d.profile, policy |-> d.policy,
            protected |-> d.protected, denied |-> d.denied, marked |-> d.marked,
            blocked |-> d.blocked, reporters |-> d.reporters, muters |-> d.muters,
            overridden |-> d.overridden ]
  BY DEF Decide
<1>5. {d.protected, d.denied, d.marked, d.blocked, d.overridden} \subseteq BOOLEAN
  BY DEF Decide
<1>6. /\ d.target = t /\ d.profile = profile /\ d.policy \in Policy
      /\ d.reporters \in SUBSET Pubkey /\ d.muters \in SUBSET Pubkey
  BY <1>1, <1>2, <1>3, DecideShot
<1> HIDE DEF d
<1> QED
  BY <1>4, <1>5, <1>6 DEF d, Decision

-----------------------------------------------------------------------------
(* A cached decision knows what decides about its target, or more.         *)
Remembers(c) ==
  LET d == cached[c]
  IN  /\ d.target.key = c[2] /\ d.profile = c[1]
      /\ d.policy = EffectivePolicy(localPolicy, rootPolicy)
      /\ d.protected = Protected(d.target)
      /\ d.denied = Denied(d.target)
      /\ d.blocked = (Authors(d.target) \cap trust.blocks # {})
      /\ {p \in reporters[c[2]] : Counts(p)} \subseteq d.reporters
      /\ {p \in Pubkey : MutedBy(p, c[2]) /\ Counts(p)} \subseteq d.muters
      /\ Live(c[2]) => d.overridden

IInv == Typed /\ Snapped /\ \A c \in Held : Remembers(c)

LEMMA HeldDecisions ==
  ASSUME Remembered, NEW c \in Held
  PROVE  c \in CacheKey /\ cached[c] \in Decision /\ cached[c].target \in Target
BY DEF Remembered, Held, Decision

LEMMA InvariantRemembers == IInv => CacheOnlyRemembers
<1> SUFFICES ASSUME IInv, NEW c \in Held
             PROVE  LET held == cached[c]
                        fresh == Decide(held.target, held.profile, Materialised)
                    IN  /\ held.target.key = c[2] /\ held.profile = c[1]
                        /\ held.policy = fresh.policy
                        /\ held.protected = fresh.protected
                        /\ held.denied = fresh.denied
                        /\ held.blocked = fresh.blocked
                        /\ fresh.reporters \subseteq held.reporters
                        /\ fresh.muters \subseteq held.muters
                        /\ fresh.overridden => held.overridden
  BY DEF CacheOnlyRemembers
<1>1. Materialised = Shot(admin.marked) /\ cached[c].target \in Target
  BY MaterialisedShot, HeldDecisions DEF IInv, Typed
<1>2. Remembers(c)
  BY DEF IInv
<1> QED
  BY <1>1, <1>2, DecideShot DEF Remembers

(* What a step may do that does not name a key: the evidence about the key *)
(* fades, but none is added, and the rest stands.                          *)
Fades(k) ==
  /\ EffectivePolicy(localPolicy', rootPolicy') = EffectivePolicy(localPolicy, rootPolicy)
  /\ admin'.denied = admin.denied /\ admin'.protectedActors = admin.protectedActors
  /\ TrustSet(trust') = TrustSet(trust) /\ trust'.blocks = trust.blocks
  /\ reporters'[k] \subseteq reporters[k]
  /\ \A p \in Pubkey : MutedBy(p, k)' => MutedBy(p, k)
  /\ Live(k)' => Live(k)

LEMMA FadedRemembers ==
  ASSUME NEW c \in CacheKey, Remembers(c), cached'[c] = cached[c], Fades(c[2])
  PROVE  Remembers(c)'
<1>1. /\ \A p : Counts(p)' = Counts(p)
      /\ \A t : Protected(t)' = Protected(t) /\ Denied(t)' = Denied(t)
  BY DEF Fades, Counts, Protected, Denied
<1> QED
  BY <1>1 DEF Fades, Remembers

(* Nothing that a snapshot shows changes.                                  *)
Unseen ==
  /\ admin'.denied = admin.denied /\ admin'.protectedActors = admin.protectedActors
  /\ TrustSet(trust') = TrustSet(trust)
  /\ UNCHANGED << reporters, lists >>

LEMMA UnseenSnapped == Snapped /\ Unseen /\ UNCHANGED snapshot => Snapped'
BY DEF Snapped, Unseen, Shot

(* A step keeps the invariant of the cache and the snapshot if it names    *)
(* the keys whose evidence does more than fade, ...                        *)
LEMMA InvalidateKeeps ==
  ASSUME IInv, NEW keys, Invalidate(keys), \A k \in Key \ keys : Fades(k)
  PROVE  Remembered' /\ Snapped' /\ \A c \in Held' : Remembers(c)'
<1>1. Remembered'
  BY InvalidateRemembers DEF IInv, Typed
<1>2. Snapped'
  BY DEF Invalidate, Snapped
<1>3. ASSUME NEW c \in Held' PROVE Remembers(c)'
  <2>1. c \in CacheKey /\ c[2] \in Key /\ c[2] \notin keys /\ cached'[c] = cached[c] /\ c \in Held
    BY CacheKeys DEF Held, Invalidate
  <2>2. Remembers(c) /\ Fades(c[2])
    BY <2>1 DEF IInv
  <2> QED
    BY <2>1, <2>2, FadedRemembers
<1> QED
  BY <1>1, <1>2, <1>3

(* ... or if it names none and the snapshot stays true.                    *)
LEMMA NoChangeKeeps ==
  ASSUME IInv, NoChange, Unseen, \A k \in Key : Fades(k)
  PROVE  Remembered' /\ Snapped' /\ \A c \in Held' : Remembers(c)'
<1>1. Remembered' /\ Snapped'
  BY NoChangeRemembers, UnseenSnapped DEF IInv, Typed, NoChange
<1>2. ASSUME NEW c \in Held' PROVE Remembers(c)'
  <2>1. c \in CacheKey /\ c[2] \in Key /\ cached'[c] = cached[c] /\ c \in Held
    BY CacheKeys DEF Held, NoChange
  <2>2. Remembers(c) /\ Fades(c[2])
    BY <2>1 DEF IInv
  <2> QED
    BY <2>1, <2>2, FadedRemembers
<1> QED
  BY <1>1, <1>2

-----------------------------------------------------------------------------
(* One lemma for each action that does not just invalidate everything.     *)
LEMMA IngestReportKeeps == IInv /\ IngestReport => IInv'
<1> SUFFICES ASSUME IInv, IngestReport PROVE IInv'
  OBVIOUS
<1>1. PICK k \in Key, p \in Pubkey :
        /\ reportOrder' = Entered(reportOrder, k, MaxTargets)
        /\ reporters' = [j \in Key |->
                           IF j \notin Members(reportOrder') THEN {}
                           ELSE reporters[j] \cup (IF j = k THEN {p} ELSE {})]
        /\ Invalidate({k}) \/ (p \in reporters[k] /\ NoChange)
  BY DEF IngestReport
<1>2. UNCHANGED << admin, trust, lists, listOrder, rootPolicy, localPolicy, overrides, now >>
  BY DEF IngestReport
<1>3. /\ Reported'
      /\ \A j \in Key : j # k => reporters'[j] \subseteq reporters[j]
      /\ p \in reporters[k] => reporters' = reporters
  BY <1>1, IngestReported DEF IInv, Typed
<1>4. Evidence' /\ Listed'
  BY <1>2 DEF IInv, Typed, Evidence, Listed
<1>5. \A j \in Key : reporters'[j] \subseteq reporters[j] => Fades(j)
  BY <1>2 DEF Fades, MutedBy, Live
<1>6. CASE Invalidate({k})
  BY <1>3, <1>4, <1>5, <1>6, InvalidateKeeps DEF IInv, Typed
<1>7. CASE p \in reporters[k] /\ NoChange
  <2>1. Unseen /\ \A j \in Key : Fades(j)
    BY <1>2, <1>3, <1>5, <1>7 DEF Unseen
  <2> QED
    BY <1>3, <1>4, <1>7, <2>1, NoChangeKeeps DEF IInv, Typed
<1> QED
  BY <1>1, <1>6, <1>7

LEMMA ClearTargetKeeps == IInv /\ ClearTarget => IInv'
<1> SUFFICES ASSUME IInv, ClearTarget PROVE IInv'
  OBVIOUS
<1>1. PICK k \in Key : /\ reportOrder' = Without(reportOrder, {k})
                       /\ reporters' = [reporters EXCEPT ![k] = {}]
                       /\ Invalidate({k})
  BY DEF ClearTarget, IInv, Typed, Reported
<1>2. UNCHANGED << admin, trust, lists, listOrder, rootPolicy, localPolicy, overrides, now >>
  BY DEF ClearTarget
<1>3. Evidence' /\ Reported' /\ Listed'
  BY <1>1, <1>2, ClearReported DEF IInv, Typed, Evidence, Listed
<1>4. \A j \in Key \ {k} : Fades(j)
  BY <1>1, <1>2 DEF Fades, MutedBy, Live, IInv, Typed, Reported
<1> QED
  BY <1>1, <1>3, <1>4, InvalidateKeeps DEF IInv, Typed

LEMMA ReplaceListKeeps == IInv /\ ReplaceList => IInv'
<1> SUFFICES ASSUME IInv, ReplaceList PROVE IInv'
  OBVIOUS
<1>1. PICK l \in MuteLists :
        /\ listOrder' = Entered(listOrder, l.owner, MaxLists)
        /\ lists' = [p \in Pubkey |-> IF p \notin Members(listOrder') THEN None
                                       ELSE IF p = l.owner THEN l ELSE lists[p]]
        /\ Invalidate(Entries(l.owner) \cup l.entries)
  BY DEF ReplaceList
<1>2. UNCHANGED << admin, trust, reporters, reportOrder, rootPolicy, localPolicy, overrides, now >>
  BY DEF ReplaceList
<1>3. l \in MuteList
  BY InputAssumption
<1>4. /\ Listed' /\ \A p \in Pubkey : p # l.owner => lists'[p] \in {lists[p], None}
      /\ lists'[l.owner] = l
  BY <1>1, <1>3, ReplaceListed DEF IInv, Typed
<1>5. Evidence' /\ Reported'
  BY <1>2 DEF IInv, Typed, Evidence, Reported
<1>6. ASSUME NEW k \in Key \ (Entries(l.owner) \cup l.entries) PROVE Fades(k)
  <2>1. ASSUME NEW p \in Pubkey, MutedBy(p, k)' PROVE MutedBy(p, k)
    BY <1>2, <1>4, <1>6, <2>1 DEF MutedBy
  <2> QED
    BY <1>2, <2>1 DEF Fades, Live
<1> QED
  BY <1>1, <1>4, <1>5, <1>6, InvalidateKeeps DEF IInv, Typed

LEMMA PruneKeeps == IInv /\ Prune => IInv'
<1> SUFFICES ASSUME IInv, Prune PROVE IInv'
  OBVIOUS
<1> DEFINE pruned == {p \in Pubkey : Aged(lists[p])}
<1>1. /\ listOrder' = Without(listOrder, pruned)
      /\ lists' = [p \in Pubkey |-> IF p \in pruned THEN None ELSE lists[p]]
      /\ Invalidate(UNION {Entries(p) : p \in pruned})
      /\ UNCHANGED << admin, trust, reporters, reportOrder, rootPolicy, localPolicy,
                      overrides, now >>
  BY DEF Prune
<1> HIDE DEF pruned
<1>2. Evidence' /\ Reported' /\ Listed'
  BY <1>1, PruneListed DEF IInv, Typed, Evidence, Reported
<1>3. \A p \in Pubkey : lists'[p] \in {lists[p], None}
  BY <1>1
<1>4. \A k \in Key : Fades(k)
  BY <1>1, <1>3 DEF Fades, MutedBy, Live
<1> QED
  BY <1>1, <1>2, <1>4, InvalidateKeeps DEF IInv, Typed

LEMMA OverrideKeeps == IInv /\ (SetOverride \/ RemoveOverride) => IInv'
<1> SUFFICES ASSUME IInv, SetOverride \/ RemoveOverride PROVE IInv'
  OBVIOUS
<1>1. PICK k \in Key, e \in Nat \cup {None} :
        overrides' = [overrides EXCEPT ![k] = e] /\ Invalidate({k})
  BY InputAssumption DEF SetOverride, RemoveOverride
<1>2. UNCHANGED << admin, trust, reporters, reportOrder, lists, listOrder, rootPolicy,
                  localPolicy, now >>
  BY DEF SetOverride, RemoveOverride
<1>3. Evidence' /\ Reported' /\ Listed'
  BY <1>1, <1>2 DEF IInv, Typed, Evidence, Reported, Listed
<1>4. \A j \in Key \ {k} : Fades(j)
  BY <1>1, <1>2 DEF Fades, MutedBy, Live, IInv, Typed, Evidence
<1> QED
  BY <1>1, <1>3, <1>4, InvalidateKeeps DEF IInv, Typed

(* Roster, trust and policy: everything is named, or nothing was seen.     *)
LEMMA AdminChangeKeeps == IInv /\ AdminChange => IInv'
<1> SUFFICES ASSUME IInv, AdminChange PROVE IInv'
  OBVIOUS
<1>1. PICK a \in Admins : admin' = a /\ IF Announces(a) THEN InvalidateAll ELSE NoChange
  BY DEF AdminChange
<1>2. UNCHANGED << trust, reporters, reportOrder, lists, listOrder, rootPolicy, localPolicy,
                  overrides, now >>
  BY DEF AdminChange
<1>3. Evidence' /\ Reported' /\ Listed'
  BY <1>1, <1>2, InputAssumption DEF IInv, Typed, Evidence, Reported, Listed
<1>4. CASE Announces(a)
  BY <1>1, <1>3, <1>4, InvalidateKeeps DEF InvalidateAll, IInv, Typed
<1>5. CASE ~Announces(a)
  <2>1. Unseen /\ \A k \in Key : Fades(k)
    BY <1>1, <1>2, <1>5 DEF Announces, Unseen, Fades, MutedBy, Live
  <2> QED
    BY <1>1, <1>3, <1>5, <2>1, NoChangeKeeps DEF IInv, Typed
<1> QED
  BY <1>4, <1>5

LEMMA TrustChangeKeeps == IInv /\ TrustChange => IInv'
<1> SUFFICES ASSUME IInv, TrustChange PROVE IInv'
  OBVIOUS
<1>1. PICK t \in Trusts : trust' = t /\ InvalidateAll
  BY DEF TrustChange
<1>2. Evidence' /\ Reported' /\ Listed'
  BY <1>1, InputAssumption DEF TrustChange, IInv, Typed, Evidence, Reported, Listed
<1> QED
  BY <1>1, <1>2, InvalidateKeeps DEF InvalidateAll, IInv, Typed

LEMMA PolicyChangeKeeps == IInv /\ PolicyChange => IInv'
<1> SUFFICES ASSUME IInv, PolicyChange PROVE IInv'
  OBVIOUS
<1>1. UNCHANGED << admin, trust, reporters, reportOrder, lists, listOrder, overrides, now >>
  BY DEF PolicyChange
<1>2. Evidence' /\ Reported' /\ Listed'
  BY <1>1 DEF PolicyChange, IInv, Typed, Evidence, Reported, Listed
<1>3. CASE EffectivePolicy(localPolicy', rootPolicy') # EffectivePolicy(localPolicy, rootPolicy)
  BY <1>2, <1>3, InvalidateKeeps DEF PolicyChange, InvalidateAll, IInv, Typed
<1>4. CASE EffectivePolicy(localPolicy', rootPolicy') = EffectivePolicy(localPolicy, rootPolicy)
  <2>1. Unseen /\ \A k \in Key : Fades(k)
    BY <1>1, <1>4 DEF Unseen, Fades, MutedBy, Live
  <2>2. NoChange
    BY <1>4 DEF PolicyChange
  <2> QED
    BY <1>2, <2>1, <2>2, NoChangeKeeps DEF IInv, Typed
<1> QED
  BY <1>3, <1>4

(* The clock only lets mutes age and overrides expire.                     *)
LEMMA TickKeeps == IInv /\ Tick => IInv'
<1> SUFFICES ASSUME IInv, Tick PROVE IInv'
  OBVIOUS
<1>1. /\ now' = now + 1 /\ NoChange
      /\ UNCHANGED << admin, trust, reporters, reportOrder, lists, listOrder, rootPolicy,
                      localPolicy, overrides >>
  BY DEF Tick
<1>2. Evidence' /\ Reported' /\ Listed'
  BY <1>1, BoundsAssumption DEF Tick, IInv, Typed, Evidence, Reported, Listed
<1>3. now \in Nat /\ Window \in Nat /\ \A k \in Key : overrides[k] \in Nat \cup {None}
  BY BoundsAssumption DEF IInv, Typed, Evidence
<1>4. ASSUME NEW k \in Key, NEW p \in Pubkey, MutedBy(p, k)' PROVE MutedBy(p, k)
  <2>1. lists[p] # None => lists[p].updatedAt \in Nat
    BY DEF IInv, Typed, Listed, MuteList
  <2> QED
    BY <1>1, <1>3, <1>4, <2>1 DEF MutedBy
<1>5. \A k \in Key : Live(k)' => Live(k)
  BY <1>1, <1>3 DEF Live
<1>6. Unseen /\ \A k \in Key : Fades(k)
  BY <1>1, <1>4, <1>5 DEF Unseen, Fades
<1> QED
  BY <1>1, <1>2, <1>6, NoChangeKeeps DEF IInv, Typed

(* No decision survives another viewer; the snapshot may, if the trust     *)
(* graph is what it was.                                                   *)
LEMMA SetViewerKeeps == IInv /\ SetViewer => IInv'
<1> SUFFICES ASSUME IInv, SetViewer PROVE IInv'
  OBVIOUS
<1>1. UNCHANGED << admin, reporters, reportOrder, lists, listOrder, rootPolicy, localPolicy, now >>
  BY DEF SetViewer
<1>2. /\ trust' = [trust EXCEPT !.contacts = {}, !.blocks = {}]
      /\ overrides' = [k \in Key |-> None]
      /\ snapshot' = None \/ (trust' = trust /\ snapshot' = snapshot)
      /\ cached' = [c \in CacheKey |-> None] /\ cacheOrder' = << >>
  BY DEF SetViewer
<1>3. Evidence' /\ Reported' /\ Listed'
  BY <1>1, <1>2 DEF IInv, Typed, Evidence, Trust, Reported, Listed
<1>4. Remembered' /\ Held' = {}
  BY <1>2, EmptyOrder, BoundsAssumption DEF Remembered, Held
<1>5. Snapped'
  BY <1>1, <1>2, UnseenSnapped DEF IInv, Snapped, Unseen
<1> QED
  BY <1>3, <1>4, <1>5 DEF IInv, Typed

(* A new decision is made from a snapshot that shows what the stores hold; *)
(* the others stay, but for the oldest.                                    *)
LEMMA EvaluateKeeps == IInv /\ Evaluate => IInv'
<1> SUFFICES ASSUME IInv, Evaluate PROVE IInv'
  OBVIOUS
<1> DEFINE snap == IF snapshot = None THEN Materialised ELSE snapshot
<1>1. PICK t \in Target, profile \in Profile :
        /\ cacheOrder' = Entered(cacheOrder, << profile, t.key >>, MaxCached)
        /\ cached' = [d \in CacheKey |->
                        IF d \notin Members(cacheOrder') THEN None
                        ELSE IF d = << profile, t.key >> THEN Decide(t, profile, snap)
                        ELSE cached[d]]
  BY DEF Evaluate
<1>2. snapshot' = snap /\ UNCHANGED stores
  BY DEF Evaluate
<1>3. PICK m \in SUBSET Key : snap = Shot(m)
  <2>1. admin.marked \in SUBSET Key
    BY DEF IInv, Typed, Evidence, Admin
  <2> QED
    BY <2>1, MaterialisedShot DEF IInv, Typed, Snapped
<1> DEFINE new == << profile, t.key >>
           d == Decide(t, profile, Shot(m))
<1>4. new \in CacheKey /\ new[1] = profile /\ new[2] = t.key
  BY CacheKeys DEF CacheKey
<1>5. d \in Decision
  BY DecideType DEF IInv, Typed
<1> HIDE DEF snap, d
<1>6. /\ cacheOrder' \in Seq(CacheKey) /\ new \in Members(cacheOrder')
      /\ Members(cacheOrder') \subseteq Members(cacheOrder) \cup {new}
      /\ Len(cacheOrder') <= MaxCached
  <2>1. /\ MaxCached \in Nat /\ MaxCached > 0
        /\ cacheOrder \in Seq(CacheKey) /\ Len(cacheOrder) <= MaxCached
    BY BoundsAssumption DEF IInv, Typed, Remembered
  <2> HIDE DEF new
  <2> QED
    BY <1>1, <1>4, <2>1, EnteredOrder DEF new
<1>7. /\ cached'[new] = d
      /\ \A c \in CacheKey : c # new => cached'[c] \in {cached[c], None}
      /\ \A c \in CacheKey : c # new => (cached'[c] # None <=> c \in Members(cacheOrder'))
      /\ cached' \in [CacheKey -> Decision \cup {None}]
  <2>1. cached' = [c \in CacheKey |-> IF c \notin Members(cacheOrder') THEN None
                                      ELSE IF c = new THEN d ELSE cached[c]]
    BY <1>1, <1>3 DEF d
  <2>2. \A c \in Members(cacheOrder') : c # new => cached[c] # None
    BY <1>6 DEF IInv, Typed, Remembered, Held
  <2> HIDE DEF new
  <2> QED
    BY <1>4, <1>5, <1>6, <2>1, <2>2 DEF IInv, Typed, Remembered
<1>8. Evidence' /\ Reported' /\ Listed'
  BY <1>2 DEF stores, IInv, Typed, Evidence, Reported, Listed
<1>9. Remembered'
  <2>1. \A c \in CacheKey : cached'[c] # None <=> c \in Members(cacheOrder')
    BY <1>4, <1>5, <1>6, <1>7, InputAssumption
  <2>2. Members(cacheOrder') \subseteq CacheKey
    BY <1>4, <1>6 DEF IInv, Typed, Remembered, Held
  <2>3. Members(cacheOrder') = Held'
    BY <2>1, <2>2 DEF Held
  <2> QED
    BY <1>6, <1>7, <2>3 DEF Remembered
<1>10. Snapped'
  BY <1>2, <1>3 DEF Snapped, Shot, stores
<1>11. ASSUME NEW c \in Held' PROVE Remembers(c)'
  <2>1. c \in CacheKey /\ cached'[c] # None
    BY <1>11 DEF Held
  <2>2. CASE c = new
    <3>1. /\ \A p : Counts(p)' = Counts(p) /\ MutedBy(p, t.key)' = MutedBy(p, t.key)
          /\ Protected(t)' = Protected(t) /\ Denied(t)' = Denied(t) /\ Live(t.key)' = Live(t.key)
          /\ UNCHANGED << localPolicy, rootPolicy, trust, reporters >>
      BY <1>2 DEF Protected, Denied, Counts, MutedBy, Live, stores
    <3>2. /\ d.target = t /\ d.profile = profile
          /\ d.policy = EffectivePolicy(localPolicy, rootPolicy)
          /\ d.protected = Protected(t) /\ d.denied = Denied(t)
          /\ d.blocked = (Authors(t) \cap trust.blocks # {})
          /\ d.reporters = {p \in reporters[t.key] : Counts(p)}
          /\ d.muters = {p \in Pubkey : MutedBy(p, t.key) /\ Counts(p)}
          /\ d.overridden = Live(t.key)
      BY DecideShot DEF d
    <3>3. cached'[c] = d /\ c[1] = profile /\ c[2] = t.key
      BY <1>4, <1>7, <2>2
    <3> QED
      BY <3>1, <3>2, <3>3 DEF Remembers
  <2>3. CASE c # new
    <3>1. cached'[c] = cached[c] /\ c \in Held
      BY <1>7, <2>1, <2>3 DEF Held
    <3>2. Fades(c[2])
      BY <1>2 DEF Fades, MutedBy, Live, stores
    <3> QED
      BY <2>1, <3>1, <3>2, FadedRemembers DEF IInv
  <2> QED
    BY <2>2, <2>3
<1> QED
  BY <1>8, <1>9, <1>10, <1>11 DEF IInv, Typed

-----------------------------------------------------------------------------
LEMMA InitInvariant == Init => IInv
<1>1. Init => Snapped /\ Held = {}
  BY DEF Init, Snapped, Held
<1> QED
  BY <1>1, InitTyped DEF IInv

LEMMA NextInvariant == IInv /\ [Next]_vars => IInv'
<1> SUFFICES ASSUME IInv, [Next]_vars PROVE IInv'
  OBVIOUS
<1>1. CASE UNCHANGED vars
  BY <1>1
  DEF vars, IInv, Typed, Evidence, Reported, Listed, Remembered, Held, Snapped, Shot, Remembers,
      Protected, Denied, Counts, MutedBy, Live
<1> QED
  BY <1>1, AdminChangeKeeps, TrustChangeKeeps, IngestReportKeeps, ClearTargetKeeps,
     ReplaceListKeeps, PruneKeeps, PolicyChangeKeeps, OverrideKeeps, SetViewerKeeps, TickKeeps,
     EvaluateKeeps DEF Next

LEMMA Invariant == Spec => []IInv
BY InitInvariant, NextInvariant, PTL DEF Spec

(* The stores, the snapshot and the cache keep their types, their orders   *)
(* and their ceilings, whatever is ingested, evicted or evaluated.         *)
THEOREM TypeCorrect == Spec => []TypeOK
<1>1. IInv => TypeOK
  BY TypedIsTypeOK DEF IInv
<1> QED
  BY <1>1, Invariant, PTL

(* A memoised snapshot never falls behind the stores, but for community    *)
(* markers, for any stores and in any order of changes.                    *)
THEOREM SnapshotFollows == Spec => []SnapshotCurrent
<1>1. IInv => SnapshotCurrent
  BY SnappedIsCurrent DEF IInv, Typed
<1> QED
  BY <1>1, Invariant, PTL

(* A cached decision is stale only by what was evicted, aged or expired    *)
(* since it was made, for any profiles, ceilings and number of decisions.  *)
THEOREM StaleByMemoryOnly == Spec => []CacheOnlyRemembers
BY InvariantRemembers, Invariant, PTL

(* A report names its target, and no other decision goes.                  *)
THEOREM ReportsNarrow == Spec => ReportsInvalidateNarrowly
<1>1. IInv /\ [Next]_vars =>
        [ reporters' # reporters =>
            \E k \in Key : \A c \in CacheKey : c[2] # k => cached'[c] = cached[c] ]_vars
  <2> SUFFICES ASSUME IInv, Next, reporters' # reporters
               PROVE  \E k \in Key : \A c \in CacheKey : c[2] # k => cached'[c] = cached[c]
    OBVIOUS
  <2>1. IngestReport \/ ClearTarget
    BY DEF Next, AdminChange, TrustChange, ReplaceList, Prune, PolicyChange, SetOverride,
           RemoveOverride, SetViewer, Tick, Evaluate, stores
  <2>2. \E k \in Key : Invalidate({k}) \/ NoChange
    BY <2>1 DEF IngestReport, ClearTarget, IInv, Typed, Reported
  <2> QED
    BY <2>2 DEF Invalidate, NoChange
<1> QED
  BY <1>1, Invariant, PTL DEF Spec, ReportsInvalidateNarrowly
=============================================================================
