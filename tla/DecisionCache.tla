---------------------------- MODULE DecisionCache ----------------------------
(***************************************************************************)
(* The runtime's evidence stores, the snapshot it memoises from them and   *)
(* the decisions it caches (packages/runtime/src/runtime.js and stores.js).*)
(*                                                                         *)
(* A decision is a function of the policy and of the evidence the          *)
(* evaluator reads for one target, so here it IS that evidence: two        *)
(* decisions differ when something the evaluator was shown differs. Report *)
(* categories are left out (a reporter stands for a reporter and category, *)
(* the pair one report is counted by), and so is a target's own expiry.    *)
(*                                                                         *)
(* A JavaScript Map is a function with the order its keys were added in.   *)
(***************************************************************************)
EXTENDS Naturals, Sequences, FiniteSets

CONSTANTS
  Pubkey,            \* Accounts; a user target is its pubkey.
  Event,             \* Event targets.
  NoAuthor,          \* An event target that does not say who wrote it.
  Profile,           \* Policy profiles decisions are asked for under.
  DefaultPolicy,     \* The policy the runtime was constructed with.
  Policies,          \* Policies a root may publish or an application may pin.
  NoPolicy,          \* No root-published, or no local policy.
  None,              \* A value absent from a map.
  MaxCached,         \* maxCachedDecisions.
  MaxTargets,        \* maxReportTargets; 0 disables eviction.
  MaxLists,          \* maxMuteLists; 0 disables eviction.
  Window,            \* The mute window, of the profile and of the store.
  MaxTime,           \* Bound on the clock.
  Admins,            \* Administrative states the admin store may reach.
  Trusts,            \* Trust graphs: contacts, seeds, the viewer's blocks.
  Reports,           \* Pairs of a key and a pubkey that may report it.
  MuteLists,         \* Mute lists that may be published.
  Overrides          \* Pairs of a key and the time an override of it expires.

Key == Pubkey \cup Event

(* isValidTarget's targets: an event may or may not carry its author.      *)
Target ==
  [key : Pubkey, author : {NoAuthor}]
    \cup [key : Event, author : Pubkey \cup {NoAuthor}]

(* authorChain. *)
Authors(t) == IF t.key \in Pubkey THEN {t.key} ELSE {t.author} \ {NoAuthor}

Admin ==
  [denied : SUBSET Key, marked : SUBSET Key, protectedActors : SUBSET Pubkey]

Trust ==
  [contacts : SUBSET Pubkey, seeds : SUBSET Pubkey, blocks : SUBSET Pubkey]

(* TrustGraphStore.trustSet: real contacts when present, seeds otherwise.  *)
TrustSet(t) == IF t.contacts # {} THEN t.contacts ELSE t.seeds

Policy == Policies \cup {DefaultPolicy}

MuteList == [owner : Pubkey, updatedAt : Nat, entries : SUBSET Pubkey]

(* What the evaluator is shown of a target.                                *)
Decision ==
  [ target : Target, profile : Profile, policy : Policy, protected : BOOLEAN,
    denied : BOOLEAN, marked : BOOLEAN, blocked : BOOLEAN,
    reporters : SUBSET Pubkey, muters : SUBSET Pubkey, overridden : BOOLEAN ]

ASSUME BoundsAssumption ==
  MaxCached \in Nat \ {0} /\ MaxTargets \in Nat /\ MaxLists \in Nat
    /\ Window \in Nat /\ MaxTime \in Nat

ASSUME InputAssumption ==
  /\ Admins \subseteq Admin /\ Trusts \subseteq Trust /\ MuteLists \subseteq MuteList
  /\ Reports \subseteq Key \X Pubkey /\ Overrides \subseteq Key \X Nat
  /\ Pubkey \cap Event = {} /\ NoAuthor \notin Pubkey /\ NoPolicy \notin Policy
  /\ None \notin Nat \cup MuteList \cup Decision

VARIABLES
  admin,         \* What the evaluator reads of the admin store's state.
  trust,         \* What it reads of the trust store.
  reporters,     \* Key -> who reported it.
  reportOrder,   \* The reported keys, oldest first.
  lists,         \* Owner -> their mute list, or None.
  listOrder,     \* The owners, oldest first.
  rootPolicy, localPolicy,
  overrides,     \* Key -> when the viewer's override expires, or None.
  now,           \* The injected clock.
  snapshot,      \* cachedSnapshot, or None.
  cached,        \* << profile, key >> -> decision, or None.
  cacheOrder     \* The cached pairs, oldest first.

stores == << admin, trust, reporters, reportOrder, lists, listOrder,
             rootPolicy, localPolicy, overrides, now >>

vars == << admin, trust, reporters, reportOrder, lists, listOrder,
           rootPolicy, localPolicy, overrides, now, snapshot, cached, cacheOrder >>

CacheKey == Profile \X Key

(* PolicyStore.policy: local over root-published over default.             *)
EffectivePolicy(local, root) ==
  CASE local # NoPolicy -> local
    [] root # NoPolicy  -> root
    [] OTHER            -> DefaultPolicy

Init ==
  /\ admin = [denied |-> {}, marked |-> {}, protectedActors |-> {}]
  /\ trust = [contacts |-> {}, seeds |-> {}, blocks |-> {}]
  /\ reporters = [k \in Key |-> {}] /\ reportOrder = << >>
  /\ lists = [p \in Pubkey |-> None] /\ listOrder = << >>
  /\ rootPolicy = NoPolicy /\ localPolicy = NoPolicy
  /\ overrides = [k \in Key |-> None]
  /\ now = 0
  /\ snapshot = None
  /\ cached = [c \in CacheKey |-> None] /\ cacheOrder = << >>

-----------------------------------------------------------------------------
Members(order) == {order[i] : i \in DOMAIN order}

(* A fault: the oldest key is not pushed out.                              *)
EnteredUnbounded(order, k, max) ==
  IF k \in Members(order) THEN order ELSE Append(order, k)

(* A key set in a map of at most max entries (0: no ceiling) keeps its     *)
(* place, or goes last and pushes the oldest out.                          *)
Entered(order, k, max) ==
  LET longer == IF k \in Members(order) THEN order ELSE Append(order, k)
  IN  IF max > 0 /\ Len(longer) > max /\ Head(longer) # k THEN Tail(longer) ELSE longer

(* Keys are deleted from a map; the others keep their order.               *)
Without(order, gone) ==
  LET kept == {i \in DOMAIN order : order[i] \notin gone}
  IN  [n \in 1..Cardinality(kept) |->
         order[CHOOSE i \in kept : Cardinality({j \in kept : j <= i}) = n]]

(* Faults: the snapshot stays; every decision goes, whatever was named.    *)
InvalidateDecisionsOnly(keys) ==
  /\ UNCHANGED snapshot
  /\ cached' = [c \in CacheKey |-> IF c[2] \in keys THEN None ELSE cached[c]]
  /\ cacheOrder' = Without(cacheOrder, Profile \X keys)

InvalidateCoarsely(keys) ==
  snapshot' = None /\ cached' = [c \in CacheKey |-> None] /\ cacheOrder' = << >>

(* invalidateDecisions: the snapshot goes, and the decisions of the named  *)
(* keys under every profile.                                               *)
Invalidate(keys) ==
  /\ snapshot' = None
  /\ cached' = [c \in CacheKey |-> IF c[2] \in keys THEN None ELSE cached[c]]
  /\ cacheOrder' = Without(cacheOrder, Profile \X keys)

InvalidateAll == Invalidate(Key)

NoChange == UNCHANGED << snapshot, cached, cacheOrder >>

(* A fault: a change of the roster alone is not announced.                 *)
AnnouncesDenials(a) == a.denied # admin.denied

Announces(a) == a.denied # admin.denied \/ a.protectedActors # admin.protectedActors

(* GovernanceAdminStore announces a change of what serializeAdminState and *)
(* the authority hold; community markers are in neither.                   *)
AdminChange ==
  \E a \in Admins :
    /\ a # admin
    /\ admin' = a
    /\ IF Announces(a) THEN InvalidateAll ELSE NoChange
    /\ UNCHANGED << trust, reporters, reportOrder, lists, listOrder,
                    rootPolicy, localPolicy, overrides, now >>

(* setContacts, setSeeds, setBlocks: announced when something changed.     *)
TrustChange ==
  \E t \in Trusts :
    /\ t # trust
    /\ trust' = t
    /\ InvalidateAll
    /\ UNCHANGED << admin, reporters, reportOrder, lists, listOrder,
                    rootPolicy, localPolicy, overrides, now >>

(* ReportStore.ingest: a repeated report is dropped, or announced again if *)
(* it is newer; a new target may push out the oldest.                      *)
IngestReport ==
  \E k \in Key, p \in Pubkey :
    /\ << k, p >> \in Reports
    /\ reportOrder' = Entered(reportOrder, k, MaxTargets)
    /\ reporters' = [j \in Key |->
                       IF j \notin Members(reportOrder') THEN {}
                       ELSE reporters[j] \cup (IF j = k THEN {p} ELSE {})]
    /\ \/ Invalidate({k})
       \/ p \in reporters[k] /\ NoChange
    /\ UNCHANGED << admin, trust, lists, listOrder,
                    rootPolicy, localPolicy, overrides, now >>

(* ReportStore.clearTarget. *)
ClearTarget ==
  \E k \in Members(reportOrder) :
    /\ reportOrder' = Without(reportOrder, {k})
    /\ reporters' = [reporters EXCEPT ![k] = {}]
    /\ Invalidate({k})
    /\ UNCHANGED << admin, trust, lists, listOrder,
                    rootPolicy, localPolicy, overrides, now >>

Entries(owner) == IF lists[owner] = None THEN {} ELSE lists[owner].entries

(* TrustedMuteStore.replaceList: an older list is ignored; the old and the *)
(* new entries of the owner are named, those of an evicted owner are not.  *)
ReplaceList ==
  \E l \in MuteLists :
    /\ lists[l.owner] # None => lists[l.owner].updatedAt <= l.updatedAt
    /\ listOrder' = Entered(listOrder, l.owner, MaxLists)
    /\ lists' = [p \in Pubkey |->
                   IF p \notin Members(listOrder') THEN None
                   ELSE IF p = l.owner THEN l ELSE lists[p]]
    /\ Invalidate(Entries(l.owner) \cup l.entries)
    /\ UNCHANGED << admin, trust, reporters, reportOrder,
                    rootPolicy, localPolicy, overrides, now >>

(* TrustedMuteStore.prune drops the lists outside the window.              *)
Aged(l) == l # None /\ Window > 0 /\ l.updatedAt + Window < now

Prune ==
  LET pruned == {p \in Pubkey : Aged(lists[p])}
  IN  /\ pruned # {}
      /\ listOrder' = Without(listOrder, pruned)
      /\ lists' = [p \in Pubkey |-> IF p \in pruned THEN None ELSE lists[p]]
      /\ Invalidate(UNION {Entries(p) : p \in pruned})
      /\ UNCHANGED << admin, trust, reporters, reportOrder,
                      rootPolicy, localPolicy, overrides, now >>

(* PolicyStore.setRootPolicy and setLocalPolicy: announced when the policy *)
(* in effect changed.                                                      *)
PolicyChange ==
  /\ \/ rootPolicy' \in Policies \cup {NoPolicy} /\ UNCHANGED localPolicy
     \/ localPolicy' \in Policies \cup {NoPolicy} /\ UNCHANGED rootPolicy
  /\ IF EffectivePolicy(localPolicy', rootPolicy')
          # EffectivePolicy(localPolicy, rootPolicy)
       THEN InvalidateAll
       ELSE NoChange
  /\ UNCHANGED << admin, trust, reporters, reportOrder, lists, listOrder,
                  overrides, now >>

(* OverrideStore.set and remove. *)
SetOverride ==
  \E k \in Key, expiresAt \in {o[2] : o \in Overrides} :
    /\ << k, expiresAt >> \in Overrides
    /\ overrides' = [overrides EXCEPT ![k] = expiresAt]
    /\ Invalidate({k})
    /\ UNCHANGED << admin, trust, reporters, reportOrder, lists, listOrder,
                    rootPolicy, localPolicy, now >>

RemoveOverride ==
  \E k \in Key :
    /\ overrides[k] # None
    /\ overrides' = [overrides EXCEPT ![k] = None]
    /\ Invalidate({k})
    /\ UNCHANGED << admin, trust, reporters, reportOrder, lists, listOrder,
                    rootPolicy, localPolicy, now >>

(* setViewer: the decisions go at once; the snapshot only if the cleared   *)
(* contacts and blocks, or the cleared overrides, were a change.           *)
SetViewer ==
  LET noOverride == [k \in Key |-> None]
  IN  /\ trust' = [trust EXCEPT !.contacts = {}, !.blocks = {}]
      /\ overrides' = noOverride
      /\ snapshot' = IF trust' # trust \/ overrides # noOverride THEN None ELSE snapshot
      /\ cached' = [c \in CacheKey |-> None]
      /\ cacheOrder' = << >>
      /\ UNCHANGED << admin, reporters, reportOrder, lists, listOrder,
                      rootPolicy, localPolicy, now >>

Tick ==
  /\ now < MaxTime
  /\ now' = now + 1
  /\ NoChange
  /\ UNCHANGED << admin, trust, reporters, reportOrder, lists, listOrder,
                  rootPolicy, localPolicy, overrides >>

-----------------------------------------------------------------------------
(* What snapshot() would materialise from the stores now.                  *)
Materialised ==
  [admin |-> admin, trustSet |-> TrustSet(trust), reporters |-> reporters, lists |-> lists]

(* isCountableSignal: trusted, not blocked, not denied.                    *)
Countable(signers, snap, blocks) ==
  {p \in signers : p \in snap.trustSet /\ p \notin blocks /\ p \notin snap.admin.denied}

(* evaluateTarget, up to what it is shown: a protected author is never     *)
(* denied, an event inherits its author's denial, and the community marker *)
(* is looked up by the target's own key.                                   *)
Decide(t, profile, snap) ==
  LET protected == Authors(t) \cap snap.admin.protectedActors # {}
      denied == ~protected /\ ({t.key} \cup Authors(t)) \cap snap.admin.denied # {}
      muters == { p \in Pubkey :
                    /\ snap.lists[p] # None
                    /\ t.key \in snap.lists[p].entries
                    /\ ~(Window > 0 /\ snap.lists[p].updatedAt + Window < now) }
  IN  [ target     |-> t,
        profile    |-> profile,
        policy     |-> EffectivePolicy(localPolicy, rootPolicy),
        protected  |-> protected,
        denied     |-> denied,
        marked     |-> denied /\ t.key \in snap.admin.marked,
        blocked    |-> Authors(t) \cap trust.blocks # {},
        reporters  |-> Countable(snap.reporters[t.key], snap, trust.blocks),
        muters     |-> Countable(muters, snap, trust.blocks),
        overridden |-> overrides[t.key] # None /\ overrides[t.key] > now ]

(* evaluate: the pair's decision if one is cached, whoever wrote the       *)
(* target that asks; else one from the memoised snapshot, cached.          *)
Evaluate ==
  \E t \in Target, profile \in Profile :
    LET c == << profile, t.key >>
        snap == IF snapshot = None THEN Materialised ELSE snapshot
    IN  /\ cached[c] = None
        /\ snapshot' = snap
        /\ cacheOrder' = Entered(cacheOrder, c, MaxCached)
        /\ cached' = [d \in CacheKey |->
                        IF d \notin Members(cacheOrder') THEN None
                        ELSE IF d = c THEN Decide(t, profile, snap) ELSE cached[d]]
        /\ UNCHANGED stores

Next ==
  \/ AdminChange    \/ TrustChange
  \/ IngestReport   \/ ClearTarget
  \/ ReplaceList    \/ Prune
  \/ PolicyChange
  \/ SetOverride    \/ RemoveOverride
  \/ SetViewer      \/ Tick
  \/ Evaluate

Spec == Init /\ [][Next]_vars

-----------------------------------------------------------------------------
Held == {c \in CacheKey : cached[c] # None}

(* The variables have their types; the maps and their orders agree, and    *)
(* none outgrows its ceiling.                                              *)
TypeOK ==
  /\ admin \in Admin /\ trust \in Trust /\ now \in 0..MaxTime
  /\ reporters \in [Key -> SUBSET Pubkey]
  /\ Members(reportOrder) = {k \in Key : reporters[k] # {}}
  /\ MaxTargets > 0 => Len(reportOrder) <= MaxTargets
  /\ lists \in [Pubkey -> MuteList \cup {None}]
  /\ Members(listOrder) = {p \in Pubkey : lists[p] # None}
  /\ MaxLists > 0 => Len(listOrder) <= MaxLists
  /\ {rootPolicy, localPolicy} \subseteq Policies \cup {NoPolicy}
  /\ \A k \in Key : overrides[k] \in Nat \cup {None}
  /\ cached \in [CacheKey -> Decision \cup {None}]
  /\ Members(cacheOrder) = Held /\ Len(cacheOrder) <= MaxCached

(* The memoised snapshot is what the stores would give now, except for the *)
(* community markers, whose change is not announced.                       *)
SnapshotCurrent ==
  snapshot # None =>
    [snapshot EXCEPT !.admin.marked = {}] = [Materialised EXCEPT !.admin.marked = {}]

(* A cached decision is stale only by remembering: it knows the policy in  *)
(* effect, the denials, the protections and the blocks, every report and   *)
(* mute that counts now and every live override. What it may still hold is *)
(* evidence that was evicted, aged or expired since.                       *)
CacheOnlyRemembers ==
  \A c \in Held :
    LET held == cached[c]
        fresh == Decide(held.target, held.profile, Materialised)
    IN  /\ held.target.key = c[2] /\ held.profile = c[1]
        /\ held.policy = fresh.policy
        /\ held.protected = fresh.protected
        /\ held.denied = fresh.denied
        /\ held.blocked = fresh.blocked
        /\ fresh.reporters \subseteq held.reporters
        /\ fresh.muters \subseteq held.muters
        /\ fresh.overridden => held.overridden

(* A report costs no decision about another target: "updating one report   *)
(* invalidates only that target's decisions" (docs/checkpoints.md).        *)
ReportsInvalidateNarrowly ==
  [][reporters' # reporters =>
       \E k \in Key : \A c \in CacheKey : c[2] # k => cached'[c] = cached[c]]_vars
=============================================================================
