-------------------------- MODULE AdminStoreProofs ---------------------------
(***************************************************************************)
(* Proofs about AdminStore, for any actors, rosters, documents, labels and *)
(* snapshots. Every operation of the store is one of three kinds of step:  *)
(* a new roster, documents stored, or both parts replaced. The inductive   *)
(* invariant is proved for the three kinds, then for the operations. Under *)
(* it each kind of step is one of Governance, which the store implements.  *)
(***************************************************************************)
EXTENDS AdminStore, TLAPS

(* What #recompute establishes whatever came before it. *)
Derived ==
  /\ state = ReduceAdminState(contributions, authority)
  /\ fingerprint = SerializeAdminState(state)
  /\ authorityFingerprint = authority
  /\ ListenersCurrent

IInv == TypeOK /\ Derived /\ NewestKept

(* The kinds of step. *)
RosterStep ==
  \E roster \in Roster : SetRoles(roster)

UpsertStep ==
  \E docs \in SUBSET Contribution, offered \in SUBSET Contribution :
    /\ OnePerSlot(docs)
    /\ docs \subseteq offered
    /\ \A d \in offered : \E c \in docs : Stamp(c) = Stamp(d)
    /\ Upsert(docs, offered)

ReplaceStep ==
  \E roster \in Roster, docs \in SUBSET Contribution :
    /\ docs \in {s.contributions : s \in Snapshots}
    /\ OnePerSlot(docs)
    /\ Replace(roster, docs)

-----------------------------------------------------------------------------
(* DEFAULT_ROLE_CAPABILITIES grants known capabilities only. *)
LEMMA DefaultRolesType == DefaultRoles \in [RoleName -> SUBSET Capability]
  BY DEF DefaultRoles, RoleName, Capability

(* A normalised roster is a roster. *)
LEMMA CreateAuthorityType ==
  ASSUME NEW roster \in Roster
  PROVE  CreateAuthorityState(roster) \in Roster
<1>1. {roster.root} \ {NoActor} \subseteq Actor
  BY DEF Roster
<1>2. roster.protectedActors \cup ({roster.root} \ {NoActor}) \in SUBSET Actor
  BY <1>1 DEF Roster
<1>3. QED
  BY <1>2 DEF CreateAuthorityState, Roster

(* The reduced state names targets of each kind's type only. *)
LEMMA ReduceType ==
  ASSUME NEW docs \in SUBSET Contribution, NEW auth \in Roster
  PROVE  SerializeAdminState(ReduceAdminState(docs, auth)) \in AdminStateType
<1> DEFINE Named(k) == Granted(k, docs, auth)
<1>1. ASSUME NEW k \in Kind
      PROVE  Named(k) \subseteq KindTargets[k]
  BY DEF Granted, EffectiveTargets
<1>2. /\ KindTargets["user-allow"] = Actor /\ KindTargets["user-deny"] = Actor
      /\ KindTargets["event-deny"] = Event /\ KindTargets["address-deny"] = Address
      /\ KindTargets["trust-seed"] = Actor
  BY DEF KindTargets, Kind
<1>3. /\ Named("user-allow") \subseteq Actor /\ Named("user-deny") \subseteq Actor
      /\ Named("event-deny") \subseteq Event /\ Named("address-deny") \subseteq Address
      /\ Named("trust-seed") \subseteq Actor
  BY <1>1, <1>2 DEF Kind
<1>4. QED
  BY <1>3 DEF SerializeAdminState, ReduceAdminState, AdminStateType

(* Recomputing from any well-typed roster and documents establishes what   *)
(* is derived, and announces it if it differs from what was announced.     *)
LEMMA RecomputeDerives ==
  ASSUME Derived, Recompute
  PROVE  Derived'
<1>1. CASE Changed(state', authority')
  BY <1>1 DEF Derived, Recompute, ListenersCurrent
<1>2. CASE ~Changed(state', authority')
  <2>1. announced' = View(state, authority)
    BY <1>2 DEF Derived, Recompute, ListenersCurrent
  <2>2. View(state', authority') = View(state, authority)
    BY <1>2 DEF Derived, Changed, View
  <2>3. QED
    BY <2>1, <2>2 DEF Derived, Recompute, ListenersCurrent
<1>3. QED
  BY <1>1, <1>2

(* Storing documents keeps one per slot. *)
LEMMA UpsertedOnePerSlot ==
  ASSUME NEW stored \in SUBSET Contribution, OnePerSlot(stored),
         NEW docs \in SUBSET Contribution, OnePerSlot(docs)
  PROVE  /\ Upserted(stored, docs) \in SUBSET Contribution
         /\ OnePerSlot(Upserted(stored, docs))
<1>1. Upserted(stored, docs) \in SUBSET Contribution
  BY DEF Upserted
<1>2. ASSUME NEW c \in Upserted(stored, docs), NEW d \in Upserted(stored, docs),
             SameSlot(c, d)
      PROVE  c = d
  <2>1. c.createdAt \in Nat /\ d.createdAt \in Nat
    BY <1>1 DEF Contribution
  <2>2. SameSlot(d, c)
    BY <1>2 DEF SameSlot
  <2>3. CASE c \in stored /\ d \in stored
    BY <2>3, <1>2 DEF OnePerSlot
  <2>4. CASE c \in docs /\ d \in docs
    BY <2>4, <1>2 DEF OnePerSlot
  <2>5. CASE c \in stored /\ c \notin docs /\ d \in docs /\ d \notin stored
    BY <2>5, <2>1, <2>2, <1>2 DEF Upserted, Superseded, Outdated
  <2>6. CASE c \in docs /\ c \notin stored /\ d \in stored /\ d \notin docs
    BY <2>6, <2>1, <2>2, <1>2 DEF Upserted, Superseded, Outdated
  <2>7. QED
    BY <2>3, <2>4, <2>5, <2>6 DEF Upserted
<1>3. QED
  BY <1>1, <1>2 DEF OnePerSlot

(* After documents are stored every slot keeps a newest document offered.  *)
LEMMA UpsertKeepsNewest ==
  ASSUME TypeOK, NewestKept, UpsertStep
  PROVE  NewestKept'
<1>1. PICK docs \in SUBSET Contribution, offered \in SUBSET Contribution :
        /\ OnePerSlot(docs)
        /\ docs \subseteq offered
        /\ \A d \in offered : \E c \in docs : Stamp(c) = Stamp(d)
        /\ Upsert(docs, offered)
  BY DEF UpsertStep
<1>2. /\ contributions' = Upserted(contributions, docs)
      /\ delivered' = delivered \cup {Stamp(c) : c \in offered}
      /\ contributions \subseteq Contribution
      /\ delivered \in SUBSET [actor : Actor, kind : Kind, createdAt : Nat]
  BY <1>1 DEF Upsert, TypeOK
<1>3. {Stamp(c) : c \in offered} = {Stamp(c) : c \in docs}
  BY <1>1
<1>4. \A c \in Contribution : c.createdAt \in Nat
  BY DEF Contribution
<1>5. \A c \in Contribution : \A d : SameSlot(c, Stamp(d)) <=> SameSlot(c, d)
  BY DEF SameSlot, Stamp
<1>6. \A d : Stamp(d).createdAt = d.createdAt
  BY DEF Stamp
<1>7. ASSUME NEW d \in delivered'
      PROVE  \E c \in contributions' : SameSlot(c, d)
  <2>1. CASE \E b \in docs : d = Stamp(b)
    <3>1. PICK b \in docs : d = Stamp(b)
      BY <2>1
    <3>2. CASE \A c \in contributions : ~Outdated(b, c)
      <4>1. b \in contributions' /\ SameSlot(b, d)
        BY <3>1, <3>2, <1>2 DEF Upserted, SameSlot, Stamp
      <4>2. QED
        BY <4>1
    <3>3. CASE \E c \in contributions : Outdated(b, c)
      <4>1. PICK c \in contributions : Outdated(b, c)
        BY <3>3
      <4>2. ASSUME NEW a \in docs
            PROVE  ~Superseded(c, a)
        <5>1. SameSlot(c, a) => a = b
          BY <4>1, <1>1 DEF Outdated, SameSlot, OnePerSlot
        <5>2. a \in Contribution /\ b \in Contribution /\ c \in Contribution
          BY <1>2
        <5>3. QED
          BY <5>1, <5>2, <4>1, <1>4 DEF Outdated, Superseded
      <4>3. c \in contributions' /\ SameSlot(c, d)
        BY <4>1, <4>2, <3>1, <1>2 DEF Upserted, Outdated, SameSlot, Stamp
      <4>4. QED
        BY <4>3
    <3>4. QED
      BY <3>2, <3>3
  <2>2. CASE d \in delivered
    <3>1. PICK c \in contributions : SameSlot(c, d)
      BY <2>2 DEF NewestKept
    <3>2. CASE \A b \in docs : ~Superseded(c, b)
      <4>1. c \in contributions'
        BY <3>2, <1>2 DEF Upserted
      <4>2. QED
        BY <3>1, <4>1
    <3>3. CASE \E b \in docs : Superseded(c, b)
      <4>1. PICK b \in docs : Superseded(c, b)
        BY <3>3
      <4>2. ASSUME NEW a \in contributions
            PROVE  ~Outdated(b, a)
        <5>1. SameSlot(b, a) => a = c
          BY <4>1 DEF Superseded, SameSlot, OnePerSlot, TypeOK
        <5>2. b \in Contribution /\ c \in Contribution
          BY <1>2
        <5>3. QED
          BY <5>1, <5>2, <4>1, <1>4 DEF Outdated, Superseded
      <4>3. b \in contributions' /\ SameSlot(b, d)
        BY <4>1, <4>2, <3>1, <1>2 DEF Upserted, Superseded, SameSlot
      <4>4. QED
        BY <4>3
    <3>4. QED
      BY <3>2, <3>3
  <2>3. QED
    BY <2>1, <2>2, <1>2, <1>3
<1>8. ASSUME NEW c \in contributions'
      PROVE  Stamp(c) \in delivered'
  BY <1>2, <1>3 DEF Upserted, NewestKept
<1>9. ASSUME NEW c \in contributions', NEW d \in delivered', SameSlot(c, d)
      PROVE  d.createdAt <= c.createdAt
  <2>1. c \in Contribution /\ c.createdAt \in Nat /\ d.createdAt \in Nat
    <3>1. c \in Contribution
      BY <1>2 DEF Upserted
    <3>2. delivered' \subseteq [actor : Actor, kind : Kind, createdAt : Nat]
      BY <1>2, <1>3 DEF Stamp, Contribution
    <3>3. QED
      BY <3>1, <3>2, <1>4
  <2>2. CASE d \in delivered /\ c \in contributions
    BY <2>2, <1>9 DEF NewestKept
  <2>3. CASE d \in delivered /\ c \notin contributions
    <3>1. c \in docs /\ \A a \in contributions : ~Outdated(c, a)
      BY <2>3, <1>2 DEF Upserted
    <3>2. PICK a \in contributions : SameSlot(a, d)
      BY <2>3 DEF NewestKept
    <3>3. d.createdAt <= a.createdAt /\ a.createdAt \in Nat
      BY <3>2, <2>3, <1>2, <1>4 DEF NewestKept
    <3>4. SameSlot(c, a)
      BY <3>2, <1>9 DEF SameSlot
    <3>5. a.createdAt <= c.createdAt
      BY <3>1, <3>3, <3>4, <2>1 DEF Outdated
    <3>6. QED
      BY <3>3, <3>5, <2>1
  <2>4. CASE \E b \in docs : d = Stamp(b)
    <3>1. PICK b \in docs : d = Stamp(b)
      BY <2>4
    <3>2. SameSlot(c, b) /\ d.createdAt = b.createdAt
      BY <3>1, <1>9 DEF SameSlot, Stamp
    <3>3. CASE c \in docs
      BY <3>2, <3>3, <2>1, <1>1 DEF OnePerSlot
    <3>4. CASE c \notin docs
      <4>1. ~Superseded(c, b)
        BY <3>4, <1>2 DEF Upserted
      <4>2. QED
        BY <4>1, <3>2, <2>1 DEF Superseded
    <3>5. QED
      BY <3>3, <3>4
  <2>5. QED
    BY <2>2, <2>3, <2>4, <1>2, <1>3
<1>10. QED
  BY <1>7, <1>8, <1>9 DEF NewestKept

(* Types of what #recompute computes, from the types of what it reads. *)
LEMMA RecomputeType ==
  ASSUME authority' \in Roster, contributions' \in SUBSET Contribution,
         TypeOK, Recompute
  PROVE  /\ fingerprint' \in AdminStateType
         /\ SerializeAdminState(state') \in AdminStateType
         /\ authorityFingerprint' \in Roster
         /\ announced' \in [admin : AdminStateType, authority : Roster]
<1>1. SerializeAdminState(state') \in AdminStateType
  BY ReduceType DEF Recompute
<1>2. QED
  BY <1>1 DEF Recompute, View, TypeOK

-----------------------------------------------------------------------------
(* A new roster preserves the invariant. *)
LEMMA RosterStepInv ==
  ASSUME IInv, RosterStep
  PROVE  IInv'
<1>1. PICK roster \in Roster : SetRoles(roster)
  BY DEF RosterStep
<1>2. authority' \in Roster
  BY <1>1, CreateAuthorityType DEF SetRoles
<1>3. /\ contributions' = contributions /\ delivered' = delivered
      /\ Recompute /\ TypeOK /\ contributions' \in SUBSET Contribution
  BY <1>1 DEF SetRoles, IInv, TypeOK
<1>4. TypeOK'
  BY <1>2, <1>3, RecomputeType DEF TypeOK
<1>5. Derived'
  BY <1>3, RecomputeDerives DEF IInv
<1>6. NewestKept'
  BY <1>3 DEF IInv, NewestKept
<1>7. QED
  BY <1>4, <1>5, <1>6 DEF IInv

(* Storing documents preserves the invariant. *)
LEMMA UpsertStepInv ==
  ASSUME IInv, UpsertStep
  PROVE  IInv'
<1>1. PICK docs \in SUBSET Contribution, offered \in SUBSET Contribution :
        OnePerSlot(docs) /\ Upsert(docs, offered)
  BY DEF UpsertStep
<1>2. TypeOK /\ Recompute /\ authority' = authority
  BY <1>1 DEF Upsert, IInv
<1>3. contributions' \in SUBSET Contribution /\ OnePerSlot(contributions')
  BY <1>1, UpsertedOnePerSlot DEF Upsert, IInv, TypeOK
<1>4. delivered' \in SUBSET [actor : Actor, kind : Kind, createdAt : Nat]
  BY <1>1 DEF Upsert, IInv, TypeOK, Stamp, Contribution
<1>5. authority' \in Roster
  BY <1>2 DEF TypeOK
<1>6. TypeOK'
  BY <1>2, <1>3, <1>4, <1>5, RecomputeType DEF TypeOK
<1>7. Derived'
  BY <1>2, RecomputeDerives DEF IInv
<1>8. NewestKept'
  BY UpsertKeepsNewest DEF IInv
<1>9. QED
  BY <1>6, <1>7, <1>8 DEF IInv

(* So does the replacement of both parts. *)
LEMMA ReplaceStepInv ==
  ASSUME IInv, ReplaceStep
  PROVE  IInv'
<1>1. PICK roster \in Roster, docs \in SUBSET Contribution :
        OnePerSlot(docs) /\ Replace(roster, docs)
  BY DEF ReplaceStep
<1>2. [roster EXCEPT !.roles = DefaultRoles] \in Roster
  BY DefaultRolesType DEF Roster
<1>3. authority' \in Roster
  BY <1>1, <1>2, CreateAuthorityType DEF Replace
<1>4. TypeOK /\ Recompute /\ contributions' = docs
      /\ delivered' = {Stamp(c) : c \in docs}
  BY <1>1 DEF Replace, IInv
<1>5. delivered' \in SUBSET [actor : Actor, kind : Kind, createdAt : Nat]
  BY <1>4 DEF Stamp, Contribution
<1>6. TypeOK'
  BY <1>1, <1>3, <1>4, <1>5, RecomputeType DEF TypeOK
<1>7. Derived'
  BY <1>4, RecomputeDerives DEF IInv
<1>8. NewestKept'
  <2>1. ASSUME NEW d \in delivered'
        PROVE  \E c \in contributions' : SameSlot(c, d)
    BY <1>4 DEF SameSlot, Stamp
  <2>2. ASSUME NEW c \in contributions', NEW d \in delivered', SameSlot(c, d)
        PROVE  d.createdAt <= c.createdAt
    <3>1. PICK b \in docs : d = Stamp(b)
      BY <1>4
    <3>2. b = c
      BY <1>1, <1>4, <2>2, <3>1 DEF OnePerSlot, SameSlot, Stamp
    <3>3. QED
      BY <1>4, <3>1, <3>2 DEF Stamp, Contribution
  <2>3. QED
    BY <1>4, <2>1, <2>2 DEF NewestKept
<1>9. QED
  BY <1>6, <1>7, <1>8 DEF IInv

-----------------------------------------------------------------------------
(* The contributions a label gives are documents, and those that remain    *)
(* of them stand for all of them.                                          *)
LEMMA LabelStep ==
  ASSUME NEW l \in Labels, IngestLabel(l)
  PROVE  UpsertStep
<1>1. PICK last \in [LabelKinds(l) -> Target] :
        /\ \A k \in LabelKinds(l) : last[k] \in LabelTargets(l, k)
        /\ Upsert({LabelContribution(l, k, last[k]) : k \in LabelKinds(l)},
                  LabelContributions(l))
  BY DEF IngestLabel
<1> DEFINE docs == {LabelContribution(l, k, last[k]) : k \in LabelKinds(l)}
<1>2. l \in Label
  BY InputAssumption
<1>3. ASSUME NEW k \in Kind
      PROVE  LabelTargets(l, k) \subseteq Target
  BY <1>2 DEF LabelTargets, Label, Target
<1>4. ASSUME NEW k \in Kind, NEW t \in Target
      PROVE  LabelContribution(l, k, t) \in Contribution
  BY <1>2 DEF LabelContribution, Label, Contribution
<1>5. docs \in SUBSET Contribution
  BY <1>1, <1>4 DEF LabelKinds
<1>6. LabelContributions(l) \in SUBSET Contribution
  BY <1>3, <1>4 DEF LabelContributions
<1>7. OnePerSlot(docs)
  BY DEF OnePerSlot, SameSlot, LabelContribution
<1>8. docs \subseteq LabelContributions(l)
  BY <1>1 DEF LabelKinds, LabelContributions
<1>9. ASSUME NEW d \in LabelContributions(l)
      PROVE  \E c \in docs : Stamp(c) = Stamp(d)
  <2>1. PICK k \in Kind :
          \E t \in LabelTargets(l, k) : d = LabelContribution(l, k, t)
    BY DEF LabelContributions
  <2>2. k \in LabelKinds(l)
    BY <2>1 DEF LabelKinds
  <2>3. Stamp(LabelContribution(l, k, last[k])) = Stamp(d)
    BY <2>1 DEF Stamp, LabelContribution
  <2>4. QED
    BY <2>2, <2>3
<1>10. QED
  BY <1>1, <1>5, <1>6, <1>7, <1>8, <1>9 DEF UpsertStep

(* A single document offered is a step that stores documents. *)
LEMMA SingleStep ==
  ASSUME NEW c \in Contribution, Upsert({c}, {c})
  PROVE  UpsertStep
  BY DEF UpsertStep, OnePerSlot

(* Every operation is a step of one of the three kinds. *)
LEMMA StepKinds ==
  ASSUME TypeOK, Next
  PROVE  RosterStep \/ UpsertStep \/ ReplaceStep
<1>1. CASE IngestRoles
  <2>1. PICK author \in Actor, doc \in RolesDocuments :
          SetRoles(DecodedRoles(author, doc))
    BY <1>1 DEF IngestRoles, IngestRolesDocument
  <2>2. DecodedRoles(author, doc) \in Roster
    BY DefaultRolesType, InputAssumption DEF DecodedRoles, Roster, RolesDocument
  <2>3. QED
    BY <2>1, <2>2 DEF RosterStep
<1>2. CASE IngestContribution
  BY <1>2, SingleStep, InputAssumption DEF IngestContribution
<1>3. CASE IngestLabels
  BY <1>3, LabelStep DEF IngestLabels
<1>4. CASE LoadCommunitySource
  <2>1. PICK c \in Documents, source \in Source :
          Upsert({[c EXCEPT !.source = source]}, {[c EXCEPT !.source = source]})
    BY <1>4 DEF LoadCommunitySource
  <2>2. [c EXCEPT !.source = source] \in Contribution
    BY InputAssumption DEF Contribution
  <2>3. QED
    BY <2>1, <2>2, SingleStep
<1>5. CASE Hydrate
  <2>1. PICK s \in Snapshots :
          Replace([s.authority EXCEPT !.root = IF ConfiguredRoot # NoActor
                                                 THEN ConfiguredRoot ELSE @],
                  s.contributions)
    BY <1>5 DEF Hydrate
  <2>2. [s.authority EXCEPT !.root = IF ConfiguredRoot # NoActor
                                       THEN ConfiguredRoot ELSE @] \in Roster
    BY SnapshotAssumption, ConfigAssumption DEF Roster
  <2>3. QED
    BY <2>1, <2>2, SnapshotAssumption DEF ReplaceStep
<1>6. CASE ImportState
  BY <1>6, SnapshotAssumption DEF ImportState, ReplaceStep
<1>7. CASE HostSetRoles
  BY <1>7, InputAssumption DEF HostSetRoles, RosterStep
<1>8. QED
  BY <1>1, <1>2, <1>3, <1>4, <1>5, <1>6, <1>7 DEF Next

-----------------------------------------------------------------------------
(* The initial state satisfies the invariant. *)
LEMMA InitInv == Init => IInv
<1> SUFFICES ASSUME Init PROVE IInv
  OBVIOUS
<1>1. authority \in Roster
  <2>1. RootRoster(ConfiguredRoot) \in Roster
    BY DefaultRolesType, ConfigAssumption DEF RootRoster, Roster, NoRoles
  <2>2. QED
    BY <2>1, CreateAuthorityType DEF Init
<1>2. SerializeAdminState(state) \in AdminStateType
  BY <1>1, ReduceType DEF Init
<1>3. TypeOK
  BY <1>1, <1>2 DEF Init, TypeOK, OnePerSlot, View
<1>4. Derived
  BY DEF Init, Derived, ListenersCurrent
<1>5. NewestKept
  BY DEF Init, NewestKept
<1>6. QED
  BY <1>3, <1>4, <1>5 DEF IInv

(* Every step preserves it. *)
LEMMA NextInv == IInv /\ [Next]_vars => IInv'
<1> SUFFICES ASSUME IInv, [Next]_vars PROVE IInv'
  OBVIOUS
<1>1. CASE Next
  BY <1>1, StepKinds, RosterStepInv, UpsertStepInv, ReplaceStepInv DEF IInv
<1>2. CASE UNCHANGED vars
  BY <1>2 DEF vars, IInv, TypeOK, Derived, ListenersCurrent, NewestKept
<1>3. QED
  BY <1>1, <1>2

(* The invariant holds throughout, so its parts do. *)
THEOREM Invariant == Spec => []IInv
  BY InitInv, NextInv, PTL DEF Spec

(* The variables keep their types, and the stored contributions stay one   *)
(* per author and kind.                                                    *)
THEOREM TypeCorrect == Spec => []TypeOK
<1>1. IInv => TypeOK
  BY DEF IInv
<1>2. QED
  BY <1>1, Invariant, PTL

(* However documents are ordered, every slot holds a newest one offered.   *)
THEOREM NewestWins == Spec => []NewestKept
<1>1. IInv => NewestKept
  BY DEF IInv
<1>2. QED
  BY <1>1, Invariant, PTL

(* A listener that redraws on "change" is never behind.                    *)
THEOREM NothingUnannounced == Spec => []ListenersCurrent
<1>1. IInv => ListenersCurrent
  BY DEF IInv, Derived
<1>2. QED
  BY <1>1, Invariant, PTL

-----------------------------------------------------------------------------
(* What the reduction denies, for any documents and authority: the targets *)
(* named in the denials of entitled authors, less the protected actors.    *)
LEMMA ReduceDenies ==
  ASSUME NEW docs \in SUBSET Contribution, NEW auth \in Roster, NEW t \in Target
  PROVE  IsDenied(t, ReduceAdminState(docs, auth)) <=>
           /\ \E c \in docs :
                /\ c.kind \in {"user-deny", "event-deny", "address-deny"}
                /\ t \in c.targets \cap KindTargets[c.kind]
                /\ HasCapability(c.actor, KindCapability[c.kind], auth)
           /\ t \notin auth.protectedActors
<1> DEFINE Denies(k) == t \in Granted(k, docs, auth)
<1>1. ASSUME NEW k \in Kind
      PROVE  Denies(k) <=>
               \E c \in docs : /\ c.kind = k
                              /\ t \in c.targets \cap KindTargets[c.kind]
                              /\ HasCapability(c.actor, KindCapability[c.kind], auth)
  BY DEF Granted, EffectiveTargets, Authorized
<1>2. /\ KindTargets["user-deny"] = Actor /\ KindTargets["event-deny"] = Event
      /\ KindTargets["address-deny"] = Address
  BY DEF KindTargets, Kind
<1>3. auth.protectedActors \subseteq Actor
  BY DEF Roster
<1>4. IsDenied(t, ReduceAdminState(docs, auth)) <=>
        \/ Denies("user-deny") /\ t \notin auth.protectedActors
        \/ Denies("event-deny")
        \/ Denies("address-deny")
  BY DEF IsDenied, ReduceAdminState
<1>5. Denies("event-deny") \/ Denies("address-deny") => t \notin auth.protectedActors
  <2>1. Denies("event-deny") => t \in Event
    BY <1>1, <1>2 DEF Kind
  <2>2. Denies("address-deny") => t \in Address
    BY <1>1, <1>2 DEF Kind
  <2>3. QED
    BY <2>1, <2>2, <1>3, TargetAssumption
<1> HIDE DEF Denies
<1>6. "user-deny" \in Kind /\ "event-deny" \in Kind /\ "address-deny" \in Kind
  BY DEF Kind
<1>7. Denies("user-deny") \/ Denies("event-deny") \/ Denies("address-deny") <=>
        \E c \in docs : /\ c.kind \in {"user-deny", "event-deny", "address-deny"}
                       /\ t \in c.targets \cap KindTargets[c.kind]
                       /\ HasCapability(c.actor, KindCapability[c.kind], auth)
  BY <1>1, <1>6
<1>8. QED
  BY <1>4, <1>5, <1>7

(* Revoking a capability takes its holder's denials out of force in the    *)
(* same step, and no roster or document ever puts a protected actor in.    *)
THEOREM AuthorityDecides == Spec => []DenialsFollowAuthority
<1>1. IInv => DenialsFollowAuthority
  <2> SUFFICES ASSUME IInv PROVE DenialsFollowAuthority
    OBVIOUS
  <2>1. /\ contributions \in SUBSET Contribution /\ authority \in Roster
        /\ state = ReduceAdminState(contributions, authority)
    BY DEF IInv, TypeOK, Derived
  <2>2. QED
    BY <2>1, ReduceDenies DEF DenialsFollowAuthority
<1>2. QED
  BY <1>1, Invariant, PTL

(* No document from a relay and no cache takes the configured root's place.*)
THEOREM RootKept == Spec => GoalpostsFixed
<1>1. [Next]_vars =>
        [ConfiguredRoot # NoActor /\ authority' # authority /\ ~HostStep
           => authority'.root = ConfiguredRoot]_vars
  <2> SUFFICES ASSUME Next, ConfiguredRoot # NoActor, authority' # authority,
                      ~HostStep
               PROVE  authority'.root = ConfiguredRoot
    BY DEF vars
  <2>1. CASE IngestRoles
    <3>1. PICK author \in Actor, doc \in RolesDocuments :
            author = RootKey /\ SetRoles(DecodedRoles(author, doc))
      BY <2>1 DEF IngestRoles, IngestRolesDocument
    <3>2. author = ConfiguredRoot
      BY <3>1 DEF RootKey
    <3>3. QED
      BY <3>1, <3>2 DEF SetRoles, CreateAuthorityState, DecodedRoles
  <2>2. CASE Hydrate
    <3>1. PICK s \in Snapshots :
            Replace([s.authority EXCEPT !.root = ConfiguredRoot], s.contributions)
      BY <2>2 DEF Hydrate
    <3>2. [s.authority EXCEPT !.root = ConfiguredRoot] \in Roster
      BY SnapshotAssumption, ConfigAssumption DEF Roster
    <3>3. QED
      BY <3>1, <3>2, SnapshotAssumption
      DEF Replace, CreateAuthorityState, Roster
  <2>3. CASE IngestContribution \/ IngestLabels \/ LoadCommunitySource
    BY <2>3 DEF IngestContribution, IngestLabels, IngestLabel,
                LoadCommunitySource, Upsert
  <2>4. QED
    BY <2>1, <2>2, <2>3 DEF Next, HostStep
<1>2. QED
  BY <1>1, PTL DEF Spec, GoalpostsFixed

-----------------------------------------------------------------------------
(* AdminStore implements Governance, for any actors, rosters, documents,   *)
(* labels and snapshots. The store's inductive invariant says that its     *)
(* state is the reduction of its documents under its authority, and that a *)
(* slot has one document; with it each of the three kinds of step above is *)
(* one of Governance's.                                                    *)

(* The registers and the ruling that the refinement reads off a store.     *)
Registers(docs) ==
  [s \in Actor \X Kind |-> {c \in docs : << c.actor, c.kind >> = s}]

Denied(reduced) == {t \in Target : IsDenied(t, reduced)}

(* Governance speaks of the same targets, slots and entitlements.          *)
LEMMA SameTerms ==
  /\ G!Target = Target /\ G!Slot = Actor \X Kind
  /\ \A c : G!EffectiveTargets(c) = EffectiveTargets(c)
  /\ \A c, auth : G!Authorized(c, auth) = Authorized(c, auth)
  /\ \A docs : G!Filed(docs) = Registers(docs)
<1>1. G!Target = Target
  BY DEF G!Target, Target
<1>2. G!Kind = Kind
  BY DEF G!Kind, Kind
<1>3. G!Slot = Actor \X Kind
  BY <1>2 DEF G!Slot
<1>4. G!KindTargets = KindTargets
  BY <1>2 DEF G!KindTargets, KindTargets
<1>5. G!KindCapability = KindCapability
  BY <1>2 DEF G!KindCapability, KindCapability
<1>6. \A a, capability, auth :
        G!HasCapability(a, capability, auth) = HasCapability(a, capability, auth)
  BY DEF G!HasCapability, HasCapability, G!ActorCapabilities, ActorCapabilities,
         G!Capability, Capability
<1>7. \A c : G!EffectiveTargets(c) = EffectiveTargets(c)
  BY <1>4 DEF G!EffectiveTargets, EffectiveTargets
<1>8. \A c, auth : G!Authorized(c, auth) = Authorized(c, auth)
  BY <1>5, <1>6 DEF G!Authorized, Authorized
<1>9. \A docs : G!Filed(docs) = Registers(docs)
  BY <1>3 DEF G!Filed, Registers
<1>10. QED
  BY <1>1, <1>3, <1>7, <1>8, <1>9

(* The denials of a reduced state are the ruling of its registers.         *)
LEMMA ReductionRules ==
  ASSUME NEW docs \in SUBSET Contribution, NEW auth \in Roster
  PROVE  Denied(ReduceAdminState(docs, auth)) = G!Ruling(auth, Registers(docs))
<1>1. ASSUME NEW t \in Target
      PROVE  IsDenied(t, ReduceAdminState(docs, auth)) <=>
               t \in G!Ruling(auth, Registers(docs))
  <2> DEFINE Names(c) == /\ c.kind \in {"user-deny", "event-deny", "address-deny"}
                        /\ t \in EffectiveTargets(c) /\ Authorized(c, auth)
  <2>1. IsDenied(t, ReduceAdminState(docs, auth)) <=>
          (\E c \in docs : Names(c)) /\ t \notin auth.protectedActors
    BY ReduceDenies DEF EffectiveTargets, Authorized
  <2>2. t \in G!Ruling(auth, Registers(docs)) <=>
          /\ t \notin auth.protectedActors
          /\ \E s \in Actor \X Kind : \E c \in Registers(docs)[s] : Names(c)
    BY SameTerms DEF G!Ruling
  <2> HIDE DEF Names
  <2>3. (\E s \in Actor \X Kind : \E c \in Registers(docs)[s] : Names(c)) <=>
          \E c \in docs : Names(c)
    <3>1. ASSUME NEW c \in docs, Names(c)
          PROVE  \E s \in Actor \X Kind : \E d \in Registers(docs)[s] : Names(d)
      <4>1. << c.actor, c.kind >> \in Actor \X Kind
        BY DEF Contribution
      <4>2. c \in Registers(docs)[<< c.actor, c.kind >>]
        BY <4>1 DEF Registers
      <4>3. QED
        BY <3>1, <4>1, <4>2
    <3>2. ASSUME NEW s \in Actor \X Kind, NEW c \in Registers(docs)[s]
          PROVE  c \in docs
      BY DEF Registers
    <3>3. QED
      BY <3>1, <3>2
  <2>4. QED
    BY <2>1, <2>2, <2>3
<1>2. G!Ruling(auth, Registers(docs)) \subseteq Target
  BY SameTerms DEF G!Ruling
<1>3. QED
  BY <1>1, <1>2 DEF Denied

(* Every store that was recomputed rules as Governance does.               *)
LEMMA RecomputeRules ==
  ASSUME IInv'
  PROVE  G!Rule
<1>1. /\ contributions' \in SUBSET Contribution /\ authority' \in Roster
      /\ state' = ReduceAdminState(contributions', authority')
  BY DEF IInv, TypeOK, Derived
<1>2. Denied(state') = G!Ruling(authority', Registers(contributions'))
  BY <1>1, ReductionRules
<1>3. QED
  BY <1>2 DEF G!Rule, Denied, Registers

(* Documents that are stored leave their slots a document that is not      *)
(* older, and the other slots as they were.                                *)
LEMMA UpsertedGivesWay ==
  ASSUME NEW stored \in SUBSET Contribution, OnePerSlot(stored),
         NEW docs \in SUBSET Contribution, OnePerSlot(docs),
         NEW s \in Actor \X Kind
  PROVE  G!GivesWay(Registers(stored)[s], Registers(Upserted(stored, docs))[s], s)
<1> DEFINE before == {c \in stored : << c.actor, c.kind >> = s}
           after  == {c \in Upserted(stored, docs) : << c.actor, c.kind >> = s}
<1>1. Registers(stored)[s] = before /\ Registers(Upserted(stored, docs))[s] = after
  BY DEF Registers
<1>2. \A c, d \in Contribution :
        << c.actor, c.kind >> = s => (SameSlot(c, d) <=> << d.actor, d.kind >> = s)
  BY DEF SameSlot
<1>3. Upserted(stored, docs) \in SUBSET Contribution /\ OnePerSlot(Upserted(stored, docs))
  BY UpsertedOnePerSlot
<1>4. CASE \E d \in docs : d \in after
  <2>1. PICK d \in docs : d \in after
    BY <1>4
  <2>2. after = {d}
    BY <2>1, <1>2, <1>3 DEF OnePerSlot
  <2>3. ASSUME NEW b \in before
        PROVE  b.createdAt <= d.createdAt
    <3>1. /\ b \in Contribution /\ d \in Contribution
          /\ b.createdAt \in Nat /\ d.createdAt \in Nat
      BY DEF Contribution
    <3>2. SameSlot(d, b) /\ SameSlot(b, d)
      BY <2>1, <3>1 DEF SameSlot
    <3>3. CASE d \in stored
      BY <3>2, <3>3, <3>1 DEF OnePerSlot
    <3>4. CASE d \notin stored
      <4>1. ~Outdated(d, b)
        BY <2>1, <3>4 DEF Upserted
      <4>2. QED
        BY <4>1, <3>1, <3>2 DEF Outdated
    <3>5. QED
      BY <3>3, <3>4
  <2>4. << d.actor, d.kind >> = s
    BY <2>1
  <2>5. QED
    BY <1>1, <2>2, <2>3, <2>4 DEF G!GivesWay
<1>5. CASE ~\E d \in docs : d \in after
  <2>1. after \subseteq before
    BY <1>5 DEF Upserted
  <2>2. ASSUME NEW b \in before
        PROVE  b \in after
    <3>1. ASSUME NEW d \in docs, Superseded(b, d)
          PROVE  FALSE
      <4>1. << d.actor, d.kind >> = s
        BY <3>1, <1>2 DEF Superseded
      <4>2. PICK c \in stored : Outdated(d, c)
        BY <1>5, <4>1 DEF Upserted
      <4>3. c = b
        BY <4>2, <3>1 DEF Outdated, Superseded, SameSlot, OnePerSlot
      <4>4. b.createdAt \in Nat /\ d.createdAt \in Nat
        BY DEF Contribution
      <4>5. QED
        BY <4>2, <4>3, <4>4, <3>1 DEF Outdated, Superseded
    <3>2. QED
      BY <3>1 DEF Upserted
  <2>3. after = before
    BY <2>1, <2>2
  <2>4. QED
    BY <1>1, <2>3 DEF G!GivesWay
<1>6. QED
  BY <1>4, <1>5

-----------------------------------------------------------------------------
(* The first state starts a governance.                                    *)
LEMMA InitStarts == Init => G!Start
<1> SUFFICES ASSUME Init PROVE G!Start
  OBVIOUS
<1>1. authority \in Roster /\ state = ReduceAdminState({}, authority)
  BY InitInv DEF Init, IInv, TypeOK
<1>2. authority = G!CreateAuthorityState(G!RootRoster(ConfiguredRoot))
  BY DEF Init, CreateAuthorityState, RootRoster, NoRoles, DefaultRoles, RoleName, Capability,
         G!CreateAuthorityState, G!RootRoster, G!NoRoles, G!DefaultRoles, G!RoleName,
         G!Capability
<1>3. Registers(contributions) = G!Filed({})
  BY SameTerms DEF Init
<1>4. Denied(state) = {}
  BY <1>1, ReduceDenies DEF Denied
<1>5. QED
  BY <1>2, <1>3, <1>4 DEF G!Start, Registers, Denied

(* Every step governs, or changes nothing that Governance sees.            *)
LEMMA NextGoverns == IInv /\ IInv' /\ [Next]_vars => [G!Govern]_(G!governed)
<1> SUFFICES ASSUME IInv, IInv', [Next]_vars PROVE [G!Govern]_(G!governed)
  OBVIOUS
<1>1. G!Rule
  BY RecomputeRules
<1>2. CASE RosterStep
  <2>1. contributions' = contributions
    BY <1>2 DEF RosterStep, SetRoles
  <2>2. G!Appoint
    BY <1>1, <2>1 DEF G!Appoint
  <2>3. QED
    BY <2>2 DEF G!Govern
<1>3. CASE UpsertStep
  <2>1. PICK docs \in SUBSET Contribution :
          OnePerSlot(docs) /\ contributions' = Upserted(contributions, docs)
    BY <1>3 DEF UpsertStep, Upsert
  <2>2. authority' = authority
    BY <1>3 DEF UpsertStep, Upsert
  <2>3. \A s \in Actor \X Kind :
          G!GivesWay(Registers(contributions)[s], Registers(contributions')[s], s)
    BY <2>1, UpsertedGivesWay DEF IInv, TypeOK
  <2>4. G!Offer
    BY <1>1, <2>2, <2>3, SameTerms DEF G!Offer, Registers
  <2>5. QED
    BY <2>4 DEF G!Govern
<1>4. CASE ReplaceStep
  <2>1. contributions' \in {s.contributions : s \in Snapshots}
    BY <1>4 DEF ReplaceStep, Replace
  <2>2. Registers(contributions') = G!Filed(contributions')
    BY SameTerms
  <2>3. G!Restore
    BY <1>1, <2>1, <2>2 DEF G!Restore, Registers
  <2>4. QED
    BY <2>3 DEF G!Govern
<1>5. CASE UNCHANGED vars
  BY <1>5 DEF vars, G!governed
<1>6. QED
  BY <1>2, <1>3, <1>4, <1>5, StepKinds DEF IInv

(* The store does what Governance promises: whatever is reduced, cached    *)
(* and compared on the way, each step offers documents, appoints a roster  *)
(* or restores a saved state, and the ruling is never behind.              *)
THEOREM StoreGoverns == Spec => Refinement
BY Invariant, InitStarts, NextGoverns, PTL DEF Spec, Refinement, G!Governed
=============================================================================
