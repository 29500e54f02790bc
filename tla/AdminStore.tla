----------------------------- MODULE AdminStore ------------------------------
(***************************************************************************)
(* GovernanceAdminStore (packages/runtime/src/stores.js) with the paths    *)
(* through which the runtime and its host reach it                         *)
(* (packages/runtime/src/runtime.js): documents from relays, community     *)
(* lists, labels, the cache, an imported snapshot, the host's own roster.  *)
(*                                                                         *)
(* The store keeps contributions as published, one per author and kind,    *)
(* and derives the effective state from them under the current authority.  *)
(***************************************************************************)
EXTENDS AdminState, FiniteSets

CONSTANTS
  ConfiguredRoot,       \* The deployment's root, or NoActor.
  AdminIngestAllowed,   \* A verifier is configured, or unsigned events trusted.
  RolesDocuments,       \* Rosters that may be published.
  Rosters,              \* Rosters that the host may set.
  Documents,            \* Contributions, as decoded from their events.
  Labels,               \* Label events, as decoded.
  Snapshots             \* Cached or exported states.

SameSlot(c, d) == c.actor = d.actor /\ c.kind = d.kind

Stamp(c) == [actor |-> c.actor, kind |-> c.kind, createdAt |-> c.createdAt]

(* A set that holds one contribution per author and kind. *)
OnePerSlot(contributions) ==
  \A c, d \in contributions : SameSlot(c, d) => c = d

(* A label event: its author, what its labels deny and allow, and its age. *)
Label ==
  [ actor : Actor, deny : SUBSET Target, allow : SUBSET Actor,
    createdAt : Nat, source : Source ]

(* A published roster gives its actors roles; it is authored by whom it    *)
(* makes the root. Capabilities that it gives directly ("cap" tags) are    *)
(* decoded too, but the runtime has no use for them.                       *)
RolesDocument ==
  [actors : [Actor -> SUBSET RoleName], protectedActors : SUBSET Actor]

ASSUME ConfigAssumption ==
  ConfiguredRoot \in Actor \cup {NoActor} /\ AdminIngestAllowed \in BOOLEAN

ASSUME InputAssumption ==
  /\ RolesDocuments \subseteq RolesDocument /\ Rosters \subseteq Roster
  /\ Documents \subseteq Contribution /\ Labels \subseteq Label

(* A snapshot was written from a store, so it holds one document a slot.   *)
ASSUME SnapshotAssumption ==
  \A s \in Snapshots :
    /\ s.authority \in Roster
    /\ s.contributions \in SUBSET Contribution
    /\ OnePerSlot(s.contributions)

VARIABLES
  authority,              \* createAuthorityState of the last roster.
  contributions,          \* As published; an array in the code, in any order.
  state,                  \* The reduced administrative state.
  fingerprint,            \* The serialised state a change was last judged by.
  authorityFingerprint,   \* The authority a change was last judged by.
  announced,              \* History: what the last "change" event announced.
  delivered               \* History: author, kind and age of the documents
                          \* offered since the contributions were last replaced.

vars == << authority, contributions, state, fingerprint, authorityFingerprint,
           announced, delivered >>

View(s, auth) == [admin |-> SerializeAdminState(s), authority |-> auth]

Init ==
  /\ authority = CreateAuthorityState(RootRoster(ConfiguredRoot))
  /\ contributions = {}
  /\ state = ReduceAdminState({}, authority)
  /\ fingerprint = SerializeAdminState(state)
  /\ authorityFingerprint = authority
  /\ announced = View(state, authority)
  /\ delivered = {}

-----------------------------------------------------------------------------
(* A fault: #recompute judges by the serialised state alone.               *)
ChangedStateOnly(s, auth) == SerializeAdminState(s) # fingerprint

(* #recompute: reduce again, and announce a change of the serialised state *)
(* or of the authority. A fingerprint is the value it is taken over.       *)
Changed(s, auth) ==
  SerializeAdminState(s) # fingerprint \/ auth # authorityFingerprint

Recompute ==
  /\ state' = ReduceAdminState(contributions', authority')
  /\ fingerprint' = SerializeAdminState(state')
  /\ authorityFingerprint' = authority'
  /\ announced' = IF Changed(state', authority')
                    THEN View(state', authority') ELSE announced

(* A fault: a new roster takes effect at the next document only.           *)
SetRolesLazily(roster) ==
  /\ authority' = CreateAuthorityState(roster)
  /\ UNCHANGED << contributions, state, fingerprint, authorityFingerprint,
                  announced, delivered >>

SetRoles(roster) ==
  /\ authority' = CreateAuthorityState(roster)
  /\ UNCHANGED << contributions, delivered >>
  /\ Recompute

(* A fault: a document of the same age does not take the stored one's place.*)
SupersededStrictly(c, d) == SameSlot(c, d) /\ c.createdAt < d.createdAt

(* upsertContribution, of documents with a slot each: a stored document of *)
(* the slot stays if it is newer, else the new one takes its place.        *)
Superseded(c, d) == SameSlot(c, d) /\ c.createdAt <= d.createdAt
Outdated(c, d)   == SameSlot(c, d) /\ c.createdAt < d.createdAt

(* A fault: the document that arrives last wins.                           *)
UpsertedBlindly(stored, docs) ==
  {c \in stored : \A d \in docs : ~SameSlot(c, d)} \cup docs

Upserted(stored, docs) ==
  {c \in stored : \A d \in docs : ~Superseded(c, d)}
    \cup {d \in docs : \A c \in stored : ~Outdated(d, c)}

(* Documents reach the store one after the other; those of one slot and    *)
(* age displace each other, so that `docs' are the last of the offered.    *)
Upsert(docs, offered) ==
  /\ contributions' = Upserted(contributions, docs)
  /\ delivered' = delivered \cup {Stamp(c) : c \in offered}
  /\ UNCHANGED authority
  /\ Recompute

-----------------------------------------------------------------------------
(* A fault: authorship is judged by the roster that documents rewrite.     *)
RosterRoot == authority.root

(* Whose roster and policy documents the runtime accepts.                  *)
RootKey == IF ConfiguredRoot # NoActor THEN ConfiguredRoot ELSE authority.root

(* A roles document: its author becomes the root, and protected; it cannot *)
(* carry a role table. The capabilities it gives directly are decoded, but *)
(* createAuthorityState takes no notice of them.                           *)
DecodedRoles(author, doc) ==
  [ root |-> author, actors |-> doc.actors, roles |-> DefaultRoles,
    protectedActors |-> doc.protectedActors \cup {author} ]

IngestRolesDocument(author, doc) ==
  /\ author = RootKey
  /\ AdminIngestAllowed
  /\ SetRoles(DecodedRoles(author, doc))

IngestRoles ==
  \E author \in Actor, doc \in RolesDocuments : IngestRolesDocument(author, doc)

(* A canonical or a legacy contribution list.                              *)
IngestContribution ==
  /\ AdminIngestAllowed
  /\ \E c \in Documents : Upsert({c}, {c})

(* labelsToContributions gives one contribution per target, so those of a  *)
(* kind follow one another into one slot: the last of each kind remains.   *)
LabelTargets(l, kind) ==
  CASE kind = "user-allow" -> l.allow
    [] kind = "trust-seed" -> {}
    [] OTHER               -> l.deny \cap KindTargets[kind]

LabelContribution(l, kind, t) ==
  [ actor |-> l.actor, kind |-> kind, targets |-> {t},
    createdAt |-> l.createdAt, source |-> l.source ]

LabelKinds(l) == {k \in Kind : LabelTargets(l, k) # {}}

LabelContributions(l) ==
  UNION { {LabelContribution(l, k, t) : t \in LabelTargets(l, k)} : k \in Kind }

IngestLabel(l) ==
  /\ AdminIngestAllowed
  /\ LabelKinds(l) # {}
  /\ \E last \in [LabelKinds(l) -> Target] :
       /\ \A k \in LabelKinds(l) : last[k] \in LabelTargets(l, k)
       /\ Upsert({LabelContribution(l, k, last[k]) : k \in LabelKinds(l)},
                 LabelContributions(l))

IngestLabels == \E l \in Labels : IngestLabel(l)

(* loadCommunitySources: a curator's list, marked with where it came from. *)
LoadCommunitySource ==
  \E c \in Documents, source \in Source :
    LET marked == {[c EXCEPT !.source = source]}
    IN  Upsert(marked, marked)

(* A fault: a saved state is stored beside what is in memory.              *)
ReplaceMerging(roster, docs) ==
  /\ authority' = CreateAuthorityState([roster EXCEPT !.roles = DefaultRoles])
  /\ contributions' = Upserted(contributions, docs)
  /\ delivered' = delivered \cup {Stamp(c) : c \in docs}
  /\ Recompute

(* hydrate: the cache is refused when it names another root; the roster it *)
(* holds has no role table, and both parts replace what is in memory.      *)
Replace(roster, docs) ==
  /\ authority' = CreateAuthorityState([roster EXCEPT !.roles = DefaultRoles])
  /\ contributions' = docs
  /\ delivered' = {Stamp(c) : c \in docs}
  /\ Recompute

Hydrate ==
  \E s \in Snapshots :
    /\ ConfiguredRoot # NoActor =>
         s.authority.root \in {ConfiguredRoot, NoActor}
    /\ Replace([s.authority EXCEPT !.root = IF ConfiguredRoot # NoActor
                                             THEN ConfiguredRoot ELSE @],
               s.contributions)

(* importState, a host operation, takes the snapshot's root as it is.      *)
ImportState ==
  \E s \in Snapshots : Replace(s.authority, s.contributions)

(* setRoles as a host calls it, with a role table of its own.              *)
HostSetRoles ==
  \E roster \in Rosters : SetRoles(roster)

HostStep == ImportState \/ HostSetRoles

Next ==
  \/ IngestRoles
  \/ IngestContribution
  \/ IngestLabels
  \/ LoadCommunitySource
  \/ Hydrate
  \/ ImportState
  \/ HostSetRoles

Spec == Init /\ [][Next]_vars

-----------------------------------------------------------------------------
(* The store seen as registers and a ruling: which document fills an       *)
(* author's slot of a kind, and who and what is denied.                    *)
G == INSTANCE Governance WITH
       FirstRoot <- ConfiguredRoot,
       Archives  <- {s.contributions : s \in Snapshots},
       roster    <- authority,
       register  <- [s \in Actor \X Kind |->
                       {c \in contributions : << c.actor, c.kind >> = s}],
       ruling    <- {t \in Target : IsDenied(t, state)}

(* The store keeps what Governance promises: each step offers documents,   *)
(* appoints a roster or restores a saved state, none does two of these at  *)
(* once, and the ruling is that of the roster and the documents of the     *)
(* moment, whatever is reduced, cached and compared on the way             *)
(* (stores.js:31-144).                                                     *)
Refinement == G!Governed

AdminStateType ==
  [ userAllow : SUBSET Actor, userDeny : SUBSET Actor, eventDeny : SUBSET Event,
    addressDeny : SUBSET Address, trustSeeds : SUBSET Actor ]

(* The variables have their types, and the stored contributions are what   *)
(* the code's array of them may be: one per author and kind.               *)
TypeOK ==
  /\ authority \in Roster
  /\ contributions \in SUBSET Contribution
  /\ OnePerSlot(contributions)
  /\ fingerprint \in AdminStateType
  /\ SerializeAdminState(state) \in AdminStateType
  /\ authorityFingerprint \in Roster
  /\ announced \in [admin : AdminStateType, authority : Roster]
  /\ delivered \in SUBSET [actor : Actor, kind : Kind, createdAt : Nat]

(* Whatever the order documents arrive in, each author's slot holds one of *)
(* the newest documents offered for it, and an offered slot is never empty *)
(* (upsertContribution, stores.js:85-102).                                 *)
NewestKept ==
  /\ \A d \in delivered : \E c \in contributions : SameSlot(c, d)
  /\ \A c \in contributions :
       /\ Stamp(c) \in delivered
       /\ \A d \in delivered : SameSlot(c, d) => d.createdAt <= c.createdAt

(* Authority is resolved when state is derived, never stored: at every     *)
(* moment each denial in force is named by a kept document whose author    *)
(* holds the capability now, no protected actor is denied, and nothing an  *)
(* entitled author denies is left out (adminState.js:85-181, ADR 0002).    *)
DenialsFollowAuthority ==
  \A t \in Target :
    IsDenied(t, state) <=>
      /\ \E c \in contributions :
           /\ c.kind \in {"user-deny", "event-deny", "address-deny"}
           /\ t \in c.targets \cap KindTargets[c.kind]
           /\ HasCapability(c.actor, KindCapability[c.kind], authority)
      /\ t \notin authority.protectedActors

(* A listener that redraws on "change" is never behind: the serialised     *)
(* state and the authority are those of the last announcement, also after  *)
(* a roster change that denies and pardons nobody (stores.js:115-135).     *)
ListenersCurrent == announced = View(state, authority)

(* A bad import can move authority.root, but not the goalposts: with a     *)
(* configured root, whatever relays and the cache bring leaves that root   *)
(* in place or puts it back (runtime.js:234-237, 489-495, 643-651).        *)
GoalpostsFixed ==
  [][ConfiguredRoot # NoActor /\ authority' # authority /\ ~HostStep
       => authority'.root = ConfiguredRoot]_vars

(* A label denies every target it names when its author may deny them and  *)
(* no newer document holds the slot: contributionToLabel, which writes all *)
(* the targets of a contribution into one label, is documented as the      *)
(* inverse of labelsToContributions (labels.js:236-239). The code keeps    *)
(* the last target only.                                                   *)
LabelDeniesEveryTarget ==
  [][\A l \in Labels :
       /\ IngestLabel(l)
       /\ \A k \in LabelKinds(l) :
            /\ HasCapability(l.actor, KindCapability[k], authority)
            /\ \A c \in contributions :
                 c.actor = l.actor /\ c.kind = k => c.createdAt < l.createdAt
       => \A t \in l.deny \ authority.protectedActors : IsDenied(t, state)']_vars
=============================================================================
