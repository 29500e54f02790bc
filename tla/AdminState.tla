----------------------------- MODULE AdminState ------------------------------
(***************************************************************************)
(* Administrative state (packages/core/src/adminState.js): what a set of   *)
(* published contributions amounts to under an authority.                  *)
(*                                                                         *)
(* A user target is its pubkey, so user targets are Actors; event and      *)
(* address targets are abstract. isValidTarget's refusal of malformed      *)
(* identifiers is the sets' being disjoint from anything else. The arrays  *)
(* of contributors and community sources are sets: their order is lost.    *)
(***************************************************************************)
EXTENDS Authority, Naturals

CONSTANTS
  Event,      \* Event targets.
  Address,    \* Addressable-event targets.
  Source,     \* Source markers of community lists and labels.
  NoSource    \* A contribution that carries no marker.

ASSUME TargetAssumption ==
  Actor \cap Event = {} /\ Actor \cap Address = {} /\ Event \cap Address = {}

ASSUME SourceAssumption == NoSource \notin Source

Target == Actor \cup Event \cup Address

(* The kinds of contribution, the capability each needs, and the type of   *)
(* target each may name.                                                   *)
Kind == {"user-allow", "user-deny", "event-deny", "address-deny", "trust-seed"}

KindCapability ==
  [ k \in Kind |->
      CASE k = "user-allow"   -> "contribute-user-allow"
        [] k = "user-deny"    -> "contribute-user-deny"
        [] k = "event-deny"   -> "contribute-event-deny"
        [] k = "address-deny" -> "contribute-address-deny"
        [] k = "trust-seed"   -> "contribute-trust-seed" ]

KindTargets ==
  [ k \in Kind |->
      CASE k = "event-deny"   -> Event
        [] k = "address-deny" -> Address
        [] OTHER              -> Actor ]

Contribution ==
  [ actor : Actor, kind : Kind, targets : SUBSET Target,
    createdAt : Nat, source : Source \cup {NoSource} ]

(* A contribution counts only while its author holds the capability. *)
Authorized(c, authority) ==
  HasCapability(c.actor, KindCapability[c.kind], authority)

(* Targets of another type than the kind's are skipped. *)
EffectiveTargets(c) == c.targets \cap KindTargets[c.kind]

(* The authorised contributions of one kind, and what they name together. *)
Granted(kind, contributions, authority) ==
  UNION { EffectiveTargets(c) :
            c \in {d \in contributions : d.kind = kind /\ Authorized(d, authority)} }

(* The authorised contributions that name a target; trust seeds leave no   *)
(* trace of who contributed them.                                          *)
Naming(t, contributions, authority) ==
  { c \in contributions :
      c.kind # "trust-seed" /\ Authorized(c, authority) /\ t \in EffectiveTargets(c) }

(* reduceAdminState, protectActors included: protected actors leave the    *)
(* user denials and the two maps last, whoever put them there.             *)
ReduceAdminState(contributions, authority) ==
  LET unprotected == Target \ authority.protectedActors
  IN  [ userAllow   |-> Granted("user-allow", contributions, authority),
        userDeny    |-> Granted("user-deny", contributions, authority)
                          \cap unprotected,
        eventDeny   |-> Granted("event-deny", contributions, authority),
        addressDeny |-> Granted("address-deny", contributions, authority),
        trustSeeds  |-> Granted("trust-seed", contributions, authority),
        contributors |->
          [t \in unprotected |-> {c.actor : c \in Naming(t, contributions, authority)}],
        communitySources |->
          [t \in unprotected |->
             {c.source : c \in Naming(t, contributions, authority)} \ {NoSource}] ]

(* isDenied. *)
IsDenied(t, state) ==
  t \in state.userDeny \cup state.eventDeny \cup state.addressDeny

(* serializeAdminState: what the store's fingerprint is taken over. *)
SerializeAdminState(state) ==
  [ userAllow |-> state.userAllow, userDeny |-> state.userDeny,
    eventDeny |-> state.eventDeny, addressDeny |-> state.addressDeny,
    trustSeeds |-> state.trustSeeds ]
=============================================================================
