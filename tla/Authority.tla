------------------------------ MODULE Authority ------------------------------
(***************************************************************************)
(* Authority and delegation (packages/core/src/authority.js).              *)
(*                                                                         *)
(* An authority state names the root administrator, the roles every actor  *)
(* holds, what each role grants, and the actors nobody may deny.           *)
(* Capabilities are resolved from it each time they are asked for: nothing *)
(* derived from a role is stored.                                          *)
(*                                                                         *)
(* Pubkeys are abstract: a member of Actor is a normalised pubkey, and     *)
(* NoActor is the empty string normalizePubkey gives for anything else.    *)
(***************************************************************************)
CONSTANTS
  Actor,        \* Normalised pubkeys.
  NoActor,      \* The empty pubkey: no root, nobody.
  CustomRole    \* Role names an application defines beside the default ones.

ASSUME NoActorAssumption == NoActor \notin Actor

(* GOVERNANCE_CAPABILITIES. *)
Capability ==
  { "manage-roles", "manage-policy", "manage-community-sources",
    "contribute-user-allow", "contribute-user-deny", "contribute-event-deny",
    "contribute-address-deny", "contribute-trust-seed", "review-evidence" }

RoleName == {"super_admin", "moderator", "curator", "reviewer"} \cup CustomRole

(* DEFAULT_ROLE_CAPABILITIES; a name without an entry grants nothing. *)
DefaultRoles ==
  [r \in RoleName |->
     CASE r = "super_admin" -> Capability
       [] r = "moderator"   -> { "contribute-user-deny", "contribute-event-deny",
                                 "contribute-address-deny",
                                 "contribute-trust-seed", "review-evidence" }
       [] r = "curator"     -> {"contribute-user-deny"}
       [] r = "reviewer"    -> {"review-evidence"}
       [] OTHER             -> {}]

(* What setRoles is given, and, once normalised, the authority it makes. *)
Roster ==
  [ root            : Actor \cup {NoActor},
    actors          : [Actor -> SUBSET RoleName],
    roles           : [RoleName -> SUBSET Capability],
    protectedActors : SUBSET Actor ]

NoRoles == [a \in Actor |-> {}]

(* The roster that only names a root, as the runtime's constructor gives it. *)
RootRoster(root) ==
  [root |-> root, actors |-> NoRoles, roles |-> DefaultRoles, protectedActors |-> {}]

(* The root, when there is one, is always protected. *)
CreateAuthorityState(roster) ==
  [roster EXCEPT !.protectedActors = @ \cup ({roster.root} \ {NoActor})]

(* The root holds every capability; others hold what their roles grant. *)
ActorCapabilities(a, authority) ==
  IF a = authority.root
    THEN Capability
    ELSE UNION {authority.roles[r] : r \in authority.actors[a]}

HasCapability(a, capability, authority) ==
  capability \in ActorCapabilities(a, authority)

IsProtectedActor(a, authority) == a \in authority.protectedActors
=============================================================================
