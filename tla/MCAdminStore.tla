---------------------------- MODULE MCAdminStore -----------------------------
(***************************************************************************)
(* A small instance of AdminStore: a root, a moderator and a curator who   *)
(* may deny one another, and one event; two rosters that are published (one*)
(* protects the moderator it drops) and one that the host sets, with a role*)
(* table of its own; documents that compete for a slot with an older, a    *)
(* newer and an equal age, a label that names several targets, a cache of  *)
(* this root and an export of another.                                     *)
(***************************************************************************)
EXTENDS AdminStore

CONSTANTS r, m, c, e

MCActor == {r, m, c}
MCEvent == {e}

Holding(pubkey, role) == [NoRoles EXCEPT ![pubkey] = {role}]

Staffed ==
  [ root |-> r, actors |-> [Holding(m, "moderator") EXCEPT ![c] = {"curator"}],
    roles |-> DefaultRoles, protectedActors |-> {} ]

Dropped ==
  [ root |-> r, actors |-> Holding(c, "curator"), roles |-> DefaultRoles,
    protectedActors |-> {m} ]

Labelling ==
  [ root |-> r, actors |-> Holding(m, "labeller"),
    roles |-> [DefaultRoles EXCEPT !["labeller"] = {"contribute-event-deny"}],
    protectedActors |-> {} ]

Published(roster) ==
  [actors |-> roster.actors, protectedActors |-> roster.protectedActors]

MCRolesDocuments == {Published(Staffed), Published(Dropped)}

MCRosters == {Labelling}

Doc(actor, kind, targets, createdAt) ==
  [ actor |-> actor, kind |-> kind, targets |-> targets, createdAt |-> createdAt,
    source |-> NoSource ]

MCDocuments ==
  { Doc(m, "user-deny", {c}, 1), Doc(m, "user-deny", {}, 2),
    Doc(m, "event-deny", {e, r}, 1), Doc(c, "user-deny", {m, r}, 2),
    Doc(r, "user-allow", {c}, 1) }

MCLabels ==
  { [ actor |-> m, deny |-> {r, c, e}, allow |-> {}, createdAt |-> 2,
      source |-> "list" ] }

MCSnapshots ==
  { [authority |-> Staffed, contributions |-> {Doc(m, "user-deny", {c}, 1)}],
    [authority |-> [RootRoster(m) EXCEPT !.protectedActors = {m}],
     contributions |-> {}] }
=============================================================================
