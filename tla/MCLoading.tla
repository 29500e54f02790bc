------------------------------ MODULE MCLoading ------------------------------
(***************************************************************************)
(* A small instance of Loading. Relay x is configured, relay y is not. The *)
(* moderator m has an old and a new list of denied users, and a newer one  *)
(* is forged; the root has two rosters, and m has made itself one. The     *)
(* contacts m and n have mute lists at both relays; m's relay lists name   *)
(* y, and before that relays it only reads or that are none. Of m's labels *)
(* the older is about a user, the newer about an event and the newest      *)
(* about neither. Of n's lists two of one age have one address, and one of *)
(* the same age has another but the same slot. In the last world a label   *)
(* load runs beside an administrative one, and m has lists of two kinds,   *)
(* which compete with its label, and one of another application.           *)
(***************************************************************************)
EXTENDS Loading

CONSTANTS r, m, n, x, y

Doc(kind, author, age, id, genuine, at) ==
  [ kind |-> kind, author |-> author, name |-> Unnamed, list |-> "none", age |-> age,
    id |-> id, genuine |-> genuine, at |-> at, tags |-> << >> ]

Tag(url, marker) == [url |-> url, marker |-> marker]

Tagged(d, tags) == [d EXCEPT !.tags = tags]

Named(d, name, list) == [d EXCEPT !.name = name, !.list = list]

Roster(author, age, id) == Named(Doc("roster", author, age, id, TRUE, {x}), "roles", "none")

Listing(kind, author, name, list, age, id) ==
  Named(Doc(kind, author, age, id, TRUE, {x}), name, list)

Label(author, list, age, id) == Listing("label", author, Unnamed, list, age, id)

AdminWorld ==
  { Listing("canonical", m, "users", "user-deny", 1, 1),
    Listing("canonical", m, "users", "user-deny", 2, 2),
    Named(Doc("canonical", m, 3, 3, FALSE, {x}), "users", "user-deny"),
    Roster(r, 1, 4), Roster(r, 2, 5), Roster(m, 3, 6) }

TrustWorld ==
  { Tagged(Doc("relays", m, 2, 1, TRUE, {x}), << Tag(x, "read"), Tag(y, "") >>),
    Tagged(Doc("relays", m, 1, 2, TRUE, {x}), << Tag("malformed", "") >>),
    Tagged(Doc("relays", m, 3, 3, FALSE, {x}), << Tag(x, "write") >>),
    Tagged(Doc("relays", n, 1, 4, TRUE, {x}), << Tag(y, "read") >>),
    Doc("mutes", m, 1, 5, TRUE, {x}), Doc("mutes", m, 2, 6, TRUE, {y}),
    Doc("mutes", m, 3, 7, FALSE, {y}), Doc("mutes", n, 1, 8, TRUE, {x}) }

LabelWorld ==
  { Label(m, "user-deny", 1, 1), Label(m, "event-deny", 2, 2), Label(m, "none", 3, 3),
    Listing("legacy", n, "blacklist", "user-deny", 2, 4),
    Listing("legacy", n, "blacklist", "user-deny", 2, 5),
    Listing("canonical", n, "users", "user-deny", 2, 6) }

MixedWorld ==
  { Label(m, "user-deny", 1, 1), Listing("canonical", m, "users", "user-deny", 2, 2),
    Listing("canonical", m, "events", "event-deny", 1, 3),
    Listing("canonical", m, "theirs", "user-deny", 3, 4) }

Page(w, loads) == [world |-> w, loads |-> loads]

MCPages ==
  { Page(AdminWorld, {"admin"}), Page(TrustWorld, {"mutes"}),
    Page(LabelWorld, {"labels", "community"}), Page(MixedWorld, {"admin", "labels"}) }

MCSources == {<< "canonical", n, "users" >>, << "legacy", n, "blacklist" >>}
MCChunks == {{m}, {r, n}}
=============================================================================
