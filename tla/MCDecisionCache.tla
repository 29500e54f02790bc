--------------------------- MODULE MCDecisionCache ---------------------------
(***************************************************************************)
(* A small instance of DecisionCache: two accounts and an event, room for  *)
(* one reported target, one mute list and two decisions, so that each      *)
(* ceiling is reached; a denial with and without a community marker, and a *)
(* protection; a clock that outruns a mute list and an override.           *)
(***************************************************************************)
EXTENDS DecisionCache

CONSTANTS a, b, e

MCAdmins ==
  { [denied |-> {}, marked |-> {}, protectedActors |-> {}],
    [denied |-> {a}, marked |-> {}, protectedActors |-> {}],
    [denied |-> {a}, marked |-> {a}, protectedActors |-> {}],
    [denied |-> {e}, marked |-> {}, protectedActors |-> {}],
    [denied |-> {e}, marked |-> {}, protectedActors |-> {a}] }

MCTrusts ==
  { [contacts |-> {}, seeds |-> {b}, blocks |-> {}],
    [contacts |-> {a, b}, seeds |-> {b}, blocks |-> {a}] }

MCReports == {<< a, b >>, << e, b >>, << e, a >>}

MCMuteLists ==
  { [owner |-> b, updatedAt |-> 0, entries |-> {a}],
    [owner |-> b, updatedAt |-> 1, entries |-> {}],
    [owner |-> a, updatedAt |-> 1, entries |-> {b}] }

MCOverrides == {<< e, 2 >>}
=============================================================================
