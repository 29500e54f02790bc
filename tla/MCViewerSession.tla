--------------------------- MODULE MCViewerSession ---------------------------
(***************************************************************************)
(* A small instance of ViewerSession: two accounts, so that one's state    *)
(* can reach the other's session, and two operations that wait at once.    *)
(* Nothing tells the accounts apart, so the runs take them as symmetric.   *)
(***************************************************************************)
EXTENDS ViewerSession, TLC

CONSTANTS a, b

MCSymmetry == Permutations({a, b})
=============================================================================
