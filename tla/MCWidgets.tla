------------------------------ MODULE MCWidgets ------------------------------
(***************************************************************************)
(* A small instance of Widgets: one element of any class and two targets;  *)
(* a provider whose markup may lack its relays, and never names a viewer.  *)
(***************************************************************************)
EXTENDS Widgets, TLC

CONSTANTS a, t1, t2

MCSymmetry == Permutations(Target)

MCViewerOf == [anonymous |-> NoAccount, broken |-> NoAccount]
=============================================================================
