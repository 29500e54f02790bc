----------------------------- MODULE MCCommands ------------------------------
(***************************************************************************)
(* A small instance of Commands and Provider: markup that names a viewer,  *)
(* markup that names none and leaves the trust graph to the application,   *)
(* and markup without relays; two accounts with a signer each.             *)
(***************************************************************************)
EXTENDS Commands

CONSTANTS a, b

MCEntitlements == {{}, {b}}

MCViewerOf ==
  [named |-> a, anonymous |-> NoAccount, broken |-> NoAccount]
=============================================================================
