-------------------------- MODULE MCRelayTransport ---------------------------
(***************************************************************************)
(* A small instance of RelayTransport: two configured relays and one that  *)
(* only calls name, one call of each kind.                                 *)
(***************************************************************************)
EXTENDS RelayTransport

CONSTANTS r1, r2, x, l, s, p
=============================================================================
