--------------------------- MODULE MCRelayService ---------------------------
(* A small instance of RelayService for TLC: the constants are in the .cfg. *)
EXTENDS RelayService
=============================================================================
