------------------------------ MODULE MCRelay ------------------------------
(* Small instances of Relay for TLC: the constants are in the .cfg files. *)
EXTENDS Relay
=============================================================================
