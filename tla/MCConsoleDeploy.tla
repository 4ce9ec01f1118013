-------------------------- MODULE MCConsoleDeploy --------------------------
(* Small instances of ConsoleDeploy for TLC: the constants are in the .cfg  *)
(* files.                                                                   *)
EXTENDS ConsoleDeploy
=============================================================================
