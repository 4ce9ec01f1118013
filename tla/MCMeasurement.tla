--------------------------- MODULE MCMeasurement ---------------------------
(* Small instances of Measurement for TLC: the constants are in the .cfg    *)
(* files.                                                                   *)
EXTENDS Measurement
=============================================================================
