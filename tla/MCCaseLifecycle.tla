-------------------------- MODULE MCCaseLifecycle --------------------------
(* Instances of CaseLifecycle for TLC: the faults are in the .cfg files.    *)
EXTENDS CaseLifecycle
=============================================================================
