---------------------------- MODULE MCGpuProbe ----------------------------
(* A small instance of GpuProbe for TLC; the bounds are in the .cfg.        *)
EXTENDS GpuProbe

\* Every opcode and every kind of answer; frames without payload, with an
\* extended length and with a mask.
MCFrame == {
    [opcode |-> "data", says |-> "result", ends |-> <<2, 3, 3, 5>>],
    [opcode |-> "data", says |-> "error", ends |-> <<2, 2, 2, 3>>],
    [opcode |-> "data", says |-> "event", ends |-> <<2, 2, 3, 5>>],
    [opcode |-> "ping", says |-> "junk", ends |-> <<2, 2, 2, 2>>],
    [opcode |-> "other", says |-> "junk", ends |-> <<2, 2, 2, 3>>],
    [opcode |-> "close", says |-> "junk", ends |-> <<2, 2, 2, 2>>] }
=============================================================================
