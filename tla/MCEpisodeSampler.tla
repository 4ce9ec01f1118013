-------------------------- MODULE MCEpisodeSampler --------------------------
(* Instances of EpisodeSampler for TLC: the constants are in the .cfg files. *)
EXTENDS EpisodeSampler

\* Enough for a process to be replaced by another that has its pid and works;
\* for a connection to take the place of one that sent; for a log to be
\* written, rotated and written again beyond one read.
Moves == [processes |-> 3, connections |-> 4, log |-> 6]
FewMoves == [processes |-> 1, connections |-> 2, log |-> 1]
=============================================================================
