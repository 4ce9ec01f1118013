----------------------------- MODULE RelayPipe -----------------------------
(***************************************************************************)
(* What the RFB relay promises the two programs it connects: a pair of      *)
(* reliable byte streams, each with a bounded number of bytes on the way,   *)
(* that can only be cut off at their end.                                   *)
(***************************************************************************)
EXTENDS Naturals, Sequences

CONSTANTS
    End,            \* the two ends
    Opposite(_),    \* the other end
    Byte,           \* what an end may write
    Window          \* the most bytes on the way in one direction

VARIABLES
    sent,           \* sent[e]: the bytes end e has written
    got,            \* got[e]: the bytes end e has read
    up              \* the pair is connected

vars == <<sent, got, up>>

Init ==
    /\ sent = [e \in End |-> <<>>]
    /\ got = [e \in End |-> <<>>]
    /\ up = TRUE

\* An end writes only while its opposite is less than a window behind.
Write(e) ==
    /\ up
    /\ Len(sent[e]) < Len(got[Opposite(e)]) + Window
    /\ \E byte \in Byte : sent' = [sent EXCEPT ![e] = Append(@, byte)]
    /\ UNCHANGED <<got, up>>

\* An end reads the next bytes of its opposite's stream, in order.
Read(e) ==
    /\ \E n \in Len(got[e])..Len(sent[Opposite(e)]) :
          got' = [got EXCEPT ![e] = SubSeq(sent[Opposite(e)], 1, n)]
    /\ UNCHANGED <<sent, up>>

Close ==
    /\ up
    /\ up' = FALSE
    /\ UNCHANGED <<sent, got>>

Next == Close \/ \E e \in End : Write(e) \/ Read(e)

Spec == Init /\ [][Next]_vars
=============================================================================
