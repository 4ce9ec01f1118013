---------------------------- MODULE ServiceLine ----------------------------
(***************************************************************************)
(* What the relay's accept loop promises its clients: they wait in a line   *)
(* for each address family, one of them is served at a time, in the order   *)
(* of its line, and neither line is passed over for ever.                   *)
(***************************************************************************)
EXTENDS Naturals, Sequences

CONSTANTS
    Conn,           \* connections, used again when they are over
    Line,           \* the lines, one for each listening address
    NoConn          \* nobody, no member of Conn

VARIABLES
    waiting,    \* waiting[l]: the connections that wait in line l, first one first
    served,     \* the connection being served, or NoConn
    up          \* the service has not ended

vars == <<waiting, served, up>>

InLine(c) == \E l \in Line : \E i \in 1..Len(waiting[l]) : waiting[l][i] = c

Init ==
    /\ waiting = [l \in Line |-> <<>>]
    /\ served = NoConn
    /\ up = TRUE

Join(c, l) ==
    /\ up
    /\ c # served /\ ~ InLine(c)
    /\ waiting' = [waiting EXCEPT ![l] = Append(@, c)]
    /\ UNCHANGED <<served, up>>

\* The first of line l is served, or has left before its turn.
Call(l) ==
    /\ up
    /\ served = NoConn
    /\ waiting[l] # <<>>
    /\ waiting' = [waiting EXCEPT ![l] = Tail(@)]
    /\ served' \in {waiting[l][1], NoConn}
    /\ UNCHANGED up

Finish ==
    /\ served # NoConn
    /\ served' = NoConn
    /\ UNCHANGED <<waiting, up>>

\* The service ends; whoever waits or is served is cut off.
Close ==
    /\ up
    /\ up' = FALSE
    /\ waiting' = [l \in Line |-> <<>>]
    /\ served' = NoConn

Next ==
    \/ \E l \in Line : Call(l) \/ \E c \in Conn : Join(c, l)
    \/ Finish
    \/ Close

\* A line whose first connection could be called again and again is called.
Spec == Init /\ [][Next]_vars /\ \A l \in Line : SF_vars(Call(l))
=============================================================================
