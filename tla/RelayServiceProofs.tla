------------------------ MODULE RelayServiceProofs ------------------------
(***************************************************************************)
(* Proofs about RelayService for every set of connections and every        *)
(* backlog: types, the sockets held at each statement, and the safety half  *)
(* of ServiceLine.                                                          *)
(***************************************************************************)
EXTENDS RelayService, FiniteSetTheorems, TLAPS

Handling == {"accept", "connect", "relay"}

\* The order of the statements: the listeners are bound one after the other, an
\* event is under way while one is handled, and relay()'s variable names a
\* connection exactly between accept() and the end of that connection.
InOrder ==
    /\ pc = "bind" => listening \in {{}, {"ipv6"}}
    /\ pc \in Handling => events # <<>>
    /\ client # None <=> pc \in {"connect", "relay"}
    /\ listening # {} => pc # "exited"

LEMMA FamiliesInOrder ==
    /\ Families[Cardinality({}) + 1] = "ipv6"
    /\ Families[Cardinality({"ipv6"}) + 1] = "ipv4"
BY FS_EmptySet, FS_Singleton, Cardinality({"ipv6"}) = 1 DEF Families

LEMMA TailIsSeq == ASSUME NEW S, NEW s \in Seq(S), s # <<>>
                   PROVE Tail(s) \in Seq(S) /\ Len(Tail(s)) = Len(s) - 1 /\ s[1] \in S
OBVIOUS

LEMMA AppendIsSeq == ASSUME NEW S, NEW s \in Seq(S), NEW e \in S
                     PROVE Append(s, e) \in Seq(S) /\ Len(Append(s, e)) = Len(s) + 1
OBVIOUS

LEMMA OrdersAreSeqs == ASSUME NEW S \in SUBSET Family, S # {}, NEW s \in Orders(S)
                       PROVE s \in Seq(Family) /\ s # <<>>
<1>1. IsFiniteSet(Family)
  <2>1. Family = {"ipv6"} \cup {"ipv4"}
    BY DEF Family
  <2> QED
    BY <2>1, FS_Singleton, FS_AddElement
<1>2. Cardinality(S) \in Nat /\ Cardinality(S) # 0
  BY <1>1, FS_Subset, FS_CardinalityType, FS_EmptySet
<1> DEFINE n == Cardinality(S)
<1>3. s \in [1..n -> S]
  BY DEF Orders
<1>4. n \in Nat /\ n > 0
  BY <1>2
<1> HIDE DEF n
<1>5. s \in Seq(S) /\ Len(s) = n
  BY <1>3, <1>4
<1> QED
  BY <1>4, <1>5
-----------------------------------------------------------------------------
Inv == TypeOK /\ InOrder /\ NoneForgotten

\* The steps that end the handling of an event share their effect on the list.
LEMMA NextEventKeepsOrder ==
    ASSUME Inv, pc \in Handling, NextEvent
    PROVE  /\ events' \in Seq(Family)
           /\ pc' \in {"select", "accept"}
           /\ pc' = "accept" => events' # <<>>
<1>1. events \in Seq(Family) /\ events # <<>>
  BY DEF Inv, TypeOK, InOrder
<1>2. Tail(events) \in Seq(Family)
  BY <1>1, TailIsSeq
<1> QED
  BY <1>2 DEF NextEvent

LEMMA EndsAreSafe == ASSUME Inv, ProcessEnds PROVE Inv'
<1>1. queue' \in [Family -> Seq(Conn)] /\ \A f \in Family : Len(queue'[f]) <= Backlog + 1
  BY BacklogIsNat DEF ProcessEnds
<1>2. TypeOK'
  BY <1>1 DEF Inv, TypeOK, ProcessEnds
<1> QED
  BY <1>2 DEF Inv, InOrder, NoneForgotten, ProcessEnds, Handling

LEMMA ClosesAreSafe ==
    ASSUME Inv, pc \in {"connect", "relay"}, CloseClient, NextEvent, backend' = "none",
           UNCHANGED <<repaired, listening, queue, up>>
    PROVE  Inv'
<1>1. held = {client}
  BY DEF Inv, NoneForgotten
<1>2. held' = {}
  BY <1>1 DEF CloseClient
<1>3. /\ events' \in Seq(Family) /\ pc' \in {"select", "accept"}
      /\ pc' = "accept" => events' # <<>>
  BY NextEventKeepsOrder DEF Handling
<1>4. TypeOK'
  BY <1>2, <1>3 DEF Inv, TypeOK, CloseClient
<1> QED
  BY <1>2, <1>3, <1>4 DEF Inv, InOrder, NoneForgotten, CloseClient, Handling

LEMMA QueueShrinks ==
    ASSUME Inv, NEW f \in Family, queue[f] # <<>>,
           queue' = [queue EXCEPT ![f] = Tail(@)]
    PROVE  /\ queue[f][1] \in Conn
           /\ queue' \in [Family -> Seq(Conn)]
           /\ \A g \in Family : Len(queue'[g]) <= Backlog + 1
<1>1. queue \in [Family -> Seq(Conn)] /\ queue[f] \in Seq(Conn)
  BY DEF Inv, TypeOK
<1>2. Tail(queue[f]) \in Seq(Conn) /\ Len(Tail(queue[f])) = Len(queue[f]) - 1 /\ queue[f][1] \in Conn
  BY <1>1, TailIsSeq
<1>3. Len(queue[f]) \in Nat
  BY <1>1
<1>4. \A g \in Family : Len(queue'[g]) <= Backlog + 1
  BY <1>1, <1>2, <1>3, BacklogIsNat DEF Inv, TypeOK
<1> QED
  BY <1>1, <1>2, <1>4

LEMMA InvInductive == Inv /\ [Next]_vars => Inv'
<1> SUFFICES ASSUME Inv, [Next]_vars PROVE Inv'
  OBVIOUS
<1> USE DEF Inv
<1>1. ASSUME NEW c \in Conn, NEW f \in Family, Arrive(c, f) PROVE Inv'
  <2>1. /\ queue[f] \in Seq(Conn) /\ Len(queue[f]) \in Nat
        /\ Append(queue[f], c) \in Seq(Conn)
        /\ Len(Append(queue[f], c)) = Len(queue[f]) + 1
    BY AppendIsSeq DEF TypeOK
  <2>2. queue' \in [Family -> Seq(Conn)] /\ \A g \in Family : Len(queue'[g]) <= Backlog + 1
    BY <1>1, <2>1, BacklogIsNat DEF TypeOK, Arrive
  <2>3. TypeOK'
    BY <1>1, <2>2 DEF TypeOK, Arrive, processVars
  <2> QED
    BY <1>1, <2>3 DEF InOrder, NoneForgotten, Arrive, processVars
<1>2. ASSUME NEW c \in Conn, Leave(c) PROVE Inv'
  BY <1>2 DEF TypeOK, InOrder, NoneForgotten, Leave, processVars
<1>3. CASE BackendCloses
  BY <1>3 DEF TypeOK, InOrder, NoneForgotten, BackendCloses
<1>4. CASE BackendComesOrGoes
  BY <1>4 DEF TypeOK, InOrder, NoneForgotten, BackendComesOrGoes, processVars
<1>5. CASE Bind
  <2>1. listening = {} \/ listening = {"ipv6"}
    BY <1>5 DEF InOrder, Bind
  <2>2. CASE listening = {}
    <3>1. listening' = {"ipv6"} /\ pc' = "bind"
      BY <1>5, <2>2, FamiliesInOrder DEF Bind, Family
    <3> QED
      BY <1>5, <3>1 DEF TypeOK, InOrder, NoneForgotten, Bind, Family, Handling
  <2>3. CASE listening = {"ipv6"}
    <3>1. listening' = Family /\ pc' = "select"
      BY <1>5, <2>3, FamiliesInOrder DEF Bind, Family
    <3> QED
      BY <1>5, <3>1 DEF TypeOK, InOrder, NoneForgotten, Bind, Handling
  <2> QED
    BY <2>1, <2>2, <2>3
<1>6. CASE BindFails \/ RelayRaises \/ Signal
  BY <1>6, EndsAreSafe DEF BindFails, RelayRaises, Signal
<1>7. CASE Select
  <2>1. events' \in Seq(Family) /\ events' # <<>>
    BY <1>7, OrdersAreSeqs DEF Select, Ready
  <2> QED
    BY <1>7, <2>1 DEF TypeOK, InOrder, NoneForgotten, Select, Handling
<1>8. CASE Accept
  <2> DEFINE f == events[1]
  <2>1. f \in Family /\ queue[f] # <<>> /\ queue' = [queue EXCEPT ![f] = Tail(@)]
    BY <1>8 DEF TypeOK, InOrder, Accept, Handling
  <2>2. /\ queue[f][1] \in Conn
        /\ queue' \in [Family -> Seq(Conn)]
        /\ \A g \in Family : Len(queue'[g]) <= Backlog + 1
    BY <2>1, QueueShrinks
  <2>3. /\ client' = queue[f][1] /\ held' = held \cup {queue[f][1]} /\ pc' = "connect"
        /\ UNCHANGED <<repaired, listening, events, backend, left, up>>
        /\ held = {} /\ backend = "none" /\ events # <<>>
    BY <1>8 DEF Accept, NoneForgotten, InOrder, Handling
  <2>4. client' # None
    BY <2>2, <2>3, ConnIsFinite
  <2> HIDE DEF f
  <2> QED
    BY <1>8, <2>2, <2>3, <2>4 DEF TypeOK, InOrder, NoneForgotten, Handling
<1>9. CASE AcceptFails
  <2> DEFINE f == events[1]
  <2>1. /\ f \in Family /\ queue[f] # <<>> /\ queue' = [queue EXCEPT ![f] = Tail(@)]
        /\ pc = "accept"
    BY <1>9 DEF TypeOK, InOrder, AcceptFails, Handling
  <2>2. /\ queue' \in [Family -> Seq(Conn)]
        /\ \A g \in Family : Len(queue'[g]) <= Backlog + 1
    BY <2>1, QueueShrinks
  <2>3. /\ events' \in Seq(Family) /\ pc' \in {"select", "accept"}
        /\ pc' = "accept" => events' # <<>>
    BY <1>9, NextEventKeepsOrder DEF AcceptFails, Handling
  <2>4. left' \subseteq left /\ UNCHANGED <<repaired, listening, client, held, backend, up>>
    BY <1>9 DEF AcceptFails
  <2> HIDE DEF f
  <2> QED
    BY <2>1, <2>2, <2>3, <2>4 DEF TypeOK, InOrder, NoneForgotten, Handling
<1>10. CASE Connect
  BY <1>10 DEF TypeOK, InOrder, NoneForgotten, Connect, Handling
<1>11. CASE ConnectFails
  BY <1>11, ClosesAreSafe DEF ConnectFails, NoneForgotten
<1>12. CASE RelayEnds \/ RelayCuts
  BY <1>12, ClosesAreSafe DEF RelayEnds, RelayCuts, CloseBoth
<1>13. CASE UNCHANGED vars
  BY <1>13 DEF TypeOK, InOrder, NoneForgotten, vars, processVars
<1>14. CASE AcceptPutOff
  <2>1. /\ events' \in Seq(Family) /\ pc' \in {"select", "accept"}
        /\ pc' = "accept" => events' # <<>>
    BY <1>14, NextEventKeepsOrder DEF AcceptPutOff, Handling
  <2> QED
    BY <1>14, <2>1 DEF TypeOK, InOrder, NoneForgotten, AcceptPutOff, Handling
<1> QED
  BY <1>1, <1>2, <1>3, <1>4, <1>5, <1>6, <1>7, <1>8, <1>9, <1>10, <1>11, <1>12, <1>13, <1>14
     DEF Next, Environment, Service

LEMMA InvInitial == Init => Inv
<1> SUFFICES ASSUME Init PROVE Inv
  OBVIOUS
<1>1. queue \in [Family -> Seq(Conn)] /\ \A f \in Family : Len(queue[f]) <= Backlog + 1
  BY BacklogIsNat DEF Init
<1>2. events \in Seq(Family)
  BY DEF Init
<1> QED
  BY <1>1, <1>2 DEF Init, Inv, TypeOK, InOrder, NoneForgotten, Handling

LEMMA InvAlways == Spec => []Inv
BY InvInitial, InvInductive, PTL DEF Spec

\* Every variable of the accept loop keeps its type, and a kernel queue its
\* bound, for any number of clients.
THEOREM TypeCorrect == Spec => []TypeOK
<1>1. Inv => TypeOK
  BY DEF Inv
<1> QED
  BY <1>1, InvAlways, PTL

\* No path through the loop leaves a socket open behind it, and there is never a
\* second connection to the backend.
THEOREM NothingHeldBetween == Spec => []NoneForgotten
<1>1. Inv => NoneForgotten
  BY DEF Inv
<1> QED
  BY <1>1, InvAlways, PTL
-----------------------------------------------------------------------------
LEMMA LineInitial == Init => Serving!Init
BY DEF Init, Serving!Init

\* A connection that can arrive is not the one being served.
LEMMA NewcomerIsNotServed ==
    ASSUME Inv, NEW c \in Conn, c \notin held
    PROVE  c # client
BY ConnIsFinite DEF Inv, InOrder, NoneForgotten

LEMMA LineStep == Inv /\ [Next]_vars => [Serving!Next]_Serving!vars
<1> SUFFICES ASSUME Inv, [Next]_vars PROVE [Serving!Next]_Serving!vars
  OBVIOUS
<1>1. ASSUME NEW c \in Conn, NEW f \in Family, Arrive(c, f) PROVE Serving!Join(c, f)
  <2>1. pc # "exited" /\ c # client
    BY <1>1, NewcomerIsNotServed DEF Arrive, Inv, InOrder
  <2>2. ~ Serving!InLine(c)
    BY <1>1 DEF Arrive, InQueue, Serving!InLine
  <2> QED
    BY <1>1, <2>1, <2>2 DEF Arrive, processVars, Serving!Join
<1>2. CASE \/ BackendCloses \/ BackendComesOrGoes \/ Bind \/ Select \/ Connect
           \/ (\E c \in Conn : Leave(c)) \/ UNCHANGED vars
  BY <1>2 DEF BackendCloses, BackendComesOrGoes, Bind, Select, Connect, Leave, vars,
              processVars, Serving!vars
<1>3. CASE BindFails \/ RelayRaises \/ Signal
  BY <1>3 DEF BindFails, RelayRaises, Signal, ProcessEnds, Serving!Next, Serving!Close
<1>4. CASE Accept \/ AcceptFails
  <2> DEFINE f == events[1]
  <2>1. /\ f \in Family /\ queue[f] # <<>> /\ queue' = [queue EXCEPT ![f] = Tail(@)]
        /\ client' \in {queue[f][1], None} /\ client = None
        /\ pc = "accept" /\ pc' \in {"connect", "select", "accept"}
    BY <1>4 DEF Inv, TypeOK, InOrder, Accept, AcceptFails, NextEvent, Handling
  <2> HIDE DEF f
  <2>2. Serving!Call(f)
    BY <2>1 DEF Serving!Call
  <2> QED
    BY <2>1, <2>2 DEF Serving!Next
<1>5. CASE ConnectFails \/ RelayEnds \/ RelayCuts
  <2>1. /\ client # None /\ client' = None /\ UNCHANGED queue
        /\ pc # "exited" /\ pc' # "exited"
    BY <1>5 DEF Inv, InOrder, ConnectFails, RelayEnds, RelayCuts, CloseBoth, CloseClient,
                NextEvent
  <2> QED
    BY <2>1 DEF Serving!Next, Serving!Finish
<1>6. CASE AcceptPutOff
  BY <1>6 DEF AcceptPutOff, NextEvent, Serving!vars
<1> QED
  BY <1>1, <1>2, <1>3, <1>4, <1>5, <1>6
     DEF Next, Environment, Service, Serving!Next

\* For any number of clients and any backlog the accept loop is a service with a
\* line for each family: first come, first served, one at a time, none twice.
\* (That neither line is passed over for ever is the other half of LineSpec.)
THEOREM ServiceImplementsLine == Spec => Serving!Init /\ [][Serving!Next]_(Serving!vars)
BY LineInitial, LineStep, InvAlways, PTL DEF Spec
=============================================================================
