---------------------------- MODULE RelayProofs ----------------------------
(***************************************************************************)
(* Proofs about Relay, for all sizes of the buffers and kernel queues.      *)
(***************************************************************************)
EXTENDS Relay, SequenceTheorems, TLAPS

(* Taking bytes from the front of a queue.                                  *)

LEMMA FrontRest ==
    ASSUME NEW q \in Seq(Nat), NEW n \in 0..Len(q)
    PROVE  /\ Front(q, n) \in Seq(Nat)
           /\ Rest(q, n) \in Seq(Nat)
           /\ Len(Front(q, n)) = n
           /\ Len(Rest(q, n)) = Len(q) - n
           /\ Front(q, n) \o Rest(q, n) = q
<1>1. /\ Len(q) \in Nat
      /\ \A i \in 1..Len(q) : q[i] \in Nat
  BY LenProperties, ElementOfSeq
<1>2. /\ Front(q, n) \in Seq(Nat)
      /\ Len(Front(q, n)) = n
  <2>1. n \in Int /\ \A i \in 1..n : q[i] \in Nat
    BY <1>1
  <2>2. /\ SubSeq(q, 1, n) \in Seq(Nat)
        /\ Len(SubSeq(q, 1, n)) = IF 1 <= n THEN n - 1 + 1 ELSE 0
    BY <2>1, SubSeqProperties
  <2> QED
    BY <2>1, <2>2, <1>1 DEF Front
<1>3. /\ Rest(q, n) \in Seq(Nat)
      /\ Len(Rest(q, n)) = Len(q) - n
  <2>1. /\ n + 1 \in Int /\ Len(q) \in Int
        /\ \A i \in (n + 1)..Len(q) : q[i] \in Nat
    BY <1>1
  <2>2. /\ SubSeq(q, n + 1, Len(q)) \in Seq(Nat)
        /\ Len(SubSeq(q, n + 1, Len(q))) =
               IF n + 1 <= Len(q) THEN Len(q) - (n + 1) + 1 ELSE 0
    BY <2>1, SubSeqProperties
  <2> QED
    BY <2>1, <2>2, <1>1 DEF Rest
<1>4. Front(q, n) \o Rest(q, n) = q
  <2>1. SubSeq(q, 1, n) \o SubSeq(q, n + 1, Len(q)) = SubSeq(q, 1, Len(q))
    <3>1. /\ 1 \in 1..Len(q) + 1
          /\ n \in (1 - 1)..Len(q)
          /\ Len(q) \in n..Len(q)
      BY <1>1
    <3> QED
      BY <3>1, ConcatAdjacentSubSeq
  <2>2. SubSeq(q, 1, Len(q)) = q
    BY SubSeqFull
  <2> QED
    BY <2>1, <2>2 DEF Front, Rest
<1> QED
  BY <1>2, <1>3, <1>4

LEMMA ConcatNat ==
    ASSUME NEW s \in Seq(Nat), NEW t \in Seq(Nat), NEW u \in Seq(Nat)
    PROVE  (s \o t) \o u = s \o (t \o u)
BY ONLY ConcatAssociative, SMTT(20)

LEMMA ConcatLen ==
    ASSUME NEW s \in Seq(Nat), NEW t \in Seq(Nat)
    PROVE  /\ s \o t \in Seq(Nat)
           /\ Len(s \o t) = Len(s) + Len(t)
BY ONLY ConcatProperties

\* Bytes moved from the front of a queue to the end of the one before it leave
\* the stream the two hold as it was.
LEMMA MoveFront ==
    ASSUME NEW a \in Seq(Nat), NEW q \in Seq(Nat), NEW n \in 0..Len(q)
    PROVE  (a \o Front(q, n)) \o Rest(q, n) = a \o q
<1>1. /\ Front(q, n) \in Seq(Nat)
      /\ Rest(q, n) \in Seq(Nat)
      /\ Front(q, n) \o Rest(q, n) = q
  BY FrontRest
<1>2. (a \o Front(q, n)) \o Rest(q, n) = a \o (Front(q, n) \o Rest(q, n))
  BY <1>1, ConcatNat
<1> QED
  BY <1>1, <1>2

LEMMA Prepend ==
    ASSUME NEW S, NEW e \in S, NEW t \in Seq(S)
    PROVE  /\ Len(<<e>> \o t) = 1 + Len(t)
           /\ (<<e>> \o t)[1] = e
           /\ \A i \in 2..(1 + Len(t)) : (<<e>> \o t)[i] = t[i - 1]
<1>1. <<e>> \in Seq(S) /\ Len(<<e>>) = 1 /\ <<e>>[1] = e
  OBVIOUS
<1>2. Len(t) \in Nat
  BY LenProperties
<1> QED
  BY <1>1, <1>2, ConcatProperties

LEMMA Destinations ==
    ASSUME NEW s \in Sock
    PROVE  /\ Destination(s) \in Sock
           /\ Destination(s) # s
           /\ Destination(Destination(s)) = s
BY SocketsDiffer DEF Sock, Destination
-----------------------------------------------------------------------------
(* Type correctness.                                                        *)

LEMMA FirstEvent ==
    ASSUME TypeOK, events # <<>>
    PROVE  /\ events[1] \in Event
           /\ Tail(events) \in Seq(Event)
           /\ Source \in Sock
           /\ Dest \in Sock \cup {None}
<1>1. events \in Seq(Event) /\ Len(events) \in Nat /\ Len(events) # 0
  BY EmptySeq, LenProperties DEF TypeOK
<1>2. events[1] \in Event
  BY <1>1, ElementOfSeq
<1>3. Tail(events) \in Seq(Event)
  BY <1>1, HeadTailProperties
<1> QED
  BY <1>2, <1>3 DEF Source, Dest, Event

LEMMA ReadDoneType ==
    ASSUME TypeOK, events # <<>>, ReadDone
    PROVE  /\ events' \in Seq(Event)
           /\ events' # <<>>
<1> DEFINE done == [events[1] EXCEPT !.read = FALSE]
<1>1. done \in Event
  BY FirstEvent DEF Event
<1>2. <<done>> \in Seq(Event) /\ Len(<<done>>) = 1
  BY <1>1
<1>3. events' = <<done>> \o Tail(events)
  BY DEF ReadDone
<1>4. Tail(events) \in Seq(Event)
  BY FirstEvent
<1>5. /\ events' \in Seq(Event)
      /\ Len(events') = 1 + Len(Tail(events))
  BY <1>2, <1>3, <1>4, ConcatProperties
<1>6. Len(Tail(events)) \in Nat
  BY <1>4, LenProperties
<1> QED
  BY <1>5, <1>6, EmptySeq

LEMMA CloseType ==
    ASSUME TypeOK, CloseRelay, UNCHANGED <<peerVars, restVars>>
    PROVE  TypeOK'
<1>1. \A lost \in SUBSET {s \in Sock : kin[s] # <<>>} :
          [s \in Sock |-> IF s \in lost THEN <<>> ELSE kout[s]] \in [Sock -> Seq(Nat)]
  BY EmptySeq DEF TypeOK
<1>2. kout' \in [Sock -> Seq(Nat)]
  BY <1>1 DEF CloseRelay
<1>3. /\ open' \in BOOLEAN
      /\ events' \in Seq(Event)
      /\ pending' \in [Sock -> Seq(Nat)]
      /\ interest' \in [Sock -> BOOLEAN]
      /\ data' \in [Sock -> Sock \cup {None}]
      /\ kin' \in [Sock -> Seq(Nat)]
  BY EmptySeq DEF CloseRelay
<1> QED
  BY <1>2, <1>3 DEF TypeOK, peerVars, restVars

LEMMA UpdateType ==
    ASSUME TypeOK, NEW buffers, UpdateInterest(buffers)
    PROVE  /\ interest' \in [Sock -> BOOLEAN]
           /\ data' \in [Sock -> Sock \cup {None}]
<1>1. \A s \in Sock : ModifiedData(s) \in Sock \cup {None}
  BY DEF ModifiedData, TypeOK
<1>2. data' = [s \in Sock |-> ModifiedData(s)]
  BY DEF UpdateInterest
<1>3. interest' = [s \in Sock |-> buffers[s] # <<>>]
  BY DEF UpdateInterest
<1> QED
  BY <1>1, <1>2, <1>3

\* The steps of the loop, those that end the call taken together.
Closes == CloseRelay /\ UNCHANGED <<peerVars, restVars>>

LEMMA LoopCases ==
    ASSUME Loop
    PROVE  \/ Select \/ SelectSpurious \/ RecvWouldBlock \/ RecvData
           \/ SendData \/ NothingToSend \/ Closes
BY DEF Loop, Closes, RecvEnds, RecvOverflow, RecvWithoutDestination,
       SendWouldBlock, SendFails

\* Every variable of the relay keeps its type: registrations and buffers stay
\* those of the two sockets, whatever events and peers do.
THEOREM TypeCorrect == Spec => []TypeOK
<1>1. Init => TypeOK
  BY EmptySeq, Destinations DEF Init, TypeOK
<1>2. ASSUME TypeOK, [Next]_vars
      PROVE  TypeOK'
  <2> USE <1>2
  <2>1. ASSUME NEW s \in Sock, PeerWrite(s)
        PROVE  TypeOK'
    <3>1. Len(written[s]) + 1 \in Nat
      BY LenProperties DEF TypeOK
    <3>2. /\ Append(written[s], Len(written[s]) + 1) \in Seq(Nat)
          /\ Append(kin[s], Len(written[s]) + 1) \in Seq(Nat)
      BY <3>1, AppendProperties DEF TypeOK
    <3> QED
      BY <2>1, <3>2 DEF PeerWrite, TypeOK, relayVars, restVars
  <2>2. ASSUME NEW s \in Sock, PeerRead(s)
        PROVE  TypeOK'
    <3>1. PICK n \in 1..Len(kout[s]) :
              /\ read' = [read EXCEPT ![s] = @ \o Front(kout[s], n)]
              /\ kout' = [kout EXCEPT ![s] = Rest(@, n)]
      BY <2>2 DEF PeerRead
    <3>2. /\ Front(kout[s], n) \in Seq(Nat)
          /\ Rest(kout[s], n) \in Seq(Nat)
      BY FrontRest, LenProperties DEF TypeOK
    <3>3. read[s] \o Front(kout[s], n) \in Seq(Nat)
      BY <3>2, ConcatProperties DEF TypeOK
    <3> QED
      BY <2>2, <3>1, <3>2, <3>3 DEF PeerRead, TypeOK, relayVars, restVars
  <2>3. ASSUME NEW s \in Sock, PeerShutdown(s) \/ PeerClose(s)
        PROVE  TypeOK'
    BY <2>3 DEF PeerShutdown, PeerClose, TypeOK, relayVars, kernelVars, restVars
  <2>4. ASSUME Select \/ SelectSpurious
        PROVE  TypeOK'
    <3>1. \A s \in Sock : Mask(s) \in Event
      BY DEF Mask, Event, Readable, Writable, TypeOK
    <3>2. \A s \in Sock : Destination(s) \in Sock
      BY Destinations
    <3>3. \A s \in Sock : [Mask(s) EXCEPT !.read = TRUE] \in Event
      <4>1. \A e \in Event : [e EXCEPT !.read = TRUE] \in Event
        BY DEF Event
      <4> QED
        BY <3>1, <4>1
    <3>4. \A e, f \in Event : <<e>> \in Seq(Event) /\ <<e, f>> \in Seq(Event)
      OBVIOUS
    <3>5. CASE Select
      BY <3>1, <3>2, <3>4, <3>5 DEF Select, TypeOK, kernelVars, peerVars, restVars
    <3>6. CASE SelectSpurious
      BY <3>3, <3>4, <3>6 DEF SelectSpurious, TypeOK, kernelVars, peerVars, restVars
    <3> QED
      BY <2>4, <3>5, <3>6
  <2>5. ASSUME RecvWouldBlock
        PROVE  TypeOK'
    <3>1. events' \in Seq(Event)
      BY <2>5, ReadDoneType DEF RecvWouldBlock, Reading
    <3> QED
      BY <2>5, <3>1 DEF RecvWouldBlock, TypeOK, kernelVars, peerVars, restVars
  <2>6. ASSUME RecvData
        PROVE  TypeOK'
    <3>1. PICK n \in 1..Least(Len(kin[Source]), RecvSize) :
              /\ pending' = [pending EXCEPT ![Dest] = @ \o Front(kin[Source], n)]
              /\ kin' = [kin EXCEPT ![Source] = Rest(@, n)]
      BY <2>6 DEF RecvData
    <3>2. Source \in Sock /\ Dest \in Sock
      BY <2>6, FirstEvent DEF RecvData, Reading
    <3>3. n \in 0..Len(kin[Source])
      BY <3>2, LenProperties, SizesAreNat DEF Least, TypeOK
    <3>4. /\ Front(kin[Source], n) \in Seq(Nat)
          /\ Rest(kin[Source], n) \in Seq(Nat)
      BY <3>2, <3>3, FrontRest DEF TypeOK
    <3>5. pending[Dest] \o Front(kin[Source], n) \in Seq(Nat)
      BY <3>2, <3>4, ConcatProperties DEF TypeOK
    <3>6. events' \in Seq(Event)
      BY <2>6, ReadDoneType DEF RecvData, Reading
    <3> QED
      BY <2>6, <3>1, <3>4, <3>5, <3>6 DEF RecvData, TypeOK, peerVars, restVars
  <2>7. ASSUME Closes
        PROVE  TypeOK'
    BY <2>7, CloseType DEF Closes
  <2>8. ASSUME SendData
        PROVE  TypeOK'
    <3>1. PICK n \in 1..Least(Len(pending[Source]), KOut) :
              /\ kout' = [kout EXCEPT ![Source] = @ \o Front(pending[Source], n)]
              /\ pending' = [pending EXCEPT ![Source] = Rest(@, n)]
      BY <2>8 DEF SendData
    <3>2. Source \in Sock /\ Tail(events) \in Seq(Event)
      BY <2>8, FirstEvent DEF SendData, Sending, Finishing
    <3>3. n \in 0..Len(pending[Source])
      BY <3>2, LenProperties, SizesAreNat DEF Least, TypeOK
    <3>4. /\ Front(pending[Source], n) \in Seq(Nat)
          /\ Rest(pending[Source], n) \in Seq(Nat)
      BY <3>2, <3>3, FrontRest DEF TypeOK
    <3>5. kout[Source] \o Front(pending[Source], n) \in Seq(Nat)
      BY <3>2, <3>4, ConcatProperties DEF TypeOK
    <3>6. UpdateInterest(pending')
      BY <2>8 DEF SendData
    <3>7. interest' \in [Sock -> BOOLEAN] /\ data' \in [Sock -> Sock \cup {None}]
      BY <3>6, UpdateType
    <3> QED
      BY <2>8, <3>1, <3>2, <3>4, <3>5, <3>7 DEF SendData, TypeOK, peerVars, restVars
  <2>9. ASSUME NothingToSend
        PROVE  TypeOK'
    <3>1. Tail(events) \in Seq(Event)
      BY <2>9, FirstEvent DEF NothingToSend, Finishing
    <3>2. UpdateInterest(pending)
      BY <2>9 DEF NothingToSend
    <3>3. interest' \in [Sock -> BOOLEAN] /\ data' \in [Sock -> Sock \cup {None}]
      BY <3>2, UpdateType
    <3> QED
      BY <2>9, <3>1, <3>3 DEF NothingToSend, TypeOK, kernelVars, peerVars, restVars
  <2>10. CASE UNCHANGED vars
    BY <2>10 DEF vars, relayVars, kernelVars, peerVars, restVars, TypeOK
  <2> QED
    BY <2>1, <2>2, <2>3, <2>4, <2>5, <2>6, <2>7, <2>8, <2>9, <2>10,
       LoopCases DEF Next, Peer
<1> QED
  BY <1>1, <1>2, PTL DEF Spec
-----------------------------------------------------------------------------
(* What a step does to the buffers, the registrations and the events.       *)

\* A step of a peer changes nothing of the relay's own.
LEMMA PeerLeavesRelay ==
    ASSUME Peer
    PROVE  UNCHANGED <<relayVars, restVars>>
BY DEF Peer, PeerWrite, PeerRead, PeerShutdown, PeerClose, restVars

\* What RecvData moves, with its guards.
LEMMA RecvDataMoves ==
    ASSUME TypeOK, RecvData
    PROVE  /\ Source \in Sock /\ Dest \in Sock
           /\ \E n \in 0..Len(kin[Source]) :
                 /\ ~ Overflows(Dest, n)
                 /\ pending' = [pending EXCEPT ![Dest] = @ \o Front(kin[Source], n)]
                 /\ kin' = [kin EXCEPT ![Source] = Rest(@, n)]
<1>1. Source \in Sock /\ Dest \in Sock
  BY FirstEvent DEF RecvData, Reading
<1>2. PICK n \in 1..Least(Len(kin[Source]), RecvSize) :
          /\ ~ Overflows(Dest, n)
          /\ pending' = [pending EXCEPT ![Dest] = @ \o Front(kin[Source], n)]
          /\ kin' = [kin EXCEPT ![Source] = Rest(@, n)]
  BY DEF RecvData
<1>3. n \in 0..Len(kin[Source])
  BY <1>1, LenProperties, SizesAreNat DEF Least, TypeOK
<1> QED
  BY <1>1, <1>2, <1>3

\* What SendData moves, with its guard.
LEMMA SendDataMoves ==
    ASSUME TypeOK, SendData
    PROVE  /\ Source \in Sock
           /\ \E n \in 0..Len(pending[Source]) :
                 /\ Len(kout[Source]) + n <= KOut
                 /\ kout' = [kout EXCEPT ![Source] = @ \o Front(pending[Source], n)]
                 /\ pending' = [pending EXCEPT ![Source] = Rest(@, n)]
<1>1. Source \in Sock
  BY FirstEvent DEF SendData, Sending, Finishing
<1>2. PICK n \in 1..Least(Len(pending[Source]), KOut) :
          /\ Len(kout[Source]) + n <= KOut
          /\ kout' = [kout EXCEPT ![Source] = @ \o Front(pending[Source], n)]
          /\ pending' = [pending EXCEPT ![Source] = Rest(@, n)]
  BY DEF SendData
<1>3. n \in 0..Len(pending[Source])
  BY <1>1, LenProperties, SizesAreNat DEF Least, TypeOK
<1> QED
  BY <1>1, <1>2, <1>3
-----------------------------------------------------------------------------
(* The bound of the buffers.                                                *)

\* However long a peer stalls, neither output buffer outgrows MaxBuffer, for any
\* MaxBuffer, even one smaller than what one recv() returns.
THEOREM BuffersBounded == Spec => []BufferBounded
<1>1. Init => BufferBounded
  BY EmptySeq, SizesAreNat DEF Init, BufferBounded
<1>2. ASSUME TypeOK, BufferBounded, [Next]_vars
      PROVE  BufferBounded'
  <2> USE <1>2
  <2>1. CASE UNCHANGED pending
    BY <2>1 DEF BufferBounded
  <2>2. CASE RecvData
    <3>1. Source \in Sock /\ Dest \in Sock
      BY <2>2, RecvDataMoves
    <3>2. PICK n \in 0..Len(kin[Source]) :
              /\ ~ Overflows(Dest, n)
              /\ pending' = [pending EXCEPT ![Dest] = @ \o Front(kin[Source], n)]
      BY <2>2, RecvDataMoves
    <3>3. /\ kin[Source] \in Seq(Nat)
          /\ pending[Dest] \in Seq(Nat)
      BY <3>1 DEF TypeOK
    <3>4. /\ Front(kin[Source], n) \in Seq(Nat)
          /\ Len(Front(kin[Source], n)) = n
      BY <3>3, FrontRest
    <3>5. Len(pending[Dest] \o Front(kin[Source], n)) = Len(pending[Dest]) + n
      BY <3>3, <3>4, ConcatLen
    <3>6. Len(pending[Dest]) \in Nat
      BY <3>3, LenProperties
    <3>7. Len(pending[Dest]) + n <= MaxBuffer
      BY <3>2, <3>6, SizesAreNat DEF Overflows
    <3>8. pending'[Dest] = pending[Dest] \o Front(kin[Source], n)
      BY <3>1, <3>2 DEF TypeOK
    <3>9. \A s \in Sock \ {Dest} : pending'[s] = pending[s]
      BY <3>2 DEF TypeOK
    <3> QED
      BY <3>5, <3>7, <3>8, <3>9 DEF BufferBounded
  <2>3. CASE SendData
    <3>1. Source \in Sock
      BY <2>3, SendDataMoves
    <3>2. PICK n \in 0..Len(pending[Source]) :
              pending' = [pending EXCEPT ![Source] = Rest(@, n)]
      BY <2>3, SendDataMoves
    <3>3. /\ pending[Source] \in Seq(Nat)
          /\ Len(pending[Source]) \in Nat
      BY <3>1, LenProperties DEF TypeOK
    <3>4. Len(Rest(pending[Source], n)) = Len(pending[Source]) - n
      BY <3>3, FrontRest
    <3>5. Len(pending[Source]) - n <= MaxBuffer
      BY <3>1, <3>3, SizesAreNat DEF BufferBounded
    <3>6. pending'[Source] = Rest(pending[Source], n)
      BY <3>1, <3>2 DEF TypeOK
    <3>7. \A s \in Sock \ {Source} : pending'[s] = pending[s]
      BY <3>2 DEF TypeOK
    <3> QED
      BY <3>4, <3>5, <3>6, <3>7 DEF BufferBounded
  <2>4. CASE Closes
    BY <2>4, EmptySeq, SizesAreNat DEF Closes, CloseRelay, BufferBounded
  <2>5. Peer => UNCHANGED pending
    BY PeerLeavesRelay DEF relayVars
  <2>6. Select \/ SelectSpurious \/ RecvWouldBlock \/ NothingToSend => UNCHANGED pending
    BY DEF Select, SelectSpurious, RecvWouldBlock, NothingToSend
  <2>7. UNCHANGED vars => UNCHANGED pending
    BY DEF vars, relayVars
  <2> QED
    BY <2>1, <2>2, <2>3, <2>4, <2>5, <2>6, <2>7, LoopCases DEF Next
<1> QED
  BY <1>1, <1>2, TypeCorrect, PTL DEF Spec
-----------------------------------------------------------------------------
(* The registrations.                                                       *)

\* When the loop is back at select() a socket is registered for EVENT_WRITE
\* exactly when it has output: the last handler refreshed both registrations
\* after the last change to either buffer.
THEOREM InterestCorrect == Spec => []InterestMatchesPending
<1>1. Init => InterestMatchesPending
  BY DEF Init, InterestMatchesPending
<1>2. ASSUME TypeOK, InterestMatchesPending, [Next]_vars
      PROVE  InterestMatchesPending'
  <2> USE <1>2
  <2>1. CASE UNCHANGED relayVars
    BY <2>1 DEF InterestMatchesPending, relayVars
  <2>2. CASE Select \/ SelectSpurious
    <3>1. events' # <<>>
      BY <2>2 DEF Select, SelectSpurious
    <3> QED
      BY <3>1 DEF InterestMatchesPending
  <2>3. CASE RecvWouldBlock \/ RecvData
    <3>1. events' # <<>>
      BY <2>3, ReadDoneType DEF RecvWouldBlock, RecvData, Reading
    <3> QED
      BY <3>1 DEF InterestMatchesPending
  <2>4. CASE SendData \/ NothingToSend
    <3>1. UpdateInterest(pending')
      BY <2>4 DEF SendData, NothingToSend, UpdateInterest
    <3> QED
      BY <3>1 DEF InterestMatchesPending, UpdateInterest
  <2>5. CASE Closes
    BY <2>5 DEF Closes, CloseRelay, InterestMatchesPending
  <2> QED
    BY <2>1, <2>2, <2>3, <2>4, <2>5, PeerLeavesRelay, LoopCases DEF Next, vars
<1> QED
  BY <1>1, <1>2, TypeCorrect, PTL DEF Spec
-----------------------------------------------------------------------------
(* The destinations in the registrations and in the events.                 *)

\* A socket's data is its destination or, in the code as it is, None.
Registered(s, d) == d = Destination(s) \/ (d = None /\ ~ repaired)

Routed ==
    open => /\ \A s \in Sock : Registered(s, data[s])
            /\ \A i \in 1..Len(events) : Registered(events[i].sock, events[i].dest)

\* The events that are left are those of before, the first perhaps with another
\* mask.
LEMMA EventsLeft ==
    ASSUME TypeOK, events # <<>>, ReadDone \/ events' = Tail(events)
    PROVE  \A i \in 1..Len(events') :
              \E j \in 1..Len(events) :
                 /\ events'[i].sock = events[j].sock
                 /\ events'[i].dest = events[j].dest
<1>1. /\ events \in Seq(Event) /\ Len(events) \in Nat \ {0}
      /\ Tail(events) \in Seq(Event)
      /\ Len(Tail(events)) = Len(events) - 1
      /\ \A i \in 1..Len(Tail(events)) : Tail(events)[i] = events[i + 1]
  BY EmptySeq, LenProperties, HeadTailProperties DEF TypeOK
<1>2. CASE events' = Tail(events)
  <2>1. ASSUME NEW i \in 1..Len(events')
        PROVE  i + 1 \in 1..Len(events) /\ events'[i] = events[i + 1]
    BY <1>1, <1>2
  <2> QED
    BY <2>1
<1>3. CASE ReadDone
  <2> DEFINE done == [events[1] EXCEPT !.read = FALSE]
  <2>1. done \in Event /\ done.sock = events[1].sock /\ done.dest = events[1].dest
    BY FirstEvent DEF Event
  <2>2. events' = <<done>> \o Tail(events)
    BY <1>3 DEF ReadDone
  <2>4. /\ Len(events') = Len(events)
        /\ events'[1] = done
        /\ \A i \in 2..Len(events') : events'[i] = Tail(events)[i - 1]
    <3> HIDE DEF done
    <3>1. /\ Len(<<done>> \o Tail(events)) = 1 + Len(Tail(events))
          /\ (<<done>> \o Tail(events))[1] = done
          /\ \A i \in 2..(1 + Len(Tail(events))) :
                (<<done>> \o Tail(events))[i] = Tail(events)[i - 1]
      BY <1>1, <2>1, Prepend
    <3>2. 1 + Len(Tail(events)) = Len(events)
      BY <1>1
    <3> QED
      BY <2>2, <3>1, <3>2
  <2> HIDE DEF done
  <2>5. ASSUME NEW i \in 1..Len(events')
        PROVE  /\ i \in 1..Len(events)
               /\ events'[i].sock = events[i].sock
               /\ events'[i].dest = events[i].dest
    <3>1. i \in Nat /\ i \in 1..Len(events)
      BY <1>1, <2>4
    <3>2. CASE i = 1
      BY <2>1, <2>4, <3>1, <3>2
    <3>3. CASE i > 1
      <4>1. i - 1 \in 1..Len(Tail(events)) /\ (i - 1) + 1 = i
        BY <1>1, <3>1, <3>3
      <4>2. events'[i] = Tail(events)[i - 1]
        BY <1>1, <2>4, <3>1, <3>3
      <4>3. Tail(events)[i - 1] = events[i]
        BY <1>1, <4>1
      <4> QED
        BY <3>1, <4>2, <4>3
    <3> QED
      BY <3>1, <3>2, <3>3
  <2> QED
    BY <2>5
<1> QED
  BY <1>2, <1>3

LEMMA UpdateRoutes ==
    ASSUME NEW buffers, UpdateInterest(buffers), UNCHANGED repaired,
           \A s \in Sock : Registered(s, data[s])
    PROVE  \A s \in Sock : Registered(s, data[s])'
BY DEF UpdateInterest, ModifiedData, Registered

\* Every event names the socket its bytes are for, or nothing.
THEOREM RoutedCorrect == Spec => []Routed
<1>1. Init => Routed
  BY EmptySeq DEF Init, Routed, Registered
<1>2. ASSUME TypeOK, Routed, [Next]_vars
      PROVE  Routed'
  <2> USE <1>2
  <2>1. CASE UNCHANGED <<open, data, events, repaired>>
    BY <2>1 DEF Routed, Registered
  <2>2. CASE Select \/ SelectSpurious
    <3>1. \A s \in Sock : Registered(s, data[s])
      BY <2>2 DEF Routed, Select, SelectSpurious
    <3>2. \A s \in Sock : Mask(s).sock = s /\ Mask(s).dest = data[s]
      BY DEF Mask
    <3>3. \A s \in Sock : /\ [Mask(s) EXCEPT !.read = TRUE].sock = s
                          /\ [Mask(s) EXCEPT !.read = TRUE].dest = data[s]
      BY DEF Mask
    <3>4. UNCHANGED <<open, data, repaired>>
      BY <2>2 DEF Select, SelectSpurious, restVars
    <3>5. \A i \in 1..Len(events') :
             \E s \in Sock : events'[i].sock = s /\ events'[i].dest = data[s]
      <4>1. CASE \E s \in Sock : events' = <<Mask(s), Mask(Destination(s))>>
        BY <3>2, <4>1, Destinations
      <4>2. CASE \E s \in Sock : events' = <<Mask(s)>>
        BY <3>2, <4>2
      <4>3. CASE \E s \in Sock : events' = <<[Mask(s) EXCEPT !.read = TRUE]>>
        <5>1. PICK s \in Sock : events' = <<[Mask(s) EXCEPT !.read = TRUE]>>
          BY <4>3
        <5> DEFINE m == [Mask(s) EXCEPT !.read = TRUE]
        <5>2. m.sock = s /\ m.dest = data[s]
          BY <3>3
        <5> HIDE DEF m
        <5>3. events' = <<m>>
          BY <5>1 DEF m
        <5> QED
          BY <5>2, <5>3
      <4> QED
        BY <2>2, <4>1, <4>2, <4>3 DEF Select, SelectSpurious
    <3> QED
      BY <3>1, <3>4, <3>5 DEF Routed, Registered
  <2>3. CASE RecvWouldBlock \/ RecvData
    <3>1. /\ open /\ events # <<>> /\ ReadDone
          /\ UNCHANGED <<open, data, repaired>>
      BY <2>3 DEF RecvWouldBlock, RecvData, Reading, restVars
    <3>2. \A i \in 1..Len(events') :
             \E j \in 1..Len(events) :
                /\ events'[i].sock = events[j].sock
                /\ events'[i].dest = events[j].dest
      BY <3>1, EventsLeft
    <3> QED
      BY <3>1, <3>2 DEF Routed, Registered
  <2>4. CASE SendData \/ NothingToSend
    <3>1. /\ open /\ events # <<>> /\ events' = Tail(events)
          /\ UNCHANGED <<open, repaired>>
      BY <2>4 DEF SendData, NothingToSend, Sending, Finishing, restVars
    <3>2. \A i \in 1..Len(events') :
             \E j \in 1..Len(events) :
                /\ events'[i].sock = events[j].sock
                /\ events'[i].dest = events[j].dest
      BY <3>1, EventsLeft
    <3>3. UpdateInterest(pending')
      BY <2>4 DEF SendData, NothingToSend, UpdateInterest
    <3>4. \A s \in Sock : Registered(s, data[s])'
      BY <3>1, <3>3, UpdateRoutes DEF Routed
    <3> QED
      BY <3>1, <3>2, <3>4 DEF Routed, Registered
  <2>5. CASE Closes
    BY <2>5 DEF Closes, CloseRelay, Routed
  <2> QED
    BY <2>1, <2>2, <2>3, <2>4, <2>5, PeerLeavesRelay, LoopCases
       DEF Next, vars, relayVars, restVars
<1> QED
  BY <1>1, <1>2, TypeCorrect, PTL DEF Spec
-----------------------------------------------------------------------------
(* The streams.                                                             *)

\* A byte that moves to the queue before the one it was in stays at its place in
\* the stream; so does one appended at the end.
LEMMA MoveBetween ==
    ASSUME NEW a \in Seq(Nat), NEW b \in Seq(Nat), NEW q \in Seq(Nat), NEW n \in 0..Len(q)
    PROVE  (a \o (b \o Front(q, n))) \o Rest(q, n) = (a \o b) \o q
<1>1. Front(q, n) \in Seq(Nat) /\ a \o b \in Seq(Nat)
  BY FrontRest, ConcatLen
<1>2. a \o (b \o Front(q, n)) = (a \o b) \o Front(q, n)
  BY <1>1, ConcatNat, ZenonT(30)
<1>3. ((a \o b) \o Front(q, n)) \o Rest(q, n) = (a \o b) \o q
  BY <1>1, MoveFront
<1> QED
  BY <1>2, <1>3

LEMMA AppendLast ==
    ASSUME NEW a \in Seq(Nat), NEW q \in Seq(Nat), NEW e \in Nat
    PROVE  a \o Append(q, e) = Append(a \o q, e)
<1>1. <<e>> \in Seq(Nat) /\ a \o q \in Seq(Nat)
  BY ConcatLen
<1>2. Append(q, e) = q \o <<e>> /\ Append(a \o q, e) = (a \o q) \o <<e>>
  BY <1>1, AppendIsConcat
<1> QED
  BY <1>1, <1>2, ConcatNat

\* One queue of one socket changes, and the streams stay as they were.
StreamsKept == \A s \in Sock : Stream(s)' = Stream(s)

LEMMA ReadKeepsStreams ==
    ASSUME TypeOK, NEW t \in Sock, PeerRead(t)
    PROVE  StreamsKept
<1>1. PICK n \in 1..Len(kout[t]) :
          /\ read' = [read EXCEPT ![t] = @ \o Front(kout[t], n)]
          /\ kout' = [kout EXCEPT ![t] = Rest(@, n)]
  BY DEF PeerRead
<1>2. n \in 0..Len(kout[t])
  BY LenProperties DEF TypeOK
<1>3. ASSUME NEW s \in Sock
      PROVE  Stream(s)' = Stream(s)
  <2>1. /\ Destination(s) \in Sock
        /\ pending' = pending /\ kin' = kin
    BY Destinations DEF PeerRead, relayVars
  <2>2. /\ read[Destination(s)] \in Seq(Nat) /\ kout[Destination(s)] \in Seq(Nat)
        /\ pending[Destination(s)] \in Seq(Nat) /\ kin[s] \in Seq(Nat)
    BY <2>1 DEF TypeOK
  <2>3. CASE Destination(s) = t
    <3>1. /\ read'[t] = read[t] \o Front(kout[t], n)
          /\ kout'[t] = Rest(kout[t], n)
      BY <1>1 DEF TypeOK
    <3> QED
      <4>1. (read[t] \o Front(kout[t], n)) \o Rest(kout[t], n) = read[t] \o kout[t]
        BY <1>2, <2>2, <2>3, MoveFront
      <4> QED
        BY <2>1, <2>3, <3>1, <4>1 DEF Stream
  <2>4. CASE Destination(s) # t
    <3>1. /\ read'[Destination(s)] = read[Destination(s)]
          /\ kout'[Destination(s)] = kout[Destination(s)]
      BY <1>1, <2>1, <2>4 DEF TypeOK
    <3> QED
      BY <2>1, <3>1 DEF Stream
  <2> QED
    BY <2>3, <2>4
<1> QED
  BY <1>3 DEF StreamsKept

LEMMA RecvKeepsStreams ==
    ASSUME TypeOK, Routed, RecvData
    PROVE  StreamsKept
<1>1. Source \in Sock /\ Dest \in Sock
  BY RecvDataMoves
<1>2. PICK n \in 0..Len(kin[Source]) :
          /\ pending' = [pending EXCEPT ![Dest] = @ \o Front(kin[Source], n)]
          /\ kin' = [kin EXCEPT ![Source] = Rest(@, n)]
  BY RecvDataMoves
<1>3. Dest = Destination(Source)
  <2>1. open /\ events # <<>>
    BY DEF RecvData, Reading
  <2>2. 1 \in 1..Len(events)
    BY <2>1, EmptySeq DEF TypeOK
  <2>3. Registered(Source, Dest)
    BY <2>1, <2>2 DEF Routed, Source, Dest
  <2> QED
    BY <1>1, <2>3, SocketsDiffer DEF Registered, Sock
<1>4. ASSUME NEW s \in Sock
      PROVE  Stream(s)' = Stream(s)
  <2>1. /\ Destination(s) \in Sock
        /\ read' = read /\ kout' = kout
    BY Destinations DEF RecvData, peerVars
  <2>2. /\ read[Destination(s)] \in Seq(Nat) /\ kout[Destination(s)] \in Seq(Nat)
        /\ pending[Destination(s)] \in Seq(Nat) /\ kin[s] \in Seq(Nat)
    BY <2>1 DEF TypeOK
  <2>3. CASE s = Source
    <3>1. /\ pending'[Dest] = pending[Dest] \o Front(kin[Source], n)
          /\ kin'[Source] = Rest(kin[Source], n)
      BY <1>1, <1>2 DEF TypeOK
    <3> DEFINE before == read[Dest] \o kout[Dest]
    <3>2. before \in Seq(Nat)
      <4>1. read[Dest] \in Seq(Nat) /\ kout[Dest] \in Seq(Nat)
        BY <1>3, <2>2, <2>3
      <4> QED
        BY <4>1, ConcatLen
    <3>3. Stream(s)' = (before \o pending'[Dest]) \o kin'[s]
      BY <1>3, <2>1, <2>3 DEF Stream
    <3>4. Stream(s) = (before \o pending[Dest]) \o kin[s]
      BY <1>3, <2>3 DEF Stream
    <3> HIDE DEF before
    <3>5. (before \o (pending[Dest] \o Front(kin[Source], n))) \o Rest(kin[Source], n)
              = (before \o pending[Dest]) \o kin[Source]
      <4>1. pending[Dest] \in Seq(Nat) /\ kin[Source] \in Seq(Nat)
        BY <1>3, <2>2, <2>3
      <4> QED
        BY <1>2, <3>2, <4>1, MoveBetween, ZenonT(30)
    <3> QED
      BY <2>3, <3>1, <3>3, <3>4, <3>5
  <2>4. CASE s # Source
    <3>1. Destination(s) # Dest
      BY <1>1, <1>3, <2>4, Destinations
    <3>2. /\ pending'[Destination(s)] = pending[Destination(s)]
          /\ kin'[s] = kin[s]
      BY <1>2, <2>1, <2>4, <3>1 DEF TypeOK
    <3> QED
      BY <2>1, <3>2 DEF Stream
  <2> QED
    BY <2>3, <2>4
<1> QED
  BY <1>4 DEF StreamsKept

LEMMA SendKeepsStreams ==
    ASSUME TypeOK, SendData
    PROVE  StreamsKept
<1>1. Source \in Sock
  BY SendDataMoves
<1>2. PICK n \in 0..Len(pending[Source]) :
          /\ kout' = [kout EXCEPT ![Source] = @ \o Front(pending[Source], n)]
          /\ pending' = [pending EXCEPT ![Source] = Rest(@, n)]
  BY SendDataMoves
<1>3. ASSUME NEW s \in Sock
      PROVE  Stream(s)' = Stream(s)
  <2>1. /\ Destination(s) \in Sock
        /\ read' = read /\ kin' = kin
    BY Destinations DEF SendData, peerVars
  <2>2. /\ read[Destination(s)] \in Seq(Nat) /\ kout[Destination(s)] \in Seq(Nat)
        /\ pending[Destination(s)] \in Seq(Nat) /\ kin[s] \in Seq(Nat)
    BY <2>1 DEF TypeOK
  <2>3. CASE Destination(s) = Source
    <3>1. /\ kout'[Source] = kout[Source] \o Front(pending[Source], n)
          /\ pending'[Source] = Rest(pending[Source], n)
      BY <1>1, <1>2 DEF TypeOK
    <3> QED
      <4>1. (read[Source] \o (kout[Source] \o Front(pending[Source], n)))
                \o Rest(pending[Source], n) = (read[Source] \o kout[Source]) \o pending[Source]
        BY <2>2, <2>3, MoveBetween
      <4> QED
        BY <2>1, <2>3, <3>1, <4>1 DEF Stream
  <2>4. CASE Destination(s) # Source
    <3>1. /\ kout'[Destination(s)] = kout[Destination(s)]
          /\ pending'[Destination(s)] = pending[Destination(s)]
      BY <1>2, <2>1, <2>4 DEF TypeOK
    <3> QED
      BY <2>1, <3>1 DEF Stream
  <2> QED
    BY <2>3, <2>4
<1> QED
  BY <1>3 DEF StreamsKept

\* While the relay serves a connection, what each peer has written is what the
\* other has read, what the kernel, the buffer and the kernel hold for it, in this
\* order, for every sequence of partial receives and sends.
THEOREM StreamCorrect == Spec => []StreamIntact
<1>1. Init => StreamIntact
  <2>1. <<>> \o <<>> = <<>>
    BY EmptySeq, ConcatEmptySeq
  <2> QED
    BY <2>1, Destinations DEF Init, StreamIntact, Stream
<1>2. ASSUME TypeOK, Routed, StreamIntact, [Next]_vars
      PROVE  StreamIntact'
  <2> USE <1>2
  <2>1. ASSUME NEW t \in Sock, PeerWrite(t)
        PROVE  StreamIntact'
    <3> DEFINE byte == Len(written[t]) + 1
    <3>1. /\ written' = [written EXCEPT ![t] = Append(@, byte)]
          /\ kin' = [kin EXCEPT ![t] = Append(@, byte)]
          /\ open /\ open' = open /\ pending' = pending
          /\ kout' = kout /\ read' = read
      BY <2>1 DEF PeerWrite, relayVars
    <3>2. byte \in Nat
      BY LenProperties DEF TypeOK
    <3> HIDE DEF byte
    <3>3. ASSUME NEW s \in Sock
          PROVE  written'[s] = Stream(s)'
      <4>1. /\ written[s] = Stream(s)
            /\ Destination(s) \in Sock
        BY <3>1, Destinations DEF StreamIntact
      <4>2. /\ read[Destination(s)] \in Seq(Nat) /\ kout[Destination(s)] \in Seq(Nat)
            /\ pending[Destination(s)] \in Seq(Nat) /\ kin[s] \in Seq(Nat)
        BY <4>1 DEF TypeOK
      <4>3. CASE s = t
        <5>1. /\ written'[s] = Append(written[s], byte)
              /\ kin'[s] = Append(kin[s], byte)
          BY <3>1, <4>3 DEF TypeOK
        <5> DEFINE d == Destination(s)
                   before == (read[d] \o kout[d]) \o pending[d]
        <5>2. before \in Seq(Nat)
          BY <4>2, ConcatLen
        <5>3. Stream(s) = before \o kin[s]
          BY DEF Stream
        <5>4. Stream(s)' = before \o kin'[s]
          BY <3>1 DEF Stream
        <5> HIDE DEF before
        <5>5. before \o Append(kin[s], byte) = Append(before \o kin[s], byte)
          BY <3>2, <4>2, <5>2, AppendLast
        <5> QED
          BY <4>1, <5>1, <5>3, <5>4, <5>5
      <4>4. CASE s # t
        <5>1. written'[s] = written[s] /\ kin'[s] = kin[s]
          BY <3>1, <4>4 DEF TypeOK
        <5> QED
          BY <3>1, <4>1, <5>1 DEF Stream
      <4> QED
        BY <4>3, <4>4
    <3> QED
      BY <3>3 DEF StreamIntact
  <2>2. ASSUME NEW t \in Sock, PeerRead(t)
        PROVE  StreamIntact'
    <3>1. written' = written /\ open' = open
      BY <2>2 DEF PeerRead, relayVars
    <3> QED
      BY <2>2, <3>1, ReadKeepsStreams DEF StreamIntact, StreamsKept
  <2>3. CASE RecvData
    <3>1. written' = written /\ open' = open
      BY <2>3 DEF RecvData, peerVars
    <3> QED
      BY <2>3, <3>1, RecvKeepsStreams DEF StreamIntact, StreamsKept
  <2>4. CASE SendData
    <3>1. written' = written /\ open' = open
      BY <2>4 DEF SendData, peerVars
    <3> QED
      BY <2>4, <3>1, SendKeepsStreams DEF StreamIntact, StreamsKept
  <2>5. CASE Closes
    BY <2>5 DEF Closes, CloseRelay, StreamIntact
  <2>6. CASE UNCHANGED <<open, pending, kernelVars, written, read>>
    BY <2>6 DEF StreamIntact, Stream, kernelVars
  <2>7. \A t \in Sock : PeerShutdown(t) \/ PeerClose(t) =>
                           UNCHANGED <<open, pending, kernelVars, written, read>>
    BY DEF PeerShutdown, PeerClose, relayVars
  <2>8. Select \/ SelectSpurious \/ RecvWouldBlock \/ NothingToSend =>
            UNCHANGED <<open, pending, kernelVars, written, read>>
    BY DEF Select, SelectSpurious, RecvWouldBlock, NothingToSend, peerVars
  <2>9. UNCHANGED vars => UNCHANGED <<open, pending, kernelVars, written, read>>
    BY DEF vars, relayVars, peerVars
  <2> QED
    BY <2>1, <2>2, <2>3, <2>4, <2>5, <2>6, <2>7, <2>8, <2>9, LoopCases DEF Next, Peer
<1> QED
  BY <1>1, <1>2, TypeCorrect, RoutedCorrect, PTL DEF Spec
-----------------------------------------------------------------------------
(* The relay implements RelayPipe.                                          *)

\* What a peer has read and can still read is the beginning of what the other
\* has written, also after the relay has closed.
Delivered ==
    \A s \in Sock : \E rest \in Seq(Nat) :
        written[s] = (read[Destination(s)] \o kout[Destination(s)]) \o rest

KernelBounded == \A s \in Sock : Len(kout[s]) <= KOut

LEMMA LoopNeedsOpen == Loop => open
BY DEF Loop, Select, SelectSpurious, RecvWouldBlock, RecvEnds, RecvData,
       RecvWithoutDestination, RecvOverflow, SendData, SendWouldBlock, SendFails,
       NothingToSend, Reading, Sending, Finishing

LEMMA OpenDelivers == ASSUME TypeOK, StreamIntact, open PROVE Delivered
<1>1. ASSUME NEW s \in Sock
      PROVE  \E rest \in Seq(Nat) :
                 written[s] = (read[Destination(s)] \o kout[Destination(s)]) \o rest
  <2> DEFINE d == Destination(s)
  <2>1. d \in Sock
    BY Destinations
  <2>2. /\ read[d] \in Seq(Nat) /\ kout[d] \in Seq(Nat)
        /\ pending[d] \in Seq(Nat) /\ kin[s] \in Seq(Nat)
    BY <2>1 DEF TypeOK
  <2>3. read[d] \o kout[d] \in Seq(Nat) /\ pending[d] \o kin[s] \in Seq(Nat)
    BY <2>2, ConcatLen
  <2>4. written[s] = ((read[d] \o kout[d]) \o pending[d]) \o kin[s]
    BY DEF StreamIntact, Stream
  <2>5. ((read[d] \o kout[d]) \o pending[d]) \o kin[s]
            = (read[d] \o kout[d]) \o (pending[d] \o kin[s])
    <3> DEFINE x == read[d] \o kout[d]
    <3>1. x \in Seq(Nat)
      BY <2>3
    <3> HIDE DEF x, d
    <3>2. (x \o pending[d]) \o kin[s] = x \o (pending[d] \o kin[s])
      BY <2>2, <3>1, ConcatNat
    <3> QED
      BY <3>2 DEF x
  <2> QED
    BY <2>3, <2>4, <2>5
<1> QED
  BY <1>1 DEF Delivered

LEMMA OpenDeliversNext == TypeOK' /\ StreamIntact' /\ open' => Delivered'
<1>1. TypeOK /\ StreamIntact /\ open => Delivered
  BY OpenDelivers
<1> QED
  BY <1>1, PTL

LEMMA DeliveredCorrect == Spec => []Delivered
<1>1. Init => Delivered
  <2>1. <<>> \in Seq(Nat) /\ (<<>> \o <<>>) \o <<>> = <<>>
    BY EmptySeq, ConcatEmptySeq
  <2> QED
    BY <2>1, Destinations DEF Init, Delivered
<1>2. ASSUME TypeOK, StreamIntact, Delivered, [Next]_vars, TypeOK', StreamIntact'
      PROVE  Delivered'
  <2> USE <1>2
  <2>1. CASE open'
    BY <2>1, OpenDeliversNext
  <2>2. CASE Closes
    <3>1. written' = written /\ read' = read
      BY <2>2 DEF Closes, peerVars
    <3>2. \A s \in Sock : kout'[s] = kout[s] \/ kout'[s] = <<>>
      BY <2>2 DEF Closes, CloseRelay
    <3>3. ASSUME NEW s \in Sock
          PROVE  \E rest \in Seq(Nat) :
                     written'[s] = (read'[Destination(s)] \o kout'[Destination(s)]) \o rest
      <4> DEFINE d == Destination(s)
      <4>1. d \in Sock
        BY Destinations
      <4>2. read[d] \in Seq(Nat) /\ kout[d] \in Seq(Nat)
        BY <4>1 DEF TypeOK
      <4>3. PICK rest \in Seq(Nat) : written[s] = (read[d] \o kout[d]) \o rest
        BY DEF Delivered
      <4> HIDE DEF d
      <4>4. CASE kout'[d] = kout[d]
        BY <3>1, <4>3, <4>4 DEF d
      <4>5. CASE kout'[d] = <<>>
        <5>1. kout[d] \o rest \in Seq(Nat)
          BY <4>2, ConcatLen
        <5>2. read[d] \o <<>> = read[d]
          BY <4>2, ConcatEmptySeq
        <5>3. (read[d] \o kout[d]) \o rest = read[d] \o (kout[d] \o rest)
          BY <4>2, ConcatNat
        <5> QED
          BY <3>1, <4>3, <4>5, <5>1, <5>2, <5>3 DEF d
      <4> QED
        BY <3>2, <4>1, <4>4, <4>5
    <3> QED
      BY <3>3 DEF Delivered
  <2>3. ASSUME NEW t \in Sock, PeerRead(t)
        PROVE  Delivered'
    <3>1. PICK n \in 1..Len(kout[t]) :
              /\ read' = [read EXCEPT ![t] = @ \o Front(kout[t], n)]
              /\ kout' = [kout EXCEPT ![t] = Rest(@, n)]
      BY <2>3 DEF PeerRead
    <3>2. n \in 0..Len(kout[t])
      BY LenProperties DEF TypeOK
    <3>3. (read[t] \o Front(kout[t], n)) \o Rest(kout[t], n) = read[t] \o kout[t]
      <4>1. read[t] \in Seq(Nat) /\ kout[t] \in Seq(Nat)
        BY DEF TypeOK
      <4> QED
        BY <3>2, <4>1, MoveFront
    <3>4. \A d \in Sock : read'[d] \o kout'[d] = read[d] \o kout[d]
      BY <3>1, <3>3 DEF TypeOK
    <3>5. written' = written
      BY <2>3 DEF PeerRead
    <3> QED
      BY <3>4, <3>5, Destinations DEF Delivered
  <2>4. CASE UNCHANGED <<written, read, kout>>
    BY <2>4 DEF Delivered
  <2>5. ASSUME NEW t \in Sock
        PROVE  /\ PeerWrite(t) => open'
               /\ PeerShutdown(t) \/ PeerClose(t) => UNCHANGED <<written, read, kout>>
    BY DEF PeerWrite, PeerShutdown, PeerClose, relayVars, kernelVars
  <2>6. ASSUME Loop
        PROVE  open' \/ Closes
    <3>1. open
      BY <2>6, LoopNeedsOpen
    <3>2. Closes \/ open' = open
      BY <2>6, LoopCases DEF Select, SelectSpurious, RecvWouldBlock, RecvData,
         SendData, NothingToSend
    <3> QED
      BY <3>1, <3>2
  <2>7. UNCHANGED vars => UNCHANGED <<written, read, kout>>
    BY DEF vars, kernelVars, peerVars
  <2> QED
    BY <2>1, <2>2, <2>3, <2>4, <2>5, <2>6, <2>7 DEF Next, Peer
<1> QED
  BY <1>1, <1>2, TypeCorrect, StreamCorrect, PTL DEF Spec

LEMMA KernelCorrect == Spec => []KernelBounded
<1>1. Init => KernelBounded
  BY EmptySeq, SizesAreNat DEF Init, KernelBounded
<1>2. ASSUME TypeOK, KernelBounded, [Next]_vars
      PROVE  KernelBounded'
  <2> USE <1>2
  <2>1. CASE UNCHANGED kout
    BY <2>1 DEF KernelBounded
  <2>2. ASSUME NEW t \in Sock, PeerRead(t)
        PROVE  KernelBounded'
    <3>1. PICK n \in 1..Len(kout[t]) : kout' = [kout EXCEPT ![t] = Rest(@, n)]
      BY <2>2 DEF PeerRead
    <3>2. kout[t] \in Seq(Nat) /\ Len(kout[t]) \in Nat /\ n \in 0..Len(kout[t])
      BY LenProperties DEF TypeOK
    <3>3. Len(Rest(kout[t], n)) <= KOut
      <4>1. Len(Rest(kout[t], n)) = Len(kout[t]) - n
        BY <3>2, FrontRest
      <4> QED
        BY <3>2, <4>1, SizesAreNat DEF KernelBounded
    <3>4. \A s \in Sock : kout'[s] = IF s = t THEN Rest(kout[t], n) ELSE kout[s]
      BY <3>1 DEF TypeOK
    <3> QED
      BY <3>3, <3>4 DEF KernelBounded
  <2>3. CASE SendData
    <3>1. Source \in Sock
      BY <2>3, SendDataMoves
    <3>2. PICK n \in 0..Len(pending[Source]) :
              /\ Len(kout[Source]) + n <= KOut
              /\ kout' = [kout EXCEPT ![Source] = @ \o Front(pending[Source], n)]
      BY <2>3, SendDataMoves
    <3>3. pending[Source] \in Seq(Nat) /\ kout[Source] \in Seq(Nat)
      BY <3>1 DEF TypeOK
    <3>4. Len(kout[Source] \o Front(pending[Source], n)) <= KOut
      <4>1. /\ Front(pending[Source], n) \in Seq(Nat)
            /\ Len(Front(pending[Source], n)) = n
        BY <3>3, FrontRest
      <4>2. Len(kout[Source] \o Front(pending[Source], n)) = Len(kout[Source]) + n
        BY <3>3, <4>1, ConcatLen
      <4> QED
        BY <3>2, <4>2
    <3>5. \A s \in Sock : kout'[s] = IF s = Source
                                     THEN kout[Source] \o Front(pending[Source], n)
                                     ELSE kout[s]
      BY <3>2 DEF TypeOK
    <3> QED
      BY <3>4, <3>5 DEF KernelBounded
  <2>4. CASE Closes
    <3>1. \A s \in Sock : kout'[s] = kout[s] \/ kout'[s] = <<>>
      BY <2>4 DEF Closes, CloseRelay
    <3> QED
      BY <3>1, EmptySeq, SizesAreNat DEF KernelBounded
  <2>5. \A t \in Sock : PeerWrite(t) \/ PeerShutdown(t) \/ PeerClose(t) => UNCHANGED kout
    BY DEF PeerWrite, PeerShutdown, PeerClose, kernelVars
  <2>6. Select \/ SelectSpurious \/ RecvWouldBlock \/ RecvData \/ NothingToSend => UNCHANGED kout
    BY DEF Select, SelectSpurious, RecvWouldBlock, RecvData, NothingToSend, kernelVars
  <2>7. UNCHANGED vars => UNCHANGED kout
    BY DEF vars, kernelVars
  <2> QED
    BY <2>1, <2>2, <2>3, <2>4, <2>5, <2>6, <2>7, LoopCases DEF Next, Peer
<1> QED
  BY <1>1, <1>2, TypeCorrect, PTL DEF Spec

LEMMA PrefixIsSubSeq ==
    ASSUME NEW a \in Seq(Nat), NEW b \in Seq(Nat)
    PROVE  /\ SubSeq(a \o b, 1, Len(a)) = a
           /\ Len(a) <= Len(a \o b)
<1>1. /\ Len(a) \in Nat /\ Len(b) \in Nat
      /\ a \o b \in Seq(Nat)
      /\ Len(a \o b) = Len(a) + Len(b)
  BY ConcatLen, LenProperties
<1>2. \A i \in 1..Len(a) : (a \o b)[i] = a[i] /\ a[i] \in Nat
  <2>1. \A i \in 1..Len(a) + Len(b) :
            (a \o b)[i] = IF i <= Len(a) THEN a[i] ELSE b[i - Len(a)]
    BY ONLY ConcatProperties, a \in Seq(Nat), b \in Seq(Nat)
  <2>2. \A i \in 1..Len(a) : a[i] \in Nat
    BY ElementOfSeq
  <2> QED
    BY <1>1, <2>1, <2>2
<1>3. /\ SubSeq(a \o b, 1, Len(a)) \in Seq(Nat)
      /\ Len(SubSeq(a \o b, 1, Len(a))) = Len(a)
      /\ \A i \in 1..Len(a) : SubSeq(a \o b, 1, Len(a))[i] = a[i]
  <2> DEFINE ab == a \o b
  <2>1. \A i \in 1..Len(a) : ab[i] \in Nat /\ ab[i] = a[i]
    BY <1>2
  <2> HIDE DEF ab
  <2>2. /\ SubSeq(ab, 1, Len(a)) \in Seq(Nat)
        /\ Len(SubSeq(ab, 1, Len(a))) = IF 1 <= Len(a) THEN Len(a) - 1 + 1 ELSE 0
        /\ \A i \in 1..(Len(a) - 1 + 1) : SubSeq(ab, 1, Len(a))[i] = ab[1 + i - 1]
    <3>1. 1 \in Int /\ Len(a) \in Int /\ \A i \in 1..Len(a) : ab[i] \in Nat
      BY <1>1, <2>1
    <3> QED
      BY <3>1, SubSeqProperties
  <2>3. /\ SubSeq(ab, 1, Len(a)) \in Seq(Nat)
        /\ Len(SubSeq(ab, 1, Len(a))) = Len(a)
        /\ \A i \in 1..Len(a) : SubSeq(ab, 1, Len(a))[i] = ab[i]
    <3>1. Len(a) - 1 + 1 = Len(a) /\ \A i \in 1..Len(a) : 1 + i - 1 = i
      BY <1>1
    <3> QED
      BY <1>1, <2>2, <3>1
  <2> QED
    BY <2>1, <2>3 DEF ab
<1>4. SubSeq(a \o b, 1, Len(a)) = a
  BY <1>3, SeqEqual
<1> QED
  BY <1>1, <1>4

LEMMA WindowSum ==
    ASSUME NEW r \in Nat, NEW o \in Nat, NEW p \in Nat, NEW i \in Nat,
           NEW ko \in Nat, NEW mb \in Nat, NEW ki \in Nat,
           o <= ko, p <= mb, i < ki
    PROVE  r + o + p + i < r + (ki + mb + ko)
OBVIOUS

\* The relay is a pair of byte streams: what a peer reads is what the other wrote,
\* in order and without gaps, at most a window of KIn + MaxBuffer + KOut bytes
\* behind, until the pair is cut off; nothing that was read is ever taken back.
THEOREM RelayImplementsPipe == Spec => PipeSpec
<1>1. Init => Pipe!Init
  BY DEF Init, Pipe!Init
<1>2. ASSUME TypeOK, TypeOK', StreamIntact, BufferBounded, KernelBounded, Delivered',
             [Next]_vars
      PROVE  [Pipe!Next]_(Pipe!vars)
  <2> USE <1>2
  <2>1. ASSUME NEW t \in Sock, PeerWrite(t)
        PROVE  Pipe!Write(t)
    <3> DEFINE d == Destination(t)
    <3>1. /\ d \in Sock
          /\ Len(read[d]) \in Nat /\ Len(kout[d]) \in Nat
          /\ Len(pending[d]) \in Nat /\ Len(kin[t]) \in Nat
          /\ read[d] \in Seq(Nat) /\ kout[d] \in Seq(Nat)
          /\ pending[d] \in Seq(Nat) /\ kin[t] \in Seq(Nat)
      <4>1. d \in Sock
        BY Destinations
      <4> HIDE DEF d
      <4>2. /\ read[d] \in Seq(Nat) /\ kout[d] \in Seq(Nat)
            /\ pending[d] \in Seq(Nat) /\ kin[t] \in Seq(Nat)
        BY <4>1 DEF TypeOK
      <4> QED
        BY <4>1, <4>2, LenProperties
    <3>2. written[t] = ((read[d] \o kout[d]) \o pending[d]) \o kin[t]
      BY <2>1 DEF PeerWrite, StreamIntact, Stream
    <3>3. Len(written[t]) = Len(read[d]) + Len(kout[d]) + Len(pending[d]) + Len(kin[t])
      <4> HIDE DEF d
      <4>1. /\ read[d] \o kout[d] \in Seq(Nat)
            /\ Len(read[d] \o kout[d]) = Len(read[d]) + Len(kout[d])
        BY <3>1, ConcatLen
      <4> DEFINE x == read[d] \o kout[d]
      <4>2. x \in Seq(Nat) /\ Len(x) = Len(read[d]) + Len(kout[d])
        BY <4>1
      <4>3. written[t] = (x \o pending[d]) \o kin[t]
        BY <3>2
      <4> HIDE DEF x
      <4>4. /\ x \o pending[d] \in Seq(Nat)
            /\ Len(x \o pending[d]) = Len(x) + Len(pending[d])
        BY <3>1, <4>2, ConcatLen
      <4> DEFINE y == x \o pending[d]
      <4>5. y \in Seq(Nat) /\ Len(y) = Len(x) + Len(pending[d]) /\ written[t] = y \o kin[t]
        BY <4>3, <4>4
      <4> HIDE DEF y
      <4>6. Len(written[t]) = Len(y) + Len(kin[t])
        BY <3>1, <4>5, ConcatLen
      <4> QED
        BY <3>1, <4>2, <4>5, <4>6
    <3>4. /\ Len(kout[d]) <= KOut /\ Len(pending[d]) <= MaxBuffer /\ Len(kin[t]) < KIn
      BY <2>1, <3>1 DEF PeerWrite, KernelBounded, BufferBounded
    <3>5. Len(written[t]) < Len(read[d]) + (KIn + MaxBuffer + KOut)
      <4>1. KIn \in Nat /\ MaxBuffer \in Nat /\ KOut \in Nat
        BY SizesAreNat
      <4> HIDE DEF d
      <4>2. Len(read[d]) + Len(kout[d]) + Len(pending[d]) + Len(kin[t])
                < Len(read[d]) + (KIn + MaxBuffer + KOut)
        BY <3>1, <3>4, <4>1, WindowSum
      <4> QED
        BY <3>3, <4>2
    <3>6. Len(written[t]) + 1 \in 1..MaxBytes
      <4>1. Len(written[t]) \in Nat /\ Len(written[t]) < MaxBytes
        BY <2>1, LenProperties DEF PeerWrite, TypeOK
      <4> QED
        BY <4>1, SizesAreNat
    <3>7. /\ open /\ open' = open /\ read' = read
          /\ written' = [written EXCEPT ![t] = Append(@, Len(written[t]) + 1)]
      BY <2>1 DEF PeerWrite, relayVars
    <3> QED
      BY <3>5, <3>6, <3>7 DEF Pipe!Write
  <2>2. ASSUME NEW t \in Sock, PeerRead(t)
        PROVE  Pipe!Read(t)
    <3> DEFINE w == Destination(t)
    <3>1. w \in Sock /\ Destination(w) = t
      BY Destinations
    <3>2. PICK n \in 1..Len(kout[t]) : read' = [read EXCEPT ![t] = @ \o Front(kout[t], n)]
      BY <2>2 DEF PeerRead
    <3>3. /\ read[t] \in Seq(Nat) /\ kout[t] \in Seq(Nat)
          /\ read'[t] \in Seq(Nat) /\ kout'[t] \in Seq(Nat) /\ written[w] \in Seq(Nat)
          /\ n \in 0..Len(kout[t])
      BY <3>1, LenProperties DEF TypeOK
    <3>4. written' = written /\ open' = open
      BY <2>2 DEF PeerRead, relayVars
    <3>5. PICK rest \in Seq(Nat) : written[w] = (read'[t] \o kout'[t]) \o rest
      BY <3>1, <3>4 DEF Delivered
    <3>6. /\ kout'[t] \o rest \in Seq(Nat)
          /\ written[w] = read'[t] \o (kout'[t] \o rest)
      <4> DEFINE r == read'[t]
                 k == kout'[t]
      <4>1. r \in Seq(Nat) /\ k \in Seq(Nat) /\ written[w] = (r \o k) \o rest
        BY <3>3, <3>5
      <4> HIDE DEF r, k, w
      <4>2. k \o rest \in Seq(Nat)
        BY <4>1, ConcatLen
      <4>3. (r \o k) \o rest = r \o (k \o rest)
        BY <4>1, ConcatNat, SMTT(20)
      <4> QED
        BY <4>1, <4>2, <4>3 DEF r, k
    <3>7. /\ SubSeq(written[w], 1, Len(read'[t])) = read'[t]
          /\ Len(read'[t]) <= Len(written[w])
      BY <3>3, <3>6, PrefixIsSubSeq
    <3>8. read'[t] = read[t] \o Front(kout[t], n)
      BY <3>2 DEF TypeOK
    <3>9. Len(read[t]) <= Len(read'[t])
      <4>1. Front(kout[t], n) \in Seq(Nat)
        BY <3>3, FrontRest
      <4> QED
        BY <3>3, <3>8, <4>1, PrefixIsSubSeq
    <3>10. Len(read'[t]) \in Len(read[t])..Len(written[w])
      BY <3>3, <3>7, <3>9, LenProperties
    <3>11. read' = [read EXCEPT ![t] = read'[t]]
      BY <3>2, <3>8 DEF TypeOK
    <3> QED
      BY <3>4, <3>7, <3>10, <3>11 DEF Pipe!Read
  <2>3. CASE Closes
    <3>1. UNCHANGED <<written, read>> /\ ~ open'
      BY <2>3 DEF Closes, CloseRelay, peerVars
    <3> QED
      BY <3>1 DEF Pipe!Next, Pipe!Close, Pipe!vars, TypeOK
  <2>4. CASE UNCHANGED <<written, read, open>>
    BY <2>4 DEF Pipe!vars
  <2>5. \A t \in Sock : PeerShutdown(t) \/ PeerClose(t) => UNCHANGED <<written, read, open>>
    BY DEF PeerShutdown, PeerClose, relayVars
  <2>6. Select \/ SelectSpurious \/ RecvWouldBlock \/ RecvData \/ SendData
            \/ NothingToSend => UNCHANGED <<written, read, open>>
    BY DEF Select, SelectSpurious, RecvWouldBlock, RecvData, SendData, NothingToSend,
           peerVars
  <2>7. UNCHANGED vars => UNCHANGED <<written, read, open>>
    BY DEF vars, relayVars, peerVars
  <2> QED
    BY <2>1, <2>2, <2>3, <2>4, <2>5, <2>6, <2>7, LoopCases DEF Next, Peer, Pipe!Next
<1> QED
  BY <1>1, <1>2, TypeCorrect, StreamCorrect, BuffersBounded, KernelCorrect,
     DeliveredCorrect, PTL DEF Spec, PipeSpec, Pipe!Spec
=============================================================================
