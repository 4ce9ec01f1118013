------------------------------- MODULE Relay -------------------------------
(***************************************************************************)
(* relay_connection() of src/src/python/rfb_v6_v4_proxy.py: one accepted    *)
(* RFB connection, relayed between two nonblocking loopback sockets by a    *)
(* single-threaded selector loop.  The kernel queues of the two sockets and *)
(* the programs at their far ends are the environment; they take steps      *)
(* between any two system calls of the relay.                               *)
(*                                                                          *)
(* A byte is named by its position in the stream its peer writes, so that a *)
(* lost, repeated or reordered byte is visible.                             *)
(***************************************************************************)
EXTENDS Naturals, Sequences

CONSTANTS
    Client,         \* the accepted socket
    Backend,        \* the socket connected to the IPv4 endpoint
    None,           \* Python's None
    Repairs,        \* {FALSE}: the code; TRUE \in Repairs: also the code with the
                    \* data passed on to selector.modify()
    MaxBuffer,      \* MAX_BUFFER_BYTES, the bound of each output buffer
    RecvSize,       \* the most bytes one recv() returns (65536 in the code)
    KIn,            \* bytes the kernel holds for the relay to receive
    KOut,           \* bytes the kernel takes from the relay before EAGAIN
    MaxBytes,       \* bound: bytes each peer writes in a behaviour
    MaxSpurious     \* bound: spurious readiness reports in a behaviour

ASSUME SocketsDiffer == Client # Backend /\ None \notin {Client, Backend}
ASSUME RepairsAreKnown == Repairs \subseteq BOOLEAN
ASSUME SizesAreNat ==
    /\ MaxBuffer \in Nat /\ RecvSize \in Nat \ {0}
    /\ KIn \in Nat \ {0} /\ KOut \in Nat \ {0}
    /\ MaxBytes \in Nat /\ MaxSpurious \in Nat

Sock == {Client, Backend}

\* The data a socket is first registered with: the socket that what this one
\* receives is for.
Destination(s) == IF s = Client THEN Backend ELSE Client

VARIABLES
    repaired,   \* selector.modify() is given the data; never changes
    open,       \* relay_connection() has not returned
    pending,    \* pending[s]: the output buffer owned by destination s
    interest,   \* interest[s]: s is registered for EVENT_WRITE as well
    data,       \* data[s]: the data of the registration of s
    events,     \* the events of the last select() not handled yet, in order
    kin,        \* kin[s]: bytes in the kernel that recv() on s will return
    kout,       \* kout[s]: bytes sent on s that its peer has not read
    peer,       \* peer[s]: "open", "eof" (write side shut) or "gone" (closed)
    written,    \* history: every byte the peer of s has written
    read,       \* history: every byte the peer of s has read
    spurious    \* spurious readiness reports so far

relayVars == <<open, pending, interest, data, events>>
kernelVars == <<kin, kout>>
peerVars == <<peer, written, read>>
restVars == <<repaired, spurious>>
vars == <<relayVars, kernelVars, peerVars, restVars>>

\* A selector key, of which select() returns a copy, and its mask.
Event == [sock : Sock, dest : Sock \cup {None}, read : BOOLEAN, write : BOOLEAN]
Least(a, b) == IF a < b THEN a ELSE b

\* Mutants of the functions that follow: the deletion is off by one.
RestSkipsAByte(q, n) == SubSeq(q, n + 2, Len(q))
RestRepeatsAByte(q, n) == SubSeq(q, n, Len(q))

\* The first n elements of a queue, and what is left without them.
Front(q, n) == SubSeq(q, 1, n)

Rest(q, n) == SubSeq(q, n + 1, Len(q))

TypeOK ==
    /\ repaired \in Repairs
    /\ open \in BOOLEAN
    /\ pending \in [Sock -> Seq(Nat)]
    /\ interest \in [Sock -> BOOLEAN]
    /\ data \in [Sock -> Sock \cup {None}]
    /\ events \in Seq(Event)
    /\ kin \in [Sock -> Seq(Nat)]
    /\ kout \in [Sock -> Seq(Nat)]
    /\ peer \in [Sock -> {"open", "eof", "gone"}]
    /\ written \in [Sock -> Seq(Nat)]
    /\ read \in [Sock -> Seq(Nat)]
    /\ spurious \in Nat

Init ==
    /\ repaired \in Repairs
    /\ open = TRUE
    /\ pending = [s \in Sock |-> <<>>]
    /\ interest = [s \in Sock |-> FALSE]
    /\ data = [s \in Sock |-> Destination(s)]
    /\ events = <<>>
    /\ kin = [s \in Sock |-> <<>>]
    /\ kout = [s \in Sock |-> <<>>]
    /\ peer = [s \in Sock |-> "open"]
    /\ written = [s \in Sock |-> <<>>]
    /\ read = [s \in Sock |-> <<>>]
    /\ spurious = 0
-----------------------------------------------------------------------------
(* The programs at the far ends of the two sockets.                         *)

PeerWrite(s) ==
    /\ open
    /\ peer[s] = "open"
    /\ Len(written[s]) < MaxBytes
    /\ Len(kin[s]) < KIn
    /\ LET byte == Len(written[s]) + 1
       IN  /\ written' = [written EXCEPT ![s] = Append(@, byte)]
           /\ kin' = [kin EXCEPT ![s] = Append(@, byte)]
    /\ UNCHANGED <<relayVars, kout, peer, read, restVars>>

\* What the relay handed to the kernel stays readable after it has closed.
PeerRead(s) ==
    /\ peer[s] # "gone"
    /\ \E n \in 1..Len(kout[s]) :
          /\ read' = [read EXCEPT ![s] = @ \o Front(kout[s], n)]
          /\ kout' = [kout EXCEPT ![s] = Rest(@, n)]
    /\ UNCHANGED <<relayVars, kin, peer, written, restVars>>

PeerShutdown(s) ==
    /\ peer[s] = "open"
    /\ peer' = [peer EXCEPT ![s] = "eof"]
    /\ UNCHANGED <<relayVars, kernelVars, written, read, restVars>>

PeerClose(s) ==
    /\ peer[s] # "gone"
    /\ peer' = [peer EXCEPT ![s] = "gone"]
    /\ UNCHANGED <<relayVars, kernelVars, written, read, restVars>>

Peer == \E s \in Sock :
            PeerWrite(s) \/ PeerRead(s) \/ PeerShutdown(s) \/ PeerClose(s)
-----------------------------------------------------------------------------
(* The relay.                                                               *)

Readable(s) == kin[s] # <<>> \/ peer[s] # "open"
Writable(s) == interest[s] /\ (Len(kout[s]) < KOut \/ peer[s] = "gone")

Mask(s) == [sock |-> s, dest |-> data[s],
            read |-> Readable(s), write |-> Writable(s)]
Ready(s) == Readable(s) \/ Writable(s)

\* selector.select(): every registered socket that is ready, in an order the
\* kernel chooses.  With nothing ready it times out and the loop calls it again.
Select ==
    /\ open
    /\ events = <<>>
    /\ \/ /\ \A s \in Sock : Ready(s)
          /\ \E s \in Sock : events' = <<Mask(s), Mask(Destination(s))>>
       \/ \E s \in Sock :
             /\ Ready(s)
             /\ ~ Ready(Destination(s))
             /\ events' = <<Mask(s)>>
    /\ UNCHANGED <<open, pending, interest, data, kernelVars, peerVars, restVars>>

\* A readiness report with nothing behind it: the recv() that follows raises
\* BlockingIOError.
SelectSpurious ==
    /\ open
    /\ events = <<>>
    /\ spurious < MaxSpurious
    /\ spurious' = spurious + 1
    /\ \E s \in Sock :
          events' = <<[Mask(s) EXCEPT !.read = TRUE]>>
    /\ UNCHANGED <<open, pending, interest, data, kernelVars, peerVars, repaired>>

\* The finally block: close_pair() shuts both sockets down and closes them, and
\* the buffers go with the call.  The kernel resets a connection closed with
\* bytes nobody received; its peer may then never see what was in flight.
CloseRelay ==
    /\ open' = FALSE
    /\ events' = <<>>
    /\ pending' = [s \in Sock |-> <<>>]
    /\ interest' = [s \in Sock |-> FALSE]
    /\ data' = [s \in Sock |-> None]
    /\ kin' = [s \in Sock |-> <<>>]
    /\ \E lost \in SUBSET {s \in Sock : kin[s] # <<>>} :
          kout' = [s \in Sock |-> IF s \in lost THEN <<>> ELSE kout[s]]

\* The event being handled, once its mask is known to hold EVENT_READ.
Reading == open /\ events # <<>> /\ events[1].read
Source == events[1].sock
Dest == events[1].dest
ReadDone == events' = <<[events[1] EXCEPT !.read = FALSE]>> \o Tail(events)

RecvWouldBlock ==
    /\ Reading
    /\ kin[Source] = <<>>
    /\ peer[Source] = "open"
    /\ ReadDone
    /\ UNCHANGED <<open, pending, interest, data, kernelVars, peerVars, restVars>>

\* Mutant: an empty recv() is taken for "nothing to read yet".
RecvEndsOnErrorOnly ==
    /\ Reading
    /\ peer[Source] = "gone"
    /\ CloseRelay
    /\ UNCHANGED <<peerVars, restVars>>

\* recv() returned b"", or raised ECONNRESET: the call returns.
RecvEnds ==
    /\ Reading
    /\ \/ kin[Source] = <<>> /\ peer[Source] # "open"
       \/ peer[Source] = "gone"
    /\ CloseRelay
    /\ UNCHANGED <<peerVars, restVars>>

\* Mutant: the bound is compared with what is buffered already.
OverflowsLate(s, n) == Len(pending[s]) > MaxBuffer

\* The check made before a buffer is extended.
Overflows(s, n) == Len(pending[s]) + n > MaxBuffer

RecvData ==
    /\ Reading
    /\ Dest \in Sock
    /\ \E n \in 1..Least(Len(kin[Source]), RecvSize) :
          /\ ~ Overflows(Dest, n)
          /\ pending' = [pending EXCEPT ![Dest] = @ \o Front(kin[Source], n)]
          /\ kin' = [kin EXCEPT ![Source] = Rest(@, n)]
    /\ ReadDone
    /\ UNCHANGED <<open, interest, data, kout, peerVars, restVars>>

\* pending[None] raises KeyError, which nothing between here and the end of the
\* process catches; the finally block closes the sockets on the way.
RecvWithoutDestination ==
    /\ Reading
    /\ kin[Source] # <<>>
    /\ Dest = None
    /\ CloseRelay
    /\ UNCHANGED <<peerVars, restVars>>

\* Mutant: a full buffer leaves the bytes with the kernel, to be tried again.
RecvOverflowWaits ==
    /\ Reading
    /\ Dest \in Sock
    /\ \E n \in 1..Least(Len(kin[Source]), RecvSize) : Overflows(Dest, n)
    /\ ReadDone
    /\ UNCHANGED <<open, pending, interest, data, kernelVars, peerVars, restVars>>

RecvOverflow ==
    /\ Reading
    /\ Dest \in Sock
    /\ \E n \in 1..Least(Len(kin[Source]), RecvSize) : Overflows(Dest, n)
    /\ CloseRelay
    /\ UNCHANGED <<peerVars, restVars>>

\* The event's EVENT_READ part is over, or was not in its mask.
Finishing == open /\ events # <<>> /\ ~ events[1].read
Sending == Finishing /\ events[1].write /\ pending[Source] # <<>>

\* The data parameter of selector.modify() has the default None.
ModifiedData(s) == IF repaired THEN data[s] ELSE None

\* Mutants: only the event's own socket is updated; EVENT_WRITE is always
\* asked for; the other socket's registration is dropped.
UpdateSourceOnly(buffers) ==
    /\ interest' = [interest EXCEPT ![Source] = buffers[Source] # <<>>]
    /\ data' = [data EXCEPT ![Source] = ModifiedData(Source)]
UpdateAlwaysWrite(buffers) ==
    /\ interest' = [s \in Sock |-> TRUE]
    /\ data' = [s \in Sock |-> ModifiedData(s)]
UpdateForgetsOther(buffers) ==
    /\ interest' = [s \in {Source} |-> buffers[s] # <<>>]
    /\ data' = [s \in Sock |-> ModifiedData(s)]

\* update_interest() for both sockets, whatever socket the event was for.
UpdateInterest(buffers) ==
    /\ interest' = [s \in Sock |-> buffers[s] # <<>>]
    /\ data' = [s \in Sock |-> ModifiedData(s)]

SendData ==
    /\ Sending
    /\ \E n \in 1..Least(Len(pending[Source]), KOut) :
          /\ Len(kout[Source]) + n <= KOut
          /\ kout' = [kout EXCEPT ![Source] = @ \o Front(pending[Source], n)]
          /\ pending' = [pending EXCEPT ![Source] = Rest(@, n)]
    /\ UpdateInterest(pending')
    /\ events' = Tail(events)
    /\ UNCHANGED <<open, kin, peerVars, restVars>>

\* send() raised EAGAIN (no memory for the bytes although the socket was
\* reported writable): sent is 0 and "if sent <= 0: return" ends the call.
SendWouldBlock ==
    /\ Sending
    /\ CloseRelay
    /\ UNCHANGED <<peerVars, restVars>>

SendFails ==
    /\ Sending
    /\ peer[Source] = "gone"
    /\ CloseRelay
    /\ UNCHANGED <<peerVars, restVars>>

NothingToSend ==
    /\ Finishing
    /\ ~ (events[1].write /\ pending[Source] # <<>>)
    /\ UpdateInterest(pending)
    /\ events' = Tail(events)
    /\ UNCHANGED <<open, pending, kernelVars, peerVars, restVars>>

Loop ==
    \/ Select \/ SelectSpurious
    \/ RecvWouldBlock \/ RecvEnds \/ RecvData \/ RecvWithoutDestination \/ RecvOverflow
    \/ SendData \/ SendWouldBlock \/ SendFails \/ NothingToSend

Next == Peer \/ Loop

\* The operating system keeps scheduling the relay; nothing is assumed of the
\* peers.
Spec == Init /\ [][Next]_vars /\ WF_vars(Loop)
-----------------------------------------------------------------------------
(* Properties.                                                              *)

\* What the peer of s wrote and nobody has dropped, oldest byte first.
Stream(s) ==
    LET dst == Destination(s)
    IN  read[dst] \o kout[dst] \o pending[dst] \o kin[s]

\* While the relay serves a connection every byte is in exactly one place, in
\* the order it was written: recv() into the other socket's buffer, send() from
\* a socket's own buffer and "del output[:sent]" neither lose, repeat nor
\* reorder a byte, whatever the partial sends were.
StreamIntact == open => \A s \in Sock : written[s] = Stream(s)

\* A stalled peer never makes a buffer outgrow MAX_BUFFER_BYTES.
BufferBounded == \A s \in Sock : Len(pending[s]) <= MaxBuffer

\* When the loop goes back to select() a socket is registered for EVENT_WRITE
\* exactly when it has output, although the event that filled or emptied the
\* buffer may have been the other socket's: a missing registration stalls the
\* stream, a superfluous one makes select() return at once for ever.
InterestMatchesPending ==
    (open /\ events = <<>>) => \A s \in Sock : interest[s] <=> pending[s] # <<>>

\* What each side promises the other, whatever the relay's buffers do.
Pipe == INSTANCE RelayPipe WITH
            End <- Sock, Opposite <- Destination, Byte <- 1..MaxBytes,
            Window <- KIn + MaxBuffer + KOut,
            sent <- written, got <- read, up <- open
PipeSpec == Pipe!Spec

\* A blocked peer does not make the relay spin (test_proxy.py,
\* test_blocked_backend_does_not_busy_spin): once the peers do nothing the
\* relay handles its last event and then sits in select().
QuietWhenBlocked == <>[](events = <<>>)

\* A peer that shuts down, closes or is reset ends the call, even when the
\* other peer never reads and output for it is still buffered.
EndsWhenPeerLeaves == \A s \in Sock : (peer[s] # "open") ~> ~ open

\* The relay keeps receiving from a sender whose receiver has stalled, until
\* it closes both ends; it never delays the sender indefinitely.
NeverStallsSender == \A s \in Sock : (Len(kin[s]) = KIn) ~> (Len(kin[s]) < KIn)

\* With peers that read what they are sent, each byte accepted from one peer is
\* read by the other or the relay closes.
PeersKeepReading == \A s \in Sock : []<>(kout[s] = <<>>)
EveryByteArrives ==
    PeersKeepReading =>
        \A s \in Sock : \A n \in 1..MaxBytes :
            (Len(written[s]) >= n) ~>
                (Len(read[Destination(s)]) >= n \/ ~ open)

\* The relay of a connection ends only when a peer has left, when a buffer would
\* outgrow its bound or when the kernel refuses the bytes of a send.  The last is
\* what the code does and not what its docstring says (lines 60-62: EAGAIN "leaves
\* the socket registered for EVENT_WRITE"); it is listed so that what is left is
\* the erased destination alone.
EndsForAReason ==
    (open /\ ~ open') =>
        \/ \E s \in Sock : peer[s] # "open"
        \/ \E s \in Sock : Overflows(Destination(s), Least(Len(kin[s]), RecvSize))
        \/ Sending

\* rfb_v6_v4_proxy.py "accepts both loopback families and forwards them to the
\* IPv4 endpoint": it does not cut off two peers that go on talking.
ForwardsUntilAPeerLeaves == [][EndsForAReason]_vars
=============================================================================
