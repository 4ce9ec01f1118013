--------------------------- MODULE RelayService ---------------------------
(***************************************************************************)
(* main() and relay() of src/src/python/rfb_v6_v4_proxy.py: the process     *)
(* around the relay of one connection.  It listens on both loopback         *)
(* families and serves one connection at a time; a connection is a call of  *)
(* relay_connection() (module Relay), of which only its end is seen here.   *)
(* The clients, the backend, the kernel's accept queues and the signals are *)
(* the environment.                                                         *)
(***************************************************************************)
EXTENDS Naturals, Sequences, FiniteSets

CONSTANTS
    Conn,           \* connections of clients, used again when they are over
    None,           \* no connection
    Backlog,        \* the argument of listen() (8 in the code)
    Repairs         \* as in Relay: {FALSE} is the code

ASSUME ConnIsFinite == None \notin Conn /\ IsFiniteSet(Conn)
ASSUME BacklogIsNat == Backlog \in Nat /\ Repairs \subseteq BOOLEAN

\* The listeners, in the order main() makes them.
Families == <<"ipv6", "ipv4">>
Family == {"ipv6", "ipv4"}

VARIABLES
    repaired,   \* relay_connection() never raises KeyError; never changes
    pc,         \* the statement about to run
    listening,  \* families whose listener is bound and listens
    queue,      \* queue[f]: connections the kernel has established and the
                \* process has not accepted, oldest first
    events,     \* the listeners of the last select() not handled yet
    client,     \* relay()'s variable, None when its connection is over
    held,       \* accepted sockets that are open
    backend,    \* the socket to the backend: "none", "open" or "eof"
    left,       \* connections whose client has closed its end
    up          \* the backend accepts connections

processVars == <<pc, listening, events, client, held, backend>>
vars == <<repaired, processVars, queue, left, up>>

InQueue(c) == \E f \in Family : \E i \in 1..Len(queue[f]) : queue[f][i] = c

TypeOK ==
    /\ repaired \in Repairs
    /\ pc \in {"bind", "select", "accept", "connect", "relay", "exited"}
    /\ listening \subseteq Family
    /\ queue \in [Family -> Seq(Conn)]
    /\ \A f \in Family : Len(queue[f]) <= Backlog + 1
    /\ events \in Seq(Family)
    /\ client \in Conn \cup {None}
    /\ held \subseteq Conn
    /\ backend \in {"none", "open", "eof"}
    /\ left \subseteq Conn
    /\ up \in BOOLEAN

Init ==
    /\ repaired \in Repairs
    /\ pc = "bind"
    /\ listening = {}
    /\ queue = [f \in Family |-> <<>>]
    /\ events = <<>>
    /\ client = None
    /\ held = {}
    /\ backend = "none"
    /\ left = {}
    /\ up \in BOOLEAN
-----------------------------------------------------------------------------
(* Clients, backend and kernel.                                             *)

\* Mutant: listen() with one more.
ArriveLonger(c, f) ==
    /\ f \in listening
    /\ c \notin held /\ ~ InQueue(c)
    /\ Len(queue[f]) <= Backlog + 1
    /\ queue' = [queue EXCEPT ![f] = Append(@, c)]
    /\ UNCHANGED <<repaired, processVars, left, up>>

\* The kernel establishes a connection without the process; Linux keeps one more
\* than the backlog.
Arrive(c, f) ==
    /\ f \in listening
    /\ c \notin held /\ ~ InQueue(c)
    /\ Len(queue[f]) <= Backlog
    /\ queue' = [queue EXCEPT ![f] = Append(@, c)]
    /\ UNCHANGED <<repaired, processVars, left, up>>

\* A client may leave while it still waits in the queue.
Leave(c) ==
    /\ c \in held \/ InQueue(c)
    /\ c \notin left
    /\ left' = left \cup {c}
    /\ UNCHANGED <<repaired, processVars, queue, up>>

BackendCloses ==
    /\ backend = "open"
    /\ backend' = "eof"
    /\ UNCHANGED <<repaired, pc, listening, events, client, held, queue, left, up>>

BackendComesOrGoes ==
    /\ up' = ~ up
    /\ UNCHANGED <<repaired, processVars, queue, left>>

Environment ==
    \/ \E c \in Conn : Leave(c) \/ \E f \in Family : Arrive(c, f)
    \/ BackendCloses
    \/ BackendComesOrGoes
-----------------------------------------------------------------------------
(* The process.                                                             *)

\* The process is gone, and with it every socket; the kernel resets the
\* connections nobody has accepted.
ProcessEnds ==
    /\ pc' = "exited"
    /\ listening' = {}
    /\ queue' = [f \in Family |-> <<>>]
    /\ events' = <<>>
    /\ client' = None
    /\ held' = {}
    /\ backend' = "none"
    /\ left' = {}
    /\ UNCHANGED <<repaired, up>>

Bind ==
    /\ pc = "bind"
    /\ listening' = listening \cup {Families[Cardinality(listening) + 1]}
    /\ pc' = IF listening' = Family THEN "select" ELSE "bind"
    /\ UNCHANGED <<repaired, events, client, held, backend, queue, left, up>>

\* The port is taken, or the host has no such loopback: nothing catches it, and
\* READY is never printed.
BindFails == pc = "bind" /\ ProcessEnds

\* The kernel reports the ready listeners in an order of its own.
Ready == {f \in Family : queue[f] # <<>>}
Orders(S) == {s \in [1..Cardinality(S) -> S] : \A i, j \in DOMAIN s : s[i] = s[j] => i = j}

\* Mutant: one event is handled for each select(), the first listener's if it
\* has one.
SelectOne ==
    /\ pc = "select" /\ Ready # {}
    /\ events' = <<IF "ipv6" \in Ready THEN "ipv6" ELSE "ipv4">>
    /\ pc' = "accept"
    /\ UNCHANGED <<repaired, listening, client, held, backend, queue, left, up>>

Select ==
    /\ pc = "select"
    /\ Ready # {}
    /\ events' \in Orders(Ready)
    /\ pc' = "accept"
    /\ UNCHANGED <<repaired, listening, client, held, backend, queue, left, up>>

\* The end of the loop's body: the next ready listener, or select() again.
NextEvent ==
    /\ events' = Tail(events)
    /\ pc' = IF Tail(events) = <<>> THEN "select" ELSE "accept"

Accept ==
    /\ pc = "accept"
    /\ LET f == events[1]
       IN  /\ queue[f] # <<>>
           /\ client' = queue[f][1]
           /\ held' = held \cup {queue[f][1]}
           /\ queue' = [queue EXCEPT ![f] = Tail(@)]
    /\ pc' = "connect"
    /\ UNCHANGED <<repaired, listening, events, backend, left, up>>

\* accept() raises for a connection that its client has aborted.
AcceptFails ==
    /\ pc = "accept"
    /\ LET f == events[1]
       IN  /\ queue[f] # <<>>
           /\ queue[f][1] \in left
           /\ left' = left \ {queue[f][1]}
           /\ queue' = [queue EXCEPT ![f] = Tail(@)]
    /\ NextEvent
    /\ UNCHANGED <<repaired, listening, client, held, backend, up>>

\* accept() raises because the system is short of descriptors or memory: the
\* connection stays in the queue, and the loop comes back to it.
AcceptPutOff ==
    /\ pc = "accept"
    /\ NextEvent
    /\ UNCHANGED <<repaired, listening, client, held, backend, queue, left, up>>

Connect ==
    /\ pc = "connect"
    /\ up
    /\ backend' = "open"
    /\ pc' = "relay"
    /\ UNCHANGED <<repaired, listening, events, client, held, queue, left, up>>

\* The client's socket is closed.
CloseClient ==
    /\ held' = held \ {client}
    /\ left' = left \ {client}
    /\ client' = None

\* Mutant: the client is left open.
ConnectFailsOpen ==
    /\ pc = "connect"
    /\ client' = None
    /\ NextEvent
    /\ UNCHANGED <<repaired, listening, held, left, backend, queue, up>>

\* Refused, or no answer within three seconds.
ConnectFails ==
    /\ pc = "connect"
    /\ CloseClient
    /\ NextEvent
    /\ UNCHANGED <<repaired, listening, backend, queue, up>>

\* close_pair() in relay_connection()'s finally block.
CloseBoth ==
    /\ CloseClient
    /\ backend' = "none"
    /\ NextEvent
    /\ UNCHANGED <<repaired, listening, queue, up>>

RelayEnds ==
    /\ pc = "relay"
    /\ client \in left \/ backend = "eof"
    /\ CloseBoth

\* A buffer overflows or the kernel refuses the bytes of a send().
RelayCuts == pc = "relay" /\ CloseBoth

\* The KeyError of relay_connection() passes relay() and main().
RelayRaises == pc = "relay" /\ ~ repaired /\ ProcessEnds

\* SIGINT raises KeyboardInterrupt, SIGTERM ends the process at once.
Signal == pc # "exited" /\ ProcessEnds

Service ==
    \/ Bind \/ Select \/ Accept \/ AcceptFails
    \/ Connect \/ ConnectFails \/ RelayEnds

\* The first connection of f leaves its queue.
Takes(f) == pc = "accept" /\ events[1] = f /\ (Accept \/ AcceptFails)

Next ==
    \/ Environment \/ Service
    \/ BindFails \/ AcceptPutOff \/ RelayCuts \/ RelayRaises \/ Signal

\* The operating system keeps scheduling the process, the backend's answer is
\* awaited for three seconds only, and relay_connection() returns when a peer
\* has left (EndsWhenPeerLeaves of Relay).  A session whose peers stay may last
\* for ever.  A shortage of descriptors does not: accept() on a listener, tried
\* again and again, does not fail each time.
Spec ==
    /\ Init /\ [][Next]_vars
    /\ WF_vars(Service)
    /\ \A f \in Family : SF_vars(Takes(f))
-----------------------------------------------------------------------------
(* Properties.                                                              *)

\* A backend that cannot be reached, a client that left while it waited and a
\* session that ended leave no socket open behind them: whenever the process
\* turns to the listeners again it holds no client and no backend, and it never
\* has two connections to the backend.
NoneForgotten ==
    /\ pc \in {"bind", "select", "accept", "exited"} => held = {} /\ backend = "none"
    /\ pc = "connect" => held = {client} /\ backend = "none"
    /\ pc = "relay" => held = {client} /\ backend # "none"

\* The accept loop is a service with one line for each family: connections are
\* taken up in the order they came, one at a time, none twice, and clients that
\* keep coming on one family do not keep those of the other waiting, however
\* often sessions fail, clients leave in the queue and accept() has to be repeated.
Serving == INSTANCE ServiceLine WITH
               Line <- Family, NoConn <- None,
               waiting <- queue, served <- client, up <- pc # "exited"
LineSpec == Serving!Spec
=============================================================================
