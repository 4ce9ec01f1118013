--------------------------- MODULE EpisodeSampler ---------------------------
(***************************************************************************)
(* src/src/python/xrdp_console_episode_sampler.py: main()'s loop takes one  *)
(* snapshot after the other of the processes in /proc, of the RDP           *)
(* connections and of the log, and writes the differences of two snapshots  *)
(* as a row.  Nothing stands still while it reads: processes start, work,   *)
(* rename themselves and exit between the two files read of each, and pids  *)
(* are used again.                                                          *)
(*                                                                          *)
(* Left out: the instantaneous values of a row (memory, pressure, queues)   *)
(* and the division by the interval.                                        *)
(***************************************************************************)
EXTENDS LogDelta, Integers, Functions

CONSTANTS
    Groups,         \* GROUPS: the names a process is reported under
    Other,          \* the command line of a process in no group
    Gone,           \* no process has the pid; no socket is there
    MaxPid,         \* bound: pids in use, which /proc lists in ascending order
    Conns,          \* connections to the RDP port
    Foreign,        \* connections to other ports
    MaxRows,        \* bound: rows written
    MaxMoves        \* bound: steps of each part of the system

Parts == {"processes", "connections", "log"}
Pids == 1..MaxPid
Sockets == Conns \cup Foreign

\* A socket in state "closing" is in one of the states from FIN-WAIT-1 to
\* LAST-ACK: ss still lists it.
Socket == [sent : Nat, state : {"estab", "closing"}]

ASSUME SamplerBounds ==
    /\ MaxPid \in Nat /\ MaxRows \in Nat \ {0} /\ MaxMoves \in [Parts -> Nat]
    /\ Other \notin Groups
    /\ IsFiniteSet(Groups) /\ IsFiniteSet(Conns) /\ Conns \cap Foreign = {}

ASSUME GoneIsNobody ==
    /\ Gone \notin [group : Groups \cup {Other}, ticks : Nat]
    /\ Gone \notin Socket

VARIABLES
    moving,     \* which part of the system moves in this behaviour: the sampler
                \* reads the three one after the other and never relates them
    moves,
    procs,      \* procs[p]: [group, ticks] or Gone
    conns,      \* conns[s]: [sent, state] or Gone
    pc,         \* the system call about to be made
    pid,        \* the entry of /proc being visited
    looping,    \* the loop has been entered
    argv,       \* the group its command line gave
    current,    \* the snapshot being taken: pids to [group, ticks]
    sock,       \* the connection totals being taken
    before,     \* before_processes
    beforeSock, \* before_socket
    rows,       \* rows written
    reported,   \* history: ticks reported for each group in all rows
    bytes,      \* history: bytes reported sent in all rows
    spent,      \* history: ticks each group has spent, with Other
    sent,       \* history: bytes sent on all connections to the RDP port
    first,      \* history: the snapshots before the loop
    steady,     \* history: processes that have not exited or changed
    renamed,    \* history: some process changed its command line
    undone      \* history: "closed" some RDP connection was closed, "ss" some
                \* ss call failed, "mixed" some counter was another socket's

processVars == <<procs, spent, steady, renamed>>
connVars == <<conns, sent>>
snapshotVars == <<pc, looping, pid, argv, current, sock>>
rowVars == <<before, beforeSock, rows, reported, bytes, first>>
vars == <<moving, moves, processVars, connVars, snapshotVars, rowVars,
          undone, logVars>>

Named == Groups \cup {Other}
Process == [group : Named, ticks : Nat]
Snapshot(p) == [p -> [group : Groups, ticks : Nat]]
Totals == [count : 0..Cardinality(Conns), sent : Nat]
NoConnections == [count |-> 0, sent |-> 0]
Nobody == [p \in {} |-> Gone]

TypeOK ==
    /\ LogTypeOK
    /\ moving \in Parts /\ moves \in 0..MaxMoves[moving]
    /\ procs \in [Pids -> Process \cup {Gone}]
    /\ conns \in [Sockets -> Socket \cup {Gone}]
    /\ pc \in {"argv", "stat", "socket", "log", "sleep", "logstat", "logread",
               "row", "done"}
    /\ pid \in Pids \cup {MaxPid + 1}
    /\ looping \in BOOLEAN /\ argv \in Named
    /\ \A taken \in {current, before, first.procs} :
          DOMAIN taken \subseteq Pids /\ taken \in Snapshot(DOMAIN taken)
    /\ {sock, beforeSock, first.sock} \subseteq Totals
    /\ rows \in 0..MaxRows
    /\ reported \in [Groups -> Nat] /\ spent \in [Named -> Nat]
    /\ {bytes, sent} \subseteq Nat
    /\ steady \subseteq Pids /\ renamed \in BOOLEAN
    /\ undone \subseteq {"closed", "ss", "mixed"}

Init ==
    /\ LogInit
    /\ moving \in Parts /\ moves = 0
    /\ procs \in IF moving = "processes"
                 THEN [Pids -> [group : Named, ticks : {p - 1 : p \in Pids}] \cup {Gone}]
                 ELSE [Pids -> {Gone}]
    /\ \A p \in Pids : procs[p] # Gone => procs[p].ticks = p - 1
    /\ conns \in IF moving = "connections"
                 THEN [Sockets -> [sent : {1}, state : {"estab"}] \cup {Gone}]
                 ELSE [Sockets -> {Gone}]
    /\ moving = "log" \/ log = Missing
    /\ pc = "argv" /\ pid = 1 /\ argv = Other /\ looping = FALSE
    /\ current = Nobody /\ sock = NoConnections
    /\ before = Nobody /\ beforeSock = NoConnections
    /\ first = [procs |-> Nobody, sock |-> NoConnections]
    /\ rows = 0
    /\ reported = [g \in Groups |-> 0] /\ bytes = 0
    /\ spent = [g \in Named |-> 0] /\ sent = 0
    /\ steady = {p \in Pids : procs[p] # Gone} /\ renamed = FALSE
    /\ undone = {}
-----------------------------------------------------------------------------
(* The system around the sampler.                                           *)

\* The kernel gives out pids in a cycle: one is not used again between two
\* consecutive reads.
Spawn(p) ==
    /\ procs[p] = Gone
    /\ ~ (pc = "stat" /\ pid = p)
    /\ \E g \in Named : procs' = [procs EXCEPT ![p] = [group |-> g, ticks |-> 0]]
    /\ UNCHANGED <<spent, steady, renamed>>

Work(p) ==
    /\ procs[p] # Gone
    /\ procs' = [procs EXCEPT ![p].ticks = @ + 1]
    /\ spent' = [spent EXCEPT ![procs[p].group] = @ + 1]
    /\ UNCHANGED <<steady, renamed>>

\* exec(), or a program that rewrites its command line as Electron does.
Rename(p) ==
    /\ procs[p] # Gone
    /\ \E g \in Named \ {procs[p].group} : procs' = [procs EXCEPT ![p].group = g]
    /\ steady' = steady \ {p} /\ renamed' = TRUE
    /\ UNCHANGED spent

Exit(p) ==
    /\ procs[p] # Gone
    /\ procs' = [procs EXCEPT ![p] = Gone]
    /\ steady' = steady \ {p}
    /\ UNCHANGED <<spent, renamed>>

Connect(s) ==
    /\ conns[s] = Gone
    /\ conns' = [conns EXCEPT ![s] = [sent |-> 0, state |-> "estab"]]
    /\ UNCHANGED <<sent, undone>>

\* What was buffered is still sent while a connection closes.
Transmit(s) ==
    /\ conns[s] # Gone
    /\ conns' = [conns EXCEPT ![s].sent = @ + 1]
    /\ sent' = IF s \in Conns THEN sent + 1 ELSE sent
    /\ UNCHANGED undone

\* One end closes the connection, and later the other; or it is reset.
Disconnect(s) ==
    /\ conns[s] # Gone
    /\ \/ conns[s].state = "estab" /\ conns' = [conns EXCEPT ![s].state = "closing"]
       \/ conns' = [conns EXCEPT ![s] = Gone]
    /\ undone' = IF s \in Conns THEN undone \cup {"closed"} ELSE undone
    /\ UNCHANGED sent

System ==
    /\ pc # "done"
    /\ moves < MaxMoves[moving]
    /\ moves' = moves + 1
    /\ \/ /\ moving = "processes"
          /\ \E p \in Pids : Spawn(p) \/ Work(p) \/ Rename(p) \/ Exit(p)
          /\ UNCHANGED <<connVars, undone, logVars>>
       \/ /\ moving = "connections"
          /\ \E s \in Sockets : Connect(s) \/ Transmit(s) \/ Disconnect(s)
          /\ UNCHANGED <<processVars, logVars>>
       \/ /\ moving = "log"
          /\ LogMoves
          /\ UNCHANGED <<processVars, connVars, undone>>
    /\ UNCHANGED <<moving, snapshotVars, rowVars>>
-----------------------------------------------------------------------------
(* The snapshots.                                                           *)

outside == <<moving, moves, processVars, connVars>>

\* read_cmdline() and process_group(): a process that is gone or in no group
\* is passed over.
ReadArgv ==
    /\ pc = "argv"
    /\ pid \in Pids
    /\ IF procs[pid] = Gone \/ procs[pid].group = Other
       THEN pid' = pid + 1 /\ UNCHANGED <<pc, argv>>
       ELSE pc' = "stat" /\ argv' = procs[pid].group /\ UNCHANGED pid
    /\ UNCHANGED <<outside, looping, current, sock, rowVars, undone, logVars>>

\* read_proc_stat(): recorded under the group read before.
ReadStat ==
    /\ pc = "stat"
    /\ current' = IF procs[pid] = Gone
                  THEN current
                  ELSE [p \in DOMAIN current \cup {pid} |->
                          IF p = pid THEN [group |-> argv, ticks |-> procs[pid].ticks]
                                     ELSE current[p]]
    /\ pc' = "argv" /\ pid' = pid + 1 /\ argv' = Other
    /\ UNCHANGED <<outside, looping, sock, rowVars, undone, logVars>>

ProcessesRead ==
    /\ pc = "argv"
    /\ pid \notin Pids
    /\ pc' = "socket"
    /\ UNCHANGED <<outside, looping, pid, argv, current, sock, rowVars, undone, logVars>>

\* The records: a line that starts with "ESTAB " begins one if it names the RDP
\* port, and nothing but such a line ends one.
Listed == {c \in Conns : conns[c] # Gone /\ conns[c].state = "estab"}

\* Other sockets whose line of counters has a bytes_sent, which ss leaves out
\* when it is 0.
Unfinished == {s \in Sockets : conns[s] # Gone /\ conns[s].state = "closing" /\ conns[s].sent > 0}

\* Whose bytes_sent is the last one read into each record: that of a closing
\* socket, of any port, when ss lists it behind the connection.  ss lists the
\* sockets in the order of the kernel's hash table, which is any.
Infos ==
    {info \in [Listed -> Sockets] :
        /\ IsInjective(info)
        /\ \A c \in Listed : info[c] = c \/ info[c] \in Unfinished}

\* The counters of the records, added up.  (Retransmissions are parsed like them
\* and missing from the names that are added up.)
Added(info) ==
    [count |-> Cardinality(Listed),
     sent |-> SumFunctionOnSet([c \in Listed |-> conns[info[c]].sent], Listed)]

\* What follows the socket snapshot: before the loop the log is opened, in the
\* loop it is sampled by write_row().
SocketsRead == pc' = IF looping THEN "logstat" ELSE "log"

ReadSockets ==
    /\ pc = "socket"
    /\ \E info \in Infos :
          /\ sock' = Added(info)
          /\ undone' = IF \A c \in Listed : info[c] = c THEN undone ELSE undone \cup {"mixed"}
    /\ SocketsRead
    /\ UNCHANGED <<outside, looping, pid, argv, current, rowVars, logVars>>

\* ss cannot be started or does not end within its second: zeros.
SocketsFail ==
    /\ pc = "socket"
    /\ moving = "connections"
    /\ sock' = NoConnections
    /\ undone' = undone \cup {"ss"}
    /\ SocketsRead
    /\ UNCHANGED <<outside, looping, pid, argv, current, rowVars, logVars>>
-----------------------------------------------------------------------------
(* main().                                                                  *)

\* The last step before the loop: LogDelta(args.log).
EnterLoop ==
    /\ pc = "log"
    /\ LogOpen
    /\ pc' = "sleep" /\ looping' = TRUE
    /\ before' = current /\ beforeSock' = sock
    /\ first' = [procs |-> current, sock |-> sock]
    /\ UNCHANGED <<outside, pid, argv, current, sock, rows, reported, bytes,
                   undone>>

\* time.sleep() returns and the next snapshot begins.
Wake ==
    /\ pc = "sleep"
    /\ pc' = "argv" /\ pid' = 1
    /\ current' = Nobody
    /\ UNCHANGED <<outside, looping, argv, sock, rowVars, undone, logVars>>

SampleLog ==
    /\ \/ pc = "logstat" /\ LogStat /\ pc' = "logread"
       \/ pc = "logread" /\ LogRead /\ pc' = "row"
       \/ pc \in {"logstat", "logread"} /\ LogMissing /\ pc' = "row"
    /\ UNCHANGED <<outside, looping, pid, argv, current, sock, rowVars, undone>>

\* Mutants: the whole counter is reported; the difference is not cut off at 0.
GrowthTotal(new, old) == new
GrowthSigned(new, old) == new - old

\* max(0, new - old)
Growth(new, old) == IF new > old THEN new - old ELSE 0

\* Mutant: a process that was not in the group has spent all its ticks in it.
TicksBeforeZero(p) ==
    IF p \in DOMAIN before /\ before[p].group = current[p].group
    THEN before[p].ticks ELSE 0

\* old.get(pid, stat): a process that is new in its group has spent nothing.
TicksBefore(p) ==
    IF p \in DOMAIN before /\ before[p].group = current[p].group
    THEN before[p].ticks ELSE current[p].ticks

\* process_metrics(): the ticks of a group in a row.
Ticks(g) ==
    SumFunctionOnSet([p \in DOMAIN current |-> Growth(current[p].ticks, TicksBefore(p))],
                     {p \in DOMAIN current : current[p].group = g})

\* Mutant: the processes are read again when the row has been written.
KeptAfresh ==
    [p \in DOMAIN current |->
        IF procs[p] = Gone THEN current[p]
                           ELSE [current[p] EXCEPT !.ticks = procs[p].ticks]]

\* before_processes = current_processes
Kept == current

\* write_row() and the end of the loop's body; the loop ends when the deadline
\* passed before this snapshot.
WriteRow ==
    /\ pc = "row"
    /\ reported' = [g \in Groups |-> reported[g] + Ticks(g)]
    /\ bytes' = bytes + Growth(sock.sent, beforeSock.sent)
    /\ before' = Kept /\ beforeSock' = sock
    /\ rows' = rows + 1
    /\ \/ pc' = "done"
       \/ pc' = "sleep" /\ rows' < MaxRows
    /\ UNCHANGED <<outside, looping, pid, argv, current, sock, first,
                   undone, logVars>>

Sampler ==
    \/ ReadArgv \/ ReadStat \/ ProcessesRead
    \/ ReadSockets \/ SocketsFail
    \/ EnterLoop \/ Wake \/ SampleLog \/ WriteRow

Next == System \/ Sampler

Spec == Init /\ [][Next]_vars
-----------------------------------------------------------------------------
(* Properties.                                                              *)

\* "A value of 100 means one fully busy core": a tick is reported once and only
\* if it was spent while the sampler ran, although processes exit and pids are
\* used again; and, unless a process changed its name, it is reported under the
\* group that spent it.
TicksWereSpent ==
    /\ SumFunction(reported) <= SumFunction(spent)
    /\ ~ renamed => \A g \in Groups : reported[g] <= spent[g]

\* Nothing a process spends between two rows is lost: what a process that stays
\* has spent from the first to the last snapshot is in the rows, the time the
\* sampler took to read and write included.
SteadyProcessesCounted ==
    \A g \in Groups :
        LET staying == {p \in steady \cap DOMAIN first.procs : first.procs[p].group = g}
        IN  SumFunction([p \in staying |-> before[p].ticks - first.procs[p].ticks])
              <= reported[g]

\* The bytes of the rows were sent to the RDP port while the sampler ran,
\* although connections come, go and take time to close; with none closed they
\* are all the bytes.  This is so as long as every ss call answered and no
\* closing socket was listed behind an RDP connection.  What a row shows
\* otherwise is wrong: after an ss that failed the next row reports the counters
\* from the start of each connection, and the counter of a closing socket, of
\* whatever port, takes the place of that of the connection listed before it,
\* although rdp_socket_values() is said to read "counters for established
\* connections on port".
BytesWereSent ==
    undone \cap {"ss", "mixed"} = {} =>
        /\ bytes <= sent
        /\ undone = {} => bytes = beforeSock.sent - first.sock.sent
=============================================================================
