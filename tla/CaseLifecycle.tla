--------------------------- MODULE CaseLifecycle ---------------------------
(***************************************************************************)
(* The life of the benchmark's cases: main(), run_case(), the nested        *)
(* run_input_roundtrip(), kill_process() and SyntheticNetwork of            *)
(* src/src/python/xrdp_vnc_bench.py.  A case builds a network namespace,    *)
(* starts its helper processes one after the other, measures, and undoes    *)
(* everything in finally blocks, on every way out: a failed step, a helper  *)
(* that dies, SIGINT or SIGTERM turned into KeyboardInterrupt.              *)
(***************************************************************************)
EXTENDS Naturals, Sequences, FiniteSets

CONSTANTS
    Modes,          \* values of --mode
    Cases,          \* cases main() runs: profiles times repetitions
    Namespace,      \* network.enabled
    TicketExpires,  \* the cached sudo ticket may expire during the run
    Stubborn,       \* helpers that may outlive SIGKILL by three seconds
    InterruptAt,    \* the places where an interrupt may arrive
    MaxInterrupts,  \* bound: interrupts in a run
    MaxDeaths       \* bound: helpers that die by themselves in a run

ASSUME ModesAreKnown == Modes \subseteq {"graphics", "input-roundtrip"}
ASSUME BoundsAreNat ==
    /\ Cases \in Nat \ {0} /\ MaxInterrupts \in Nat /\ MaxDeaths \in Nat
    /\ Namespace \in BOOLEAN /\ TicketExpires \in BOOLEAN
ASSUME InterruptsHitACase ==
    InterruptAt \subseteq {"setup", "ports", "start", "assign", "wait", "measure",
                          "kill", "sigkill", "delns", "dellink"}

VARIABLES
    mode,       \* args.mode
    pc,         \* the statement about to run
    scope,      \* "outer": run_case(); "inner": run_input_roundtrip()
    step,       \* position in the list of the current phase
    case,       \* the case of main()'s loop
    exc,        \* the exception on its way out
    code,       \* main()'s exit status, "traceback" for an uncaught exception
    assigned,   \* helpers whose Popen object a variable of the scope holds
    alive,      \* helper processes that exist
    netns,      \* the named namespace exists
    veth,       \* the veth pair: "none", "host", or "moved" into the namespace
    ticket,     \* the sudo ticket is valid
    interrupts, deaths,
    measured,   \* history: cases whose measurement finished
    disturbed   \* history: a finally block was left early, or an interrupt came
                \* between Popen() and the assignment

\* The helpers each function starts, in order, and those its finally block
\* kills, in order.
Services == <<"xvfb", "chansrv", "vnc", "proxy", "xrdp", "client">>
Starts(where) ==
    IF where = "inner"
    THEN <<"churn", "key_stimulus", "key_injector", "probe">>
    ELSE Services \o (IF mode = "graphics" THEN <<"stimulus", "probe">> ELSE <<>>)

\* Mutants: the list forgets a helper; it is in the order of the starts.
KillsForgets(where) ==
    IF where = "inner"
    THEN <<"probe", "key_injector", "key_stimulus">>
    ELSE <<"probe", "stimulus", "client", "xrdp", "proxy", "vnc", "chansrv", "xvfb">>
KillsInStartOrder(where) == Starts(where)

Kills(where) ==
    IF where = "inner"
    THEN <<"probe", "key_injector", "key_stimulus", "churn">>
    ELSE <<"probe", "stimulus", "client", "xrdp", "proxy", "vnc", "chansrv", "xvfb">>

\* The sudo commands of SyntheticNetwork.setup(); "configure" stands for the
\* addresses, the links brought up and the two netem qdiscs.
SetupCommands == <<"netns", "link", "move", "configure">>

envVars == <<mode, ticket, interrupts, deaths>>
netVars == <<netns, veth>>
flowVars == <<pc, scope, step, exc>>
vars == <<flowVars, case, code, assigned, alive, netVars, envVars, measured, disturbed>>

Helpers == {"xvfb", "chansrv", "vnc", "proxy", "xrdp", "client",
            "stimulus", "probe", "churn", "key_stimulus", "key_injector"}

TypeOK ==
    /\ mode \in Modes
    /\ pc \in {"setup", "ports", "start", "assign", "wait", "measure", "kill",
               "sigkill", "delns", "dellink", "return", "exited"}
    /\ scope \in {"outer", "inner"}
    /\ step \in 1..9
    /\ case \in 1..Cases
    /\ exc \in {"none", "error", "interrupt", "uncaught"}
    /\ code \in {"none", "0", "2", "130", "traceback"}
    /\ assigned \subseteq Helpers /\ alive \subseteq Helpers
    /\ netns \in BOOLEAN /\ veth \in {"none", "host", "moved"}
    /\ ticket \in BOOLEAN
    /\ interrupts \in 0..MaxInterrupts /\ deaths \in 0..MaxDeaths
    /\ measured \in 0..Cases
    /\ disturbed \in BOOLEAN

Init ==
    /\ mode \in Modes
    /\ pc = "setup" /\ scope = "outer" /\ step = 1 /\ exc = "none"
    /\ case = 1 /\ code = "none"
    /\ assigned = {} /\ alive = {}
    /\ netns = FALSE /\ veth = "none"
    /\ ticket = TRUE /\ interrupts = 0 /\ deaths = 0
    /\ measured = 0
    /\ disturbed = FALSE

Goto(where, n) == pc' = where /\ step' = n

\* An exception leaves for the finally block of the scope it is raised in.
Raise(e) == exc' = e /\ Goto("kill", 1) /\ UNCHANGED scope
-----------------------------------------------------------------------------
(* The network.                                                             *)

\* cleanup() with check=False: without a ticket sudo -n does nothing, and
\* nobody looks.  A namespace still in use keeps its interfaces; otherwise
\* they go with it.
DeleteNamespace ==
    IF ticket /\ netns
    THEN /\ netns' = FALSE
         /\ veth' = IF veth = "moved" /\ "client" \notin alive THEN "none" ELSE veth
    ELSE UNCHANGED netVars

DeleteLink == veth' = IF ticket THEN "none" ELSE veth

SetupDone == ~ Namespace \/ step > Len(SetupCommands)

RunSetupCommand ==
    /\ pc = "setup"
    /\ ~ SetupDone
    /\ ticket
    /\ \/ SetupCommands[step] = "netns" /\ netns' = TRUE /\ UNCHANGED veth
       \/ SetupCommands[step] = "link" /\ veth' = "host" /\ UNCHANGED netns
       \/ SetupCommands[step] = "move" /\ veth' = "moved" /\ UNCHANGED netns
       \/ SetupCommands[step] = "configure" /\ UNCHANGED netVars
    /\ Goto("setup", step + 1)
    /\ UNCHANGED <<scope, exc, case, code, assigned, alive, envVars, measured, disturbed>>

\* A command fails: setup() cleans up itself and raises again.
SetupFails ==
    /\ pc = "setup"
    /\ ~ SetupDone
    /\ IF ticket THEN netns' = FALSE /\ veth' = "none" ELSE UNCHANGED netVars
    /\ Raise("error")
    /\ UNCHANGED <<case, code, assigned, alive, envVars, measured, disturbed>>

SetupFinishes ==
    /\ pc = "setup"
    /\ SetupDone
    /\ Goto("ports", 1)
    /\ UNCHANGED <<scope, exc, case, code, assigned, alive, netVars, envVars, measured, disturbed>>

\* assert_tcp_port_available() for the three private ports.
CheckPorts ==
    /\ pc = "ports"
    /\ \/ Goto("start", 1) /\ UNCHANGED <<scope, exc>>
       \/ Raise("error")
    /\ UNCHANGED <<case, code, assigned, alive, netVars, envVars, measured, disturbed>>
-----------------------------------------------------------------------------
(* Starting the helpers.                                                    *)

Helper == Starts(scope)[step]

\* Popen() forks the process; the variable is assigned afterwards.
Popen ==
    /\ pc = "start"
    /\ \/ /\ alive' = alive \cup {Helper}
          /\ Goto("assign", step)
          /\ UNCHANGED <<scope, exc>>
       \/ /\ Raise("error")
          /\ UNCHANGED alive
    /\ UNCHANGED <<case, code, assigned, netVars, envVars, measured, disturbed>>

Assign ==
    /\ pc = "assign"
    /\ assigned' = assigned \cup {Helper}
    /\ Goto("wait", step)
    /\ UNCHANGED <<scope, exc, case, code, alive, netVars, envVars, measured, disturbed>>

\* The wait looks at the helper's socket, path, log line or READY line, which
\* may outlive it; only Xvfb and FreeRDP are asked whether they still run.  The
\* last service is followed by the measurement, which in input-roundtrip mode
\* starts helpers of its own.
Ready ==
    /\ pc = "wait"
    /\ Helper \in {"xvfb", "client"} => Helper \in alive
    /\ IF step < Len(Starts(scope))
       THEN Goto("start", step + 1) /\ UNCHANGED scope
       ELSE IF scope = "outer" /\ mode = "input-roundtrip"
            THEN Goto("start", 1) /\ scope' = "inner"
            ELSE Goto("measure", 1) /\ UNCHANGED scope
    /\ UNCHANGED <<exc, case, code, assigned, alive, netVars, envVars, measured, disturbed>>

\* Mutant: the failed wait is logged and the case given up without an error.
NotReadyIgnored ==
    /\ pc = "wait"
    /\ Goto("kill", 1)
    /\ UNCHANGED <<scope, exc, case, code, assigned, alive, netVars, envVars, measured, disturbed>>

\* Its deadline passes, or the helper was seen to have exited.
NotReady ==
    /\ pc = "wait"
    /\ Raise("error")
    /\ UNCHANGED <<case, code, assigned, alive, netVars, envVars, measured, disturbed>>

\* A helper that does not answer in the warm-up raises RuntimeError, a malformed
\* answer ValueError or IndexError, a diagnostic probe that does not end
\* TimeoutExpired.
Measure ==
    /\ pc = "measure"
    /\ \/ Goto("kill", 1) /\ measured' = measured + 1 /\ UNCHANGED <<scope, exc, disturbed>>
       \/ (\E e \in {"error", "uncaught"} : Raise(e)) /\ UNCHANGED measured
    /\ UNCHANGED <<case, code, assigned, alive, netVars, envVars, disturbed>>
-----------------------------------------------------------------------------
(* The finally blocks.                                                      *)

Victim == Kills(scope)[step]
KillsDone == step > Len(Kills(scope))

\* run_input_roundtrip()'s variables are gone when it is left.
LeaveScope ==
    /\ scope' = "outer"
    /\ assigned' = IF scope = "inner"
                   THEN assigned \ {Starts("inner")[i] : i \in 1..4}
                   ELSE assigned

\* proc.wait(timeout=3) raised after SIGKILL: the exception replaces the one
\* on its way out and the rest of this finally block is skipped.
LeaveFinally(e) ==
    /\ exc' = e
    /\ disturbed' = TRUE
    /\ LeaveScope
    /\ IF scope = "inner" THEN Goto("kill", 1) ELSE Goto("return", 1)

\* A root-owned client is signalled through sudo, that is, not at all once the
\* ticket has expired.
MayOutlive(h) == h \in Stubborn \/ (h = "client" /\ Namespace /\ ~ ticket)

\* kill_process() returns at once for a helper never started or already dead.
SkipKill ==
    /\ pc = "kill"
    /\ ~ KillsDone
    /\ Victim \notin assigned \/ Victim \notin alive
    /\ Goto("kill", step + 1)
    /\ UNCHANGED <<scope, exc, case, code, assigned, alive, netVars, envVars, measured, disturbed>>

Terminate ==
    /\ pc = "kill"
    /\ ~ KillsDone
    /\ Victim \in assigned /\ Victim \in alive
    /\ \/ alive' = alive \ {Victim} /\ Goto("kill", step + 1)
       \/ UNCHANGED alive /\ Goto("sigkill", step)
    /\ UNCHANGED <<scope, exc, case, code, assigned, netVars, envVars, measured, disturbed>>

\* Mutants: the second TimeoutExpired is swallowed; there is no second timeout.
KillSwallows ==
    /\ pc = "sigkill"
    /\ \/ alive' = alive \ {Victim}
       \/ MayOutlive(Victim) /\ UNCHANGED alive
    /\ Goto("kill", step + 1)
    /\ UNCHANGED <<scope, exc, case, code, assigned, netVars, envVars, measured, disturbed>>
KillWaits ==
    /\ pc = "sigkill"
    /\ ~ MayOutlive(Victim)
    /\ alive' = alive \ {Victim}
    /\ Goto("kill", step + 1)
    /\ UNCHANGED <<scope, exc, case, code, assigned, netVars, envVars, measured, disturbed>>

\* After SIGKILL the wait is repeated; its TimeoutExpired is not caught.
Kill ==
    /\ pc = "sigkill"
    /\ \/ /\ alive' = alive \ {Victim}
          /\ Goto("kill", step + 1)
          /\ UNCHANGED <<scope, assigned, exc, disturbed>>
       \/ /\ Victim \in alive
          /\ MayOutlive(Victim)
          /\ LeaveFinally("uncaught")
          /\ UNCHANGED alive
    /\ UNCHANGED <<case, code, netVars, envVars, measured>>

EndInner ==
    /\ pc = "kill" /\ scope = "inner"
    /\ KillsDone
    /\ LeaveScope
    /\ Goto("kill", 1)
    /\ UNCHANGED <<exc, case, code, alive, netVars, envVars, measured, disturbed>>

EndOuter ==
    /\ pc = "kill" /\ scope = "outer"
    /\ KillsDone
    /\ Goto(IF Namespace THEN "delns" ELSE "return", 1)
    /\ UNCHANGED <<scope, exc, case, code, assigned, alive, netVars, envVars, measured, disturbed>>

CleanupNamespace ==
    /\ pc = "delns"
    /\ DeleteNamespace
    /\ Goto("dellink", 1)
    /\ UNCHANGED <<scope, exc, case, code, assigned, alive, envVars, measured, disturbed>>

CleanupLink ==
    /\ pc = "dellink"
    /\ DeleteLink
    /\ Goto("return", 1)
    /\ UNCHANGED <<netns, scope, exc, case, code, assigned, alive, envVars, measured, disturbed>>

\* Mutant: main() counts its cases from zero.
NextCaseTooFar ==
    /\ pc = "return" /\ exc = "none"
    /\ case <= Cases
    /\ case' = case + 1
    /\ assigned' = {}
    /\ Goto("setup", 1)
    /\ UNCHANGED <<scope, exc, code, alive, netVars, envVars, measured, disturbed>>

\* run_case() is left: main() starts the next case or turns the exception into
\* an exit status; it catches neither subprocess.TimeoutExpired nor what a line
\* that cannot be parsed raises.
NextCase ==
    /\ pc = "return" /\ exc = "none"
    /\ case < Cases
    /\ case' = case + 1
    /\ assigned' = {}
    /\ Goto("setup", 1)
    /\ UNCHANGED <<scope, exc, code, alive, netVars, envVars, measured, disturbed>>

Exit ==
    /\ pc = "return"
    /\ exc # "none" \/ case = Cases
    /\ code' = [none |-> "0", error |-> "2", interrupt |-> "130", uncaught |-> "traceback"][exc]
    /\ Goto("exited", 1)
    /\ UNCHANGED <<scope, exc, case, assigned, alive, netVars, envVars, measured, disturbed>>
-----------------------------------------------------------------------------
(* The environment.                                                         *)

\* KeyboardInterrupt between two statements.  In a finally block it skips the
\* rest of that block; between Popen() and the assignment the object is lost.
Interrupt ==
    /\ pc \in InterruptAt
    /\ interrupts < MaxInterrupts
    /\ interrupts' = interrupts + 1
    /\ IF pc \in {"kill", "sigkill", "delns", "dellink"}
       THEN LeaveFinally("interrupt")
       ELSE /\ Raise("interrupt")
            /\ disturbed' = (disturbed \/ pc = "assign")
            /\ UNCHANGED assigned
    /\ UNCHANGED <<case, code, alive, netVars, mode, ticket, deaths, measured>>

Die ==
    /\ pc # "exited"
    /\ deaths < MaxDeaths
    /\ deaths' = deaths + 1
    /\ \E h \in alive : alive' = alive \ {h}
    /\ UNCHANGED <<flowVars, case, code, assigned, netVars, mode, ticket, interrupts, measured, disturbed>>

ExpireTicket ==
    /\ TicketExpires /\ ticket
    /\ pc # "exited"
    /\ ticket' = FALSE
    /\ UNCHANGED <<flowVars, case, code, assigned, alive, netVars, mode, interrupts, deaths, measured, disturbed>>

Benchmark ==
    \/ RunSetupCommand \/ SetupFails \/ SetupFinishes \/ CheckPorts
    \/ Popen \/ Assign \/ Ready \/ NotReady \/ Measure
    \/ SkipKill \/ Terminate \/ Kill \/ EndInner \/ EndOuter
    \/ CleanupNamespace \/ CleanupLink \/ NextCase \/ Exit

Next == Benchmark \/ Interrupt \/ Die \/ ExpireTicket

\* The statements that wait for a command without a deadline: openssl and x11vnc,
\* which prepare a case, and sudo in setup(); sudo in cleanup() and for the signals
\* of a root-owned client; xwininfo, with which the wait for the client ends.
AwaitsCommand ==
    \/ pc = "setup"
    \/ pc = "wait" /\ Helper = "client"
    \/ pc \in {"kill", "sigkill"} /\ ~ KillsDone /\ Victim = "client"
           /\ Namespace /\ "client" \in assigned
    \/ pc \in {"delns", "dellink"}

\* Every other wait of the benchmark has a deadline, so that it takes another
\* step; a command may keep it for ever.
Spec == Init /\ [][Next]_vars /\ WF_vars(~ AwaitsCommand /\ Benchmark)
-----------------------------------------------------------------------------
(* Properties.                                                              *)

Clean == alive = {} /\ ~ netns /\ veth = "none"

\* Whatever steps fail, helpers die or interrupts arrive, neither a process nor a
\* piece of the network survives a case, unless the sudo ticket has expired, a
\* helper has outlived SIGKILL, or an interrupt came inside a finally block or
\* before a helper's object was assigned.
NothingLeftBehind ==
    ((pc = "exited" \/ (pc = "setup" /\ step = 1)) /\ ticket /\ ~ disturbed) => Clean

\* The namespace is never deleted under a client that run_case() holds and that
\* still runs in it, whatever goes wrong in the finally blocks: a client that
\* cannot be killed keeps its network.
ClientDiesBeforeItsNetwork ==
    [][ (netns /\ ~ netns') => "client" \notin assigned \cap alive ]_vars

\* The helpers run_case() starts after h.
StartedAfter(h) ==
    LET order == Starts("outer")
    IN  {order[j] : j \in {k \in 1..Len(order) : \E i \in 1..(k - 1) : order[i] = h}}

\* When run_case()'s finally block ends a service, no helper of run_case() that it
\* still holds and that was started later, whose server it may be, is running:
\* whatever failed, timed out or died before, none of them fails because the
\* benchmark took its server away.
ServersOutliveClients ==
    [][ (pc \in {"kill", "sigkill"} /\ scope = "outer" /\ alive' # alive /\ deaths' = deaths)
            => StartedAfter(Victim) \cap assigned \cap alive = {} ]_vars

\* Status 0 is only reported when every case was measured and none interrupted.
SuccessMeansMeasured == code = "0" => measured = Cases /\ interrupts = 0

\* The benchmark ends, even with helpers that answer nothing and cannot be
\* killed: only a command that never returns can hold it up.
RunEnds == <>(pc = "exited") \/ <>[]AwaitsCommand

\* README.md: "Interrupting a run cleans up child processes and network
\* namespaces."  This is the first half.
InterruptCleansUp == (pc = "exited" /\ interrupts > 0) => alive = {}
=============================================================================
