----------------------------- MODULE GpuProbe -----------------------------
(***************************************************************************)
(* src/src/python/vscode_gpu_probe.py: a browser is started in a session    *)
(* and with a profile of its own, asked one question over its debugging     *)
(* websocket, and stopped again.  The browser with its helper processes,    *)
(* the byte stream between the two and the signals are the environment.     *)
(* A frame is its opcode, what its payload says and where its four parts    *)
(* end; a byte is its place in a frame.                                     *)
(***************************************************************************)
EXTENDS Naturals, Sequences, FiniteSetsExt

CONSTANTS
    Frame,          \* frames the browser may send: [opcode, says, ends]
    MaxInFlight,    \* bytes sent and not yet received; bounds the model only
    MaxHeader       \* chunks of handshake reply that make it too large

\* ends: of the header of two bytes, the extended length, the mask, the payload.
ASSUME FrameIsFrame ==
    Frame \subseteq [opcode : {"data", "ping", "close", "other"},
                     says : {"result", "error", "event", "junk"},
                     ends : [1..4 -> Nat]]
ASSUME PartsFollow ==
    \A f \in Frame : f.ends[1] = 2 /\ \A p \in 1..3 : f.ends[p] <= f.ends[p + 1]
ASSUME BoundsAreNat == MaxInFlight \in Nat /\ MaxHeader \in Nat

VARIABLES
    pc,         \* the statement about to run
    profile,    \* the temporary directory exists
    leader,     \* the browser's main process: "none", "starting", "serving",
                \* "blocked" or "gone"
    helpers,    \* other processes of its group are alive
    signals,    \* signals sent to its group: a set of "TERM" and "KILL"
    socket,     \* "none", "open", or "eof" when the browser has closed it
    header,     \* chunks of the handshake's reply received
    sent,       \* frames sent and not handled yet, oldest first
    inbox,      \* their bytes that have not been received
    got,        \* bytes of the current frame received
    torn,       \* bytes in front of inbox were thrown away
    disturbed   \* the probe was killed, or interrupted outside its try block

browserVars == <<leader, helpers>>
streamVars == <<socket, header, sent, inbox, got, torn>>
vars == <<pc, profile, browserVars, signals, streamVars, disturbed>>

\* The statements of the try block, and those of its finally block.
Guarded == {"endpoint", "connect", "handshake", "ask", "recv", "frame", "report"}
Cleanup == {"terminate", "wait", "kill"}

Size(f) == f.ends[4]
Bytes(f) == [i \in 1..Size(f) |-> <<f, i>>]

Init ==
    /\ pc = "check"
    /\ profile = FALSE /\ disturbed = FALSE
    /\ leader = "none" /\ helpers = FALSE /\ signals = {}
    /\ socket = "none" /\ header = 0
    /\ sent = <<>> /\ inbox = <<>> /\ got = <<>> /\ torn = FALSE
-----------------------------------------------------------------------------
(* The browser.                                                             *)

Serves ==
    /\ leader = "starting" /\ signals = {}
    /\ leader' = "serving" /\ helpers' = TRUE
    /\ UNCHANGED <<pc, profile, signals, streamVars, disturbed>>

\* Nobody reads the pipe its errors go to: once that is full it stops.
Blocks ==
    /\ leader \in {"starting", "serving"}
    /\ leader' = "blocked"
    /\ UNCHANGED <<pc, profile, helpers, signals, streamVars, disturbed>>

\* By itself or by a signal, if at all.
LeaderEnds ==
    /\ leader \in {"starting", "serving", "blocked"}
    /\ leader' = "gone"
    /\ socket' = IF socket = "open" THEN "eof" ELSE socket
    /\ UNCHANGED <<pc, profile, helpers, signals, header, sent, inbox, got, torn, disturbed>>

\* They may outlive the main process for a while.
HelpersEnd ==
    /\ helpers
    /\ helpers' = FALSE
    /\ UNCHANGED <<pc, profile, leader, signals, streamVars, disturbed>>

\* The first frame may follow its reply to the handshake at once.
Sends(f) ==
    /\ leader = "serving" /\ socket = "open"
    /\ Len(inbox) + Size(f) <= MaxInFlight
    /\ sent' = IF torn THEN sent ELSE Append(sent, f)
    /\ inbox' = inbox \o Bytes(f)
    /\ UNCHANGED <<pc, profile, browserVars, signals, socket, header, got, torn, disturbed>>

\* Also because it does not like what it has received.
Closes ==
    /\ leader = "serving" /\ socket = "open"
    /\ socket' = "eof"
    /\ UNCHANGED <<pc, profile, browserVars, signals, header, sent, inbox, got, torn, disturbed>>

Browser == Serves \/ Blocks \/ LeaderEnds \/ HelpersEnd \/ Closes \/ \E f \in Frame : Sends(f)
-----------------------------------------------------------------------------
(* Start, endpoint and handshake.                                           *)

Goto(place) ==
    /\ pc' = place
    /\ UNCHANGED <<profile, browserVars, signals, streamVars, disturbed>>

\* A bad pattern, no such program or no such workspace.
Refuse == pc = "check" /\ Goto("exited")

MakeProfile ==
    /\ pc = "check"
    /\ pc' = "popen" /\ profile' = TRUE
    /\ UNCHANGED <<browserVars, signals, streamVars, disturbed>>

Popen ==
    /\ pc = "popen"
    /\ pc' = "popened" /\ leader' = "starting"
    /\ UNCHANGED <<profile, helpers, signals, streamVars, disturbed>>

PopenFails == pc = "popen" /\ Goto("remove")

EnterTry == pc = "popened" /\ Goto("endpoint")

\* The with block around the socket is left.
Leave(place) ==
    /\ pc' = place
    /\ socket' = "none" /\ header' = 0
    /\ sent' = <<>> /\ inbox' = <<>> /\ got' = <<>> /\ torn' = FALSE
    /\ UNCHANGED <<profile, browserVars, signals, disturbed>>

\* An exception in the try block.
Raise == Leave("terminate")

EndpointOpens == pc = "endpoint" /\ leader = "serving" /\ Goto("connect")

\* Twenty seconds without it, whatever the browser is doing.
EndpointTimeout == pc = "endpoint" /\ Raise

Connect ==
    /\ pc = "connect" /\ leader \in {"serving", "blocked"}
    /\ socket' = "open"
    /\ pc' = "handshake"
    /\ UNCHANGED <<profile, browserVars, signals, header, sent, inbox, got, torn, disturbed>>

ConnectFails == pc = "connect" /\ Raise

\* A piece of the reply without its end; the browser may be gone by now.
HandshakeRecv ==
    /\ pc = "handshake"
    /\ header < MaxHeader
    /\ header' = header + 1
    /\ UNCHANGED <<pc, profile, browserVars, signals, socket, sent, inbox, got, torn, disturbed>>

HandshakeDone == pc = "handshake" /\ Goto("ask")

\* The n bytes that come in one piece with the end of the reply are dropped with
\* it: the frames are not read from where the browser began them.
HandshakeSwallows(n) ==
    /\ pc = "handshake"
    /\ n \in 1..Len(inbox)
    /\ torn' = TRUE /\ sent' = <<>>
    /\ inbox' = SubSeq(inbox, n + 1, Len(inbox))
    /\ pc' = "ask"
    /\ UNCHANGED <<profile, browserVars, signals, socket, header, got, disturbed>>

\* Closed, silent for twenty seconds, too large, another status or another key.
HandshakeFails == pc = "handshake" /\ Raise

\* The request fits into the kernel's buffer even if nobody reads it.
Ask == pc = "ask" /\ Goto("recv")

AskFails == pc = "ask" /\ socket = "eof" /\ Raise
-----------------------------------------------------------------------------
(* ws_recv() and recv_exact().                                              *)

\* Bytes missing to the end of the part being received; the header says where
\* the parts end.
Missing ==
    IF got = <<>> THEN 2
    ELSE Min({got[1][1].ends[p] : p \in 1..4} \ 0..Len(got)) - Len(got)

\* Mutant: recv_exact() calls recv() once.
FrameStateOnce(bytes) == IF Len(bytes) > 2 THEN "frame" ELSE "recv"

\* The frame is there when its last part is.
FrameState(bytes) == IF Len(bytes) = Size(bytes[1][1]) THEN "frame" ELSE "recv"

\* recv() returns from one byte up to what was asked for.
Recv(n) ==
    /\ pc = "recv" /\ ~ torn
    /\ n \in 1..Min({Missing, Len(inbox)})
    /\ ~ (got = <<>> /\ n = 1)
    /\ got' = got \o SubSeq(inbox, 1, n)
    /\ inbox' = SubSeq(inbox, n + 1, Len(inbox))
    /\ pc' = FrameState(got')
    /\ UNCHANGED <<profile, browserVars, signals, socket, header, sent, torn, disturbed>>

\* Read from anywhere else, n bytes are part of a frame or any frame.
Misread(n) ==
    /\ pc = "recv" /\ torn
    /\ n \in 1..Len(inbox)
    /\ inbox' = SubSeq(inbox, n + 1, Len(inbox))
    /\ \/ pc' = "recv" /\ UNCHANGED got
       \/ pc' = "frame" /\ \E f \in Frame : got' = Bytes(f)
    /\ UNCHANGED <<profile, browserVars, signals, socket, header, sent, torn, disturbed>>

\* The header is taken with one recv(): its first byte alone counts as the end.
RecvHalfHeader == pc = "recv" /\ got = <<>> /\ inbox # <<>> /\ Raise

RecvEof == pc = "recv" /\ inbox = <<>> /\ socket = "eof" /\ Raise

\* Mutant: the socket waits without a limit.
RecvTimeoutNever == pc = "recv" /\ inbox = <<>> /\ socket = "eof" /\ Raise

\* Every recv() waits twenty seconds of its own.
RecvTimeout == pc = "recv" /\ inbox = <<>> /\ Raise
-----------------------------------------------------------------------------
(* The loop of cdp_system_info().                                           *)

NextFrame ==
    /\ pc' = "recv"
    /\ got' = <<>>
    /\ sent' = IF torn THEN sent ELSE Tail(sent)
    /\ UNCHANGED <<profile, browserVars, signals, socket, header, inbox, torn, disturbed>>

Received == got[1][1]

Pong == pc = "frame" /\ Received.opcode = "ping" /\ NextFrame

PongFails == pc = "frame" /\ Received.opcode = "ping" /\ socket = "eof" /\ Raise

Ignore ==
    /\ pc = "frame"
    /\ Received.opcode = "other" \/ (Received.opcode = "data" /\ Received.says = "event")
    /\ NextFrame

\* The browser says goodbye, answers with an error or sends what is no JSON.
Refused ==
    /\ pc = "frame"
    /\ Received.opcode = "close" \/ (Received.opcode = "data" /\ Received.says \in {"error", "junk"})
    /\ Raise

Answered ==
    /\ pc = "frame" /\ Received.opcode = "data" /\ Received.says = "result"
    /\ Leave("report")

\* The findings are printed and judged, which takes a second; the verdict is
\* returned from the try block.
Report == pc = "report" /\ Goto("terminate")
-----------------------------------------------------------------------------
(* The finally block and the end of the profile.                            *)

Signal(name, place) ==
    /\ signals' = signals \cup {name}
    /\ pc' = place
    /\ UNCHANGED <<profile, browserVars, streamVars, disturbed>>

\* Mutant: nobody waits for the browser.
TerminateOnly == pc = "terminate" /\ Signal("TERM", "remove")

Terminate == pc = "terminate" /\ Signal("TERM", "wait")

\* wait() collects the main process; the helpers are not waited for.
WaitEnds == pc \in {"wait", "kill"} /\ leader = "gone" /\ Goto("remove")

WaitTimeout == pc = "wait" /\ leader # "gone" /\ Signal("KILL", "kill")

\* Not even SIGKILL ends it within five seconds: TimeoutExpired.
KillTimeout == pc = "kill" /\ leader # "gone" /\ Goto("remove")

Remove ==
    /\ pc = "remove"
    /\ pc' = "exited" /\ profile' = FALSE
    /\ UNCHANGED <<browserVars, signals, streamVars, disturbed>>

\* A process that is still alive writes into the directory being removed.
RemoveFails == pc = "remove" /\ (helpers \/ leader # "gone") /\ Goto("exited")

Probe ==
    \/ Refuse \/ MakeProfile \/ Popen \/ PopenFails \/ EnterTry
    \/ EndpointOpens \/ EndpointTimeout \/ Connect \/ ConnectFails
    \/ HandshakeRecv \/ HandshakeDone \/ HandshakeFails \/ Ask \/ AskFails
    \/ (\E n \in 1..MaxInFlight : HandshakeSwallows(n) \/ Recv(n) \/ Misread(n))
    \/ RecvHalfHeader \/ RecvEof \/ RecvTimeout
    \/ Pong \/ PongFails \/ Ignore \/ Refused \/ Answered \/ Report
    \/ Terminate \/ WaitEnds \/ WaitTimeout \/ KillTimeout \/ Remove \/ RemoveFails

\* SIGINT raises KeyboardInterrupt where the probe is.
Interrupt ==
    \/ pc \in Guarded /\ Raise
    \/ /\ pc \in {"popen", "popened"} \cup Cleanup
       /\ pc' = "remove" /\ disturbed' = (leader # "none")
       /\ UNCHANGED <<profile, browserVars, signals, streamVars>>
    \/ pc \in {"check", "remove"} /\ Goto("exited")

\* SIGTERM and SIGKILL leave no time for the finally block.
Killed ==
    /\ pc # "exited"
    /\ pc' = "exited" /\ disturbed' = TRUE
    /\ UNCHANGED <<profile, browserVars, signals, streamVars>>

Next == Browser \/ Probe \/ Interrupt \/ Killed

\* The operating system keeps running the probe; its waits have limits of their
\* own.  Nothing is assumed of the browser.
Spec == Init /\ [][Next]_vars /\ WF_vars(Probe)
-----------------------------------------------------------------------------
(* Properties.                                                              *)

\* However recv() splits the stream, and whatever frames come before the answer,
\* cdp_system_info() is handed the frames the browser sent, whole and in order -
\* unless the browser spoke before it was asked and the end of its handshake
\* brought some of that along, which ws_connect() throws away.
FramesIntact == pc = "frame" /\ ~ torn => got = Bytes(sent[1])

\* Whatever fails between the start of the browser and the verdict - no endpoint,
\* a broken handshake, a silent, closing or blocked browser, an interrupt - the
\* probe ends with its main process gone or condemned by SIGKILL, and the others
\* of its group told to end; the profile stays in place until then.
BrowserStopped ==
    (pc \in {"remove", "exited"} \/ ~ profile) /\ ~ disturbed
        => /\ leader \in {"none", "gone"} \/ "KILL" \in signals
           /\ helpers => signals # {}

\* A browser that stops sending, be it gone, silent or blocked by its own errors
\* that nobody reads, does not keep the probe from ending.  (One that sends
\* frames for ever does: only the single recv() has a limit.)
ProbeEnds == <>[][\A f \in Frame : ~ Sends(f)]_vars => <>(pc = "exited")
=============================================================================
