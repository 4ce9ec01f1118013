-------------------------- MODULE GpuProbeProofs --------------------------
(***************************************************************************)
(* Proofs about GpuProbe for every set of frames and all bounds.            *)
(***************************************************************************)
EXTENDS GpuProbe, SequenceTheorems, TLAPS
-----------------------------------------------------------------------------
(* The browser's end.                                                       *)

\* What is known of the browser at each statement.  Before Popen() there is
\* none; the signals sent so far are those of the statements passed.
BrowserKnown ==
    /\ pc \in {"check", "popen"} => leader = "none" /\ ~ helpers
    /\ leader = "none" => ~ helpers
    /\ pc \in {"wait", "kill"} => "TERM" \in signals
    /\ pc = "kill" => "KILL" \in signals
    /\ pc \notin {"check", "remove", "exited"} => profile

Inv == BrowserKnown /\ BrowserStopped

LEMMA InvInitial == Init => Inv
BY DEF Init, Inv, BrowserKnown, BrowserStopped

\* The steps of the try block only move on in it or enter the finally block.
LEMMA GuardedStepsAreSafe ==
    ASSUME Inv, pc \in Guarded, pc' \in Guarded \cup {"terminate"},
           UNCHANGED <<profile, leader, helpers, signals, disturbed>>
    PROVE  Inv'
BY DEF Inv, BrowserKnown, BrowserStopped, Guarded

LEMMA InvInductive == Inv /\ [Next]_vars => Inv'
<1> SUFFICES ASSUME Inv, [Next]_vars PROVE Inv'
  OBVIOUS
<1>1. CASE Browser
  BY <1>1 DEF Browser, Serves, Blocks, LeaderEnds, HelpersEnd, Closes, Sends,
              browserVars, Inv, BrowserKnown, BrowserStopped
<1>2. CASE Refuse \/ MakeProfile \/ Popen \/ PopenFails \/ EnterTry
  BY <1>2 DEF Refuse, MakeProfile, Popen, PopenFails, EnterTry, Goto, browserVars,
              Inv, BrowserKnown, BrowserStopped
<1>3. CASE \/ EndpointOpens \/ EndpointTimeout \/ Connect \/ ConnectFails
           \/ HandshakeRecv \/ HandshakeDone \/ HandshakeFails \/ Ask \/ AskFails
  <2>1. /\ pc \in Guarded /\ pc' \in Guarded \cup {"terminate"}
        /\ UNCHANGED <<profile, leader, helpers, signals, disturbed>>
    BY <1>3 DEF EndpointOpens, EndpointTimeout, Connect, ConnectFails, HandshakeRecv,
                HandshakeDone, HandshakeFails, Ask, AskFails, Goto, Raise, Leave,
                browserVars, Guarded
  <2> QED
    BY <2>1, GuardedStepsAreSafe
<1>4. CASE \/ \E n \in 1..MaxInFlight : HandshakeSwallows(n) \/ Recv(n) \/ Misread(n)
           \/ RecvHalfHeader \/ RecvEof \/ RecvTimeout
           \/ Pong \/ PongFails \/ Ignore \/ Refused \/ Answered \/ Report
  <2>1. /\ pc \in Guarded /\ pc' \in Guarded \cup {"terminate"}
        /\ UNCHANGED <<profile, leader, helpers, signals, disturbed>>
    BY <1>4 DEF HandshakeSwallows, Recv, Misread, FrameState, RecvHalfHeader, RecvEof, RecvTimeout, Pong, PongFails,
                Ignore, Refused, Answered, Report, NextFrame, Goto, Raise, Leave,
                browserVars, Guarded
  <2> QED
    BY <2>1, GuardedStepsAreSafe
<1>5. CASE Terminate \/ WaitEnds \/ WaitTimeout \/ KillTimeout
  BY <1>5 DEF Terminate, WaitEnds, WaitTimeout, KillTimeout, Signal, Goto, browserVars,
              Inv, BrowserKnown, BrowserStopped
<1>6. CASE Remove \/ RemoveFails
  BY <1>6 DEF Remove, RemoveFails, Goto, browserVars, Inv, BrowserKnown, BrowserStopped
<1>7. CASE Interrupt
  <2>1. CASE pc \in Guarded /\ Raise
    <3>1. /\ pc' = "terminate"
          /\ UNCHANGED <<profile, leader, helpers, signals, disturbed>>
      BY <2>1 DEF Raise, Leave, browserVars
    <3> QED
      BY <2>1, <3>1, GuardedStepsAreSafe
  <2>2. CASE /\ pc \in {"popen", "popened"} \cup Cleanup
             /\ pc' = "remove" /\ disturbed' = (leader # "none")
             /\ UNCHANGED <<profile, browserVars, signals, streamVars>>
    BY <2>2 DEF browserVars, Inv, BrowserKnown, BrowserStopped, Cleanup
  <2>3. CASE pc \in {"check", "remove"} /\ Goto("exited")
    BY <2>3 DEF Goto, browserVars, Inv, BrowserKnown, BrowserStopped
  <2> QED
    BY <1>7, <2>1, <2>2, <2>3 DEF Interrupt
<1>8. CASE Killed
  BY <1>8 DEF Killed, browserVars, Inv, BrowserKnown, BrowserStopped
<1>9. CASE UNCHANGED vars
  BY <1>9 DEF vars, browserVars, Inv, BrowserKnown, BrowserStopped
<1> QED
  BY <1>1, <1>2, <1>3, <1>4, <1>5, <1>6, <1>7, <1>8, <1>9 DEF Next, Probe

\* Whatever frames there are, however the stream is split and whatever fails, a
\* probe that ends undisturbed has ended its browser or sent it SIGKILL, and the
\* profile was in place until then.
THEOREM BrowserNeverOutlivesProbe == Spec => []BrowserStopped
<1>1. Inv => BrowserStopped
  BY DEF Inv
<1> QED
  BY <1>1, InvInitial, InvInductive, PTL DEF Spec
-----------------------------------------------------------------------------
(* What a stream of bytes is made of.                                       *)

Byte == Frame \X Nat

\* The bytes s are those of the frames q, one frame after the other: frame k
\* begins behind place c[k] and ends at place c[k + 1].
Carries(s, q, c) ==
    /\ c \in [1..Len(q) + 1 -> Nat]
    /\ c[1] = 0 /\ c[Len(q) + 1] = Len(s)
    /\ \A j, k \in 1..Len(q) + 1 : j <= k => c[j] <= c[k]
    /\ \A k \in 1..Len(q) :
          /\ c[k + 1] = c[k] + Size(q[k])
          /\ \A i \in 1..Size(q[k]) : s[c[k] + i] = <<q[k], i>>

\* Some frames' whole bytes, in their order and nothing else.
Stream(s, q) == \E c : Carries(s, q, c)

LEMMA FrameEnds ==
    ASSUME NEW f \in Frame
    PROVE  /\ f.ends \in [1..4 -> Nat]
           /\ f.ends[1] = 2 /\ f.ends[2] \in Nat /\ f.ends[3] \in Nat
           /\ Size(f) \in Nat /\ Size(f) = f.ends[4] /\ 2 <= Size(f)
           /\ f.ends[1] <= f.ends[2] /\ f.ends[2] <= f.ends[3] /\ f.ends[3] <= Size(f)
<1>1. f.ends \in [1..4 -> Nat]
  BY FrameIsFrame
<1>2. f.ends[1] = 2 /\ \A p \in 1..3 : f.ends[p] <= f.ends[p + 1]
  BY PartsFollow
<1>3. f.ends[1] <= f.ends[2] /\ f.ends[2] <= f.ends[3] /\ f.ends[3] <= f.ends[4]
  BY <1>2
<1>4. \A p \in {1, 2, 3, 4} : f.ends[p] \in Nat
  BY <1>1
<1> QED
  BY <1>1, <1>2, <1>3, <1>4 DEF Size

LEMMA BytesOfFrame ==
    ASSUME NEW f \in Frame
    PROVE  /\ Bytes(f) \in Seq(Byte)
           /\ Len(Bytes(f)) = Size(f)
           /\ \A i \in 1..Size(f) : Bytes(f)[i] = <<f, i>>
<1>1. Size(f) \in Nat
  BY FrameEnds
<1>2. Bytes(f) \in [1..Size(f) -> Byte]
  BY <1>1 DEF Bytes, Byte
<1>3. Len(Bytes(f)) = Size(f)
  BY <1>1 DEF Bytes
<1>4. \A i \in 1..Size(f) : Bytes(f)[i] = <<f, i>>
  BY DEF Bytes
<1> QED
  BY <1>1, <1>2, <1>3, <1>4

\* The items of two sequences in their concatenation.
LEMMA Joined ==
    ASSUME NEW S, NEW s \in Seq(S), NEW t \in Seq(S)
    PROVE  /\ s \o t \in Seq(S)
           /\ Len(s \o t) = Len(s) + Len(t)
           /\ \A i \in 1..Len(s) : (s \o t)[i] = s[i]
           /\ \A i \in 1..Len(t) : (s \o t)[Len(s) + i] = t[i]
<1> DEFINE st == s \o t
<1>1. Len(s) \in Nat /\ Len(t) \in Nat
  OBVIOUS
<1>2. /\ st \in Seq(S) /\ Len(st) = Len(s) + Len(t)
      /\ \A i \in 1..Len(s) + Len(t) : st[i] = IF i <= Len(s) THEN s[i] ELSE t[i - Len(s)]
  BY ConcatProperties
<1> HIDE DEF st
<1>3. ASSUME NEW i \in 1..Len(s) PROVE st[i] = s[i]
  BY <1>1, <1>2
<1>4. ASSUME NEW i \in 1..Len(t) PROVE st[Len(s) + i] = t[i]
  <2>1. /\ Len(s) + i \in 1..Len(s) + Len(t)
        /\ ~ (Len(s) + i <= Len(s)) /\ Len(s) + i - Len(s) = i
    BY <1>1
  <2> QED
    BY <1>2, <2>1
<1> QED
  BY <1>2, <1>3, <1>4 DEF st

LEMMA NoStream == Stream(<<>>, <<>>)
<1> DEFINE c == [k \in 1..1 |-> 0]
<1>1. Carries(<<>>, <<>>, c)
  BY DEF Carries
<1> QED
  BY <1>1 DEF Stream

LEMMA StreamGrows ==
    ASSUME NEW s \in Seq(Byte), NEW q \in Seq(Frame), NEW f \in Frame, Stream(s, q)
    PROVE  Stream(s \o Bytes(f), Append(q, f))
<1> DEFINE t == s \o Bytes(f)
           p == Append(q, f)
<1>1. PICK c : Carries(s, q, c)
  BY DEF Stream
<1> DEFINE d == [k \in 1..Len(q) + 2 |-> IF k = Len(q) + 2 THEN Len(s) + Size(f) ELSE c[k]]
<1>2. /\ Len(p) = Len(q) + 1 /\ p[Len(q) + 1] = f
      /\ \A k \in 1..Len(q) : p[k] = q[k]
  BY AppendProperties
<1>3. /\ Size(f) \in Nat
      /\ Bytes(f) \in Seq(Byte) /\ Len(Bytes(f)) = Size(f)
      /\ \A i \in 1..Size(f) : Bytes(f)[i] = <<f, i>>
  BY BytesOfFrame, FrameEnds
<1>4. /\ Len(t) = Len(s) + Size(f)
      /\ \A i \in 1..Len(s) : t[i] = s[i]
      /\ \A i \in 1..Size(f) : t[Len(s) + i] = <<f, i>>
  <2>1. /\ Len(t) = Len(s) + Len(Bytes(f))
        /\ \A i \in 1..Len(s) : t[i] = s[i]
        /\ \A i \in 1..Len(Bytes(f)) : t[Len(s) + i] = Bytes(f)[i]
    BY <1>3, Joined
  <2> HIDE DEF t
  <2> QED
    BY <1>3, <2>1
<1>5. /\ c \in [1..Len(q) + 1 -> Nat]
      /\ c[1] = 0 /\ c[Len(q) + 1] = Len(s)
      /\ \A j, k \in 1..Len(q) + 1 : j <= k => c[j] <= c[k]
      /\ \A k \in 1..Len(q) : c[k + 1] = c[k] + Size(q[k])
      /\ \A k \in 1..Len(q) : \A i \in 1..Size(q[k]) : s[c[k] + i] = <<q[k], i>>
  BY <1>1 DEF Carries
<1>6. Len(q) \in Nat /\ Len(s) \in Nat
  OBVIOUS
<1>7. /\ \A k \in 1..Len(q) + 1 : d[k] = c[k] /\ c[k] \in Nat /\ c[k] <= Len(s)
      /\ d[Len(q) + 2] = Len(s) + Size(f)
      /\ d \in [1..Len(q) + 2 -> Nat]
  <2>1. ASSUME NEW k \in 1..Len(q) + 1
        PROVE  d[k] = c[k] /\ c[k] \in Nat /\ c[k] <= Len(s)
    <3>1. k \in 1..Len(q) + 2 /\ k # Len(q) + 2 /\ Len(q) + 1 \in 1..Len(q) + 1 /\ k <= Len(q) + 1
      BY <1>6
    <3>2. c[k] <= c[Len(q) + 1] /\ c[k] \in Nat
      BY <1>5, <3>1
    <3> QED
      BY <1>5, <3>1, <3>2
  <2>2. d[Len(q) + 2] = Len(s) + Size(f) /\ Len(s) + Size(f) \in Nat
    BY <1>3, <1>6
  <2>3. ASSUME NEW k \in 1..Len(q) + 2 PROVE d[k] \in Nat
    <3>1. k \in 1..Len(q) + 1 \/ k = Len(q) + 2
      BY <1>6
    <3> QED
      BY <2>1, <2>2, <3>1
  <2> QED
    BY <2>1, <2>2, <2>3
<1> HIDE DEF d, t, p
<1>8. \A j, k \in 1..Len(q) + 2 : j <= k => d[j] <= d[k]
  <2> SUFFICES ASSUME NEW j \in 1..Len(q) + 2, NEW k \in 1..Len(q) + 2, j <= k
               PROVE  d[j] <= d[k]
    OBVIOUS
  <2>1. CASE k \in 1..Len(q) + 1
    BY <1>5, <1>6, <1>7, <2>1
  <2>2. CASE k = Len(q) + 2
    <3>1. j \in 1..Len(q) + 1 \/ j = Len(q) + 2
      BY <1>6
    <3> QED
      BY <1>3, <1>6, <1>7, <2>2, <3>1
  <2> QED
    BY <1>6, <2>1, <2>2
<1>9. ASSUME NEW k \in 1..Len(q) + 1
      PROVE  /\ d[k + 1] = d[k] + Size(p[k])
             /\ \A i \in 1..Size(p[k]) : t[d[k] + i] = <<p[k], i>>
  <2>1. CASE k \in 1..Len(q)
    <3>1. /\ k \in 1..Len(q) + 1 /\ k + 1 \in 1..Len(q) + 1 /\ p[k] = q[k]
          /\ d[k] = c[k] /\ d[k + 1] = c[k + 1] /\ d[k + 1] = d[k] + Size(q[k])
          /\ d[k] \in Nat /\ d[k + 1] <= Len(s)
      BY <1>2, <1>5, <1>6, <1>7, <2>1
    <3>2. Size(q[k]) \in Nat
      BY <2>1, FrameEnds
    <3>3. ASSUME NEW i \in 1..Size(q[k]) PROVE t[d[k] + i] = <<q[k], i>>
      <4>1. d[k] + i \in 1..Len(s)
        BY <1>6, <3>1, <3>2
      <4>2. s[c[k] + i] = <<q[k], i>>
        BY <1>5, <2>1
      <4> QED
        BY <1>4, <3>1, <4>1, <4>2
    <3> QED
      BY <3>1, <3>3
  <2>2. CASE k = Len(q) + 1
    <3>1. d[k] = Len(s) /\ d[k + 1] = Len(s) + Size(f) /\ p[k] = f
      BY <1>2, <1>5, <1>6, <1>7, <2>2
    <3> QED
      BY <1>4, <3>1
  <2> QED
    BY <1>6, <2>1, <2>2
<1>10. d[1] = 0 /\ d[Len(p) + 1] = Len(t)
  BY <1>2, <1>4, <1>5, <1>6, <1>7
<1>11. Len(p) = Len(q) + 1 /\ Len(p) + 1 = Len(q) + 2
  BY <1>2, <1>6
<1>12. Carries(t, p, d)
  BY <1>7, <1>8, <1>9, <1>10, <1>11 DEF Carries
<1> QED
  BY <1>12 DEF Stream, t, p

\* A stream that is not empty begins with its first frame, whole.
LEMMA StreamBegins ==
    ASSUME NEW s \in Seq(Byte), NEW q \in Seq(Frame), Stream(s, q), s # <<>>
    PROVE  /\ q # <<>> /\ q[1] \in Frame
           /\ Size(q[1]) <= Len(s)
           /\ \A i \in 1..Size(q[1]) : s[i] = <<q[1], i>>
<1>1. PICK c : Carries(s, q, c)
  BY DEF Stream
<1>2. Len(q) \in Nat /\ Len(s) \in Nat /\ Len(s) # 0
  BY EmptySeq
<1>3. Len(q) # 0
  <2> SUFFICES ASSUME Len(q) = 0 PROVE FALSE
    OBVIOUS
  <2> QED
    BY <1>1, <1>2 DEF Carries
<1>4. 1 \in 1..Len(q) /\ 2 \in 1..Len(q) + 1 /\ Len(q) + 1 \in 1..Len(q) + 1 /\ 2 <= Len(q) + 1
  BY <1>2, <1>3
<1>5. q[1] \in Frame /\ Size(q[1]) \in Nat
  BY <1>4, FrameEnds
<1>6. c[2] = Size(q[1]) /\ c[2] <= Len(s)
  <2>1. c[1 + 1] = c[1] + Size(q[1]) /\ c[1] = 0
    BY <1>1, <1>4 DEF Carries
  <2>2. c[2] <= c[Len(q) + 1] /\ c[Len(q) + 1] = Len(s)
    BY <1>1, <1>4 DEF Carries
  <2> QED
    BY <1>5, <2>1, <2>2
<1>7. ASSUME NEW i \in 1..Size(q[1]) PROVE s[i] = <<q[1], i>>
  <2>1. s[c[1] + i] = <<q[1], i>> /\ c[1] = 0
    BY <1>1, <1>4 DEF Carries
  <2>2. 0 + i = i
    BY <1>5
  <2> QED
    BY <2>1, <2>2
<1> QED
  BY <1>3, <1>5, <1>6, <1>7

\* What is behind the first frame carries the frames behind it.
LEMMA StreamGoesOn ==
    ASSUME NEW f \in Frame, NEW s \in Seq(Byte), NEW q \in Seq(Frame), q # <<>>, q[1] = f,
           Stream(Bytes(f) \o s, q)
    PROVE  Stream(s, Tail(q))
<1> DEFINE t == Bytes(f) \o s
           p == Tail(q)
<1>1. PICK c : Carries(t, q, c)
  BY DEF Stream
<1> DEFINE d == [k \in 1..Len(q) |-> c[k + 1] - Size(f)]
<1>2. /\ Len(q) \in Nat /\ Len(q) # 0 /\ Len(s) \in Nat
      /\ Len(p) = Len(q) - 1 /\ Len(p) + 1 = Len(q)
      /\ \A k \in 1..Len(p) : p[k] = q[k + 1]
  BY HeadTailProperties, EmptySeq
<1>3. /\ Size(f) \in Nat
      /\ Len(t) = Size(f) + Len(s)
      /\ \A i \in 1..Len(s) : t[Size(f) + i] = s[i]
  <2>1. Size(f) \in Nat /\ Bytes(f) \in Seq(Byte) /\ Len(Bytes(f)) = Size(f)
    BY BytesOfFrame, FrameEnds
  <2>2. /\ Len(Bytes(f) \o s) = Len(Bytes(f)) + Len(s)
        /\ \A i \in 1..Len(s) : (Bytes(f) \o s)[Len(Bytes(f)) + i] = s[i]
    <3>1. \A u \in Seq(Byte) : Len(u \o s) = Len(u) + Len(s)
                                  /\ \A i \in 1..Len(s) : (u \o s)[Len(u) + i] = s[i]
      BY Joined
    <3> QED
      BY <2>1, <3>1
  <2> QED
    BY <2>1, <2>2
<1>4. /\ c \in [1..Len(q) + 1 -> Nat]
      /\ c[1] = 0 /\ c[Len(q) + 1] = Len(t)
      /\ \A j, k \in 1..Len(q) + 1 : j <= k => c[j] <= c[k]
      /\ \A k \in 1..Len(q) : c[k + 1] = c[k] + Size(q[k])
      /\ \A k \in 1..Len(q) : \A i \in 1..Size(q[k]) : t[c[k] + i] = <<q[k], i>>
  BY <1>1 DEF Carries
<1>5. c[2] = Size(f)
  <2>1. c[1 + 1] = c[1] + Size(q[1])
    BY <1>2, <1>4
  <2> QED
    BY <1>3, <1>4, <2>1
<1>6. ASSUME NEW k \in 1..Len(q)
      PROVE  d[k] = c[k + 1] - Size(f) /\ c[k + 1] \in Nat /\ d[k] \in Nat
  <2>1. k + 1 \in 1..Len(q) + 1 /\ 2 \in 1..Len(q) + 1 /\ 2 <= k + 1
    BY <1>2
  <2>2. c[2] <= c[k + 1] /\ c[k + 1] \in Nat
    BY <1>4, <2>1
  <2> QED
    BY <1>3, <1>5, <2>2
<1>7. d \in [1..Len(q) -> Nat]
  BY <1>6
<1> HIDE DEF d, t, p
<1>8. \A j, k \in 1..Len(q) : j <= k => d[j] <= d[k]
  <2> SUFFICES ASSUME NEW j \in 1..Len(q), NEW k \in 1..Len(q), j <= k PROVE d[j] <= d[k]
    OBVIOUS
  <2>1. j + 1 \in 1..Len(q) + 1 /\ k + 1 \in 1..Len(q) + 1 /\ j + 1 <= k + 1
    BY <1>2
  <2>2. c[j + 1] <= c[k + 1]
    BY <1>4, <2>1
  <2> QED
    BY <1>3, <1>6, <2>2
<1>9. ASSUME NEW k \in 1..Len(p)
      PROVE  /\ d[k + 1] = d[k] + Size(p[k])
             /\ \A i \in 1..Size(p[k]) : s[d[k] + i] = <<p[k], i>>
  <2>1. k \in 1..Len(q) /\ k + 1 \in 1..Len(q) /\ k + 2 \in 1..Len(q) + 1 /\ p[k] = q[k + 1]
    BY <1>2
  <2>2. Size(p[k]) \in Nat
    BY <2>1, FrameEnds
  <2>3. c[k + 2] = c[k + 1] + Size(p[k])
    <3>1. c[(k + 1) + 1] = c[k + 1] + Size(q[k + 1])
      BY <1>4, <2>1
    <3>2. (k + 1) + 1 = k + 2
      OBVIOUS
    <3> QED
      BY <2>1, <3>1, <3>2
  <2>4. d[k + 1] = c[k + 2] - Size(f) /\ d[k] = c[k + 1] - Size(f) /\ c[k + 1] \in Nat
    <3>1. d[k + 1] = c[(k + 1) + 1] - Size(f)
      BY <1>6, <2>1
    <3>2. (k + 1) + 1 = k + 2
      OBVIOUS
    <3> QED
      BY <1>6, <2>1, <3>1, <3>2
  <2>5. d[k + 1] = d[k] + Size(p[k])
    BY <1>3, <2>2, <2>3, <2>4
  <2>6. d[k] \in Nat /\ d[k + 1] <= Len(s)
    <3>1. k + 2 <= Len(q) + 1 /\ Len(q) + 1 \in 1..Len(q) + 1
      BY <1>2
    <3>2. c[k + 2] <= Len(t)
      BY <1>4, <2>1, <3>1
    <3>3. d[k] \in Nat
      BY <1>6, <2>1
    <3>4. d[k + 1] = c[k + 2] - Size(f) /\ c[k + 2] \in Nat
      BY <2>2, <2>3, <2>4
    <3> QED
      BY <1>2, <1>3, <3>2, <3>3, <3>4
  <2>7. ASSUME NEW i \in 1..Size(p[k]) PROVE s[d[k] + i] = <<p[k], i>>
    <3>1. t[c[k + 1] + i] = <<q[k + 1], i>>
      BY <1>4, <2>1
    <3>2. d[k] + i \in 1..Len(s)
      BY <1>2, <2>2, <2>5, <2>6
    <3>3. c[k + 1] + i = Size(f) + (d[k] + i)
      BY <1>3, <2>2, <2>4
    <3> QED
      BY <1>3, <2>1, <3>1, <3>2, <3>3
  <2> QED
    BY <2>5, <2>7
<1>10. d[1] = 0 /\ d[Len(q)] = Len(s)
  <2>1. 1 \in 1..Len(q) /\ Len(q) \in 1..Len(q) /\ 1 + 1 = 2
    BY <1>2
  <2>2. d[1] = c[2] - Size(f)
    BY <1>6, <2>1
  <2>3. d[Len(q)] = c[Len(q) + 1] - Size(f)
    BY <1>6, <2>1
  <2> QED
    BY <1>2, <1>3, <1>4, <1>5, <2>2, <2>3
<1>11. Carries(s, p, d)
  BY <1>2, <1>7, <1>8, <1>9, <1>10 DEF Carries
<1> QED
  BY <1>11 DEF Stream, p
-----------------------------------------------------------------------------
(* The frames read.                                                         *)

\* The frame being read, and what is left of the stream.
StreamTyped == sent \in Seq(Frame) /\ inbox \in Seq(Byte) /\ got \in Seq(Byte)

Unasked == {"check", "popen", "popened", "endpoint", "connect", "handshake", "ask"}

FrameBegun ==
    /\ pc = "recv" => got = <<>> \/ (2 <= Len(got) /\ Len(got) < Size(sent[1]))
    /\ pc = "frame" => sent # <<>> /\ got = Bytes(sent[1])

\* Once a part of the stream is gone, only the types are known.
StreamInv ==
    /\ StreamTyped
    /\ pc \in Unasked => got = <<>>
    /\ ~ torn => Stream(got \o inbox, sent) /\ FrameBegun

LEMMA StreamInitial == Init => StreamInv
<1> SUFFICES ASSUME Init PROVE StreamInv
  OBVIOUS
<1>1. sent = <<>> /\ inbox = <<>> /\ got = <<>> /\ pc = "check"
  BY DEF Init
<1>2. <<>> \o <<>> = <<>>
  BY ConcatEmptySeq
<1> QED
  BY <1>1, <1>2, NoStream DEF StreamInv, StreamTyped, FrameBegun, Unasked

\* A step that leaves the stream alone, or leaves the with block.
LEMMA StreamStays ==
    ASSUME StreamInv, UNCHANGED <<sent, inbox, got, torn>>,
           \/ pc' = pc
           \/ pc \in Unasked /\ pc' \in Unasked \cup {"recv"}
           \/ pc' \notin Unasked \cup {"recv", "frame"}
    PROVE  StreamInv'
BY DEF StreamInv, StreamTyped, FrameBegun, Unasked

LEMMA LeavingEmpties ==
    ASSUME NEW place \in {"terminate", "report"}, Leave(place)
    PROVE  StreamInv'
<1>1. sent' = <<>> /\ inbox' = <<>> /\ got' = <<>> /\ pc' \notin Unasked \cup {"recv", "frame"}
  BY DEF Leave, Unasked
<1>2. <<>> \o <<>> = <<>>
  BY ConcatEmptySeq
<1> QED
  BY <1>1, <1>2, NoStream DEF StreamInv, StreamTyped, FrameBegun, Unasked

LEMMA SendsKeeps ==
    ASSUME StreamInv, NEW f \in Frame, Sends(f)
    PROVE  StreamInv'
<1>1. /\ sent' = IF torn THEN sent ELSE Append(sent, f)
      /\ inbox' = inbox \o Bytes(f) /\ got' = got /\ torn' = torn /\ pc' = pc
  BY DEF Sends
<1>2. sent \in Seq(Frame) /\ inbox \in Seq(Byte) /\ got \in Seq(Byte) /\ Bytes(f) \in Seq(Byte)
  BY BytesOfFrame DEF StreamInv, StreamTyped
<1>3. StreamTyped'
  BY <1>1, <1>2 DEF StreamTyped
<1> SUFFICES ASSUME ~ torn PROVE Stream(got' \o inbox', sent') /\ FrameBegun'
  BY <1>1, <1>3 DEF StreamInv
<1>4. Stream(got' \o inbox', sent')
  <2>1. got \o inbox \in Seq(Byte)
    BY <1>2
  <2>2. Stream((got \o inbox) \o Bytes(f), Append(sent, f))
    BY <1>2, <2>1, StreamGrows DEF StreamInv
  <2>3. (got \o inbox) \o Bytes(f) = got \o (inbox \o Bytes(f))
    BY <1>2, ConcatAssociative
  <2> QED
    BY <1>1, <2>2, <2>3
<1>5. sent # <<>> => sent'[1] = sent[1] /\ sent' # <<>>
  <2>1. sent' = Append(sent, f)
    BY <1>1
  <2> QED
    BY <1>2, <2>1, AppendProperties, EmptySeq
<1>6. got # <<>> => sent # <<>>
  <2> SUFFICES ASSUME got # <<>> PROVE sent # <<>>
    OBVIOUS
  <2>1. got \o inbox \in Seq(Byte) /\ got \o inbox # <<>>
    BY <1>2, ConcatEqualIffEmpty
  <2> QED
    BY <1>2, <2>1, StreamBegins DEF StreamInv
<1>7. FrameBegun'
  BY <1>1, <1>5, <1>6 DEF StreamInv, FrameBegun
<1> QED
  BY <1>4, <1>7

LEMMA LeastOfTwo ==
    ASSUME NEW a \in Nat, NEW b \in Nat
    PROVE  Min({a, b}) \in Nat /\ Min({a, b}) <= a /\ Min({a, b}) <= b
<1>1. \E m \in {a, b} : \A n \in {a, b} : m <= n
  OBVIOUS
<1>2. Min({a, b}) \in {a, b} /\ \A n \in {a, b} : Min({a, b}) <= n
  BY <1>1 DEF Min
<1> QED
  BY <1>2

\* A frame's next end: at least one byte is missing to it, and it is in the frame.
LEMMA NextEnd ==
    ASSUME NEW f \in Frame, NEW n \in Nat, n < Size(f)
    PROVE  LET m == Min({f.ends[p] : p \in 1..4} \ 0..n)
           IN  m \in Nat /\ n < m /\ m <= Size(f)
<1> DEFINE Ends == {f.ends[p] : p \in 1..4}
           Later == Ends \ 0..n
<1>1. /\ f.ends[1] \in Nat /\ f.ends[2] \in Nat /\ f.ends[3] \in Nat /\ f.ends[4] \in Nat
      /\ f.ends[1] <= f.ends[2] /\ f.ends[2] <= f.ends[3] /\ f.ends[3] <= f.ends[4]
      /\ Size(f) = f.ends[4]
  BY FrameEnds
<1>2. Ends = {f.ends[1], f.ends[2], f.ends[3], f.ends[4]}
  <2>1. 1..4 = {1, 2, 3, 4}
    OBVIOUS
  <2> QED
    BY <2>1
<1> HIDE DEF Ends
<1>3. \A e : e \in Later <=> /\ e \in {f.ends[1], f.ends[2], f.ends[3], f.ends[4]}
                             /\ n < e
  BY <1>1, <1>2
<1>4. \E m \in Later : \A e \in Later : m <= e
  <2> HIDE DEF Later
  <2>1. CASE n < f.ends[1]
    BY <1>1, <1>3, <2>1
  <2>2. CASE f.ends[1] <= n /\ n < f.ends[2]
    BY <1>1, <1>3, <2>2
  <2>3. CASE f.ends[2] <= n /\ n < f.ends[3]
    BY <1>1, <1>3, <2>3
  <2>4. CASE f.ends[3] <= n
    BY <1>1, <1>3, <2>4
  <2> QED
    BY <1>1, <2>1, <2>2, <2>3, <2>4
<1>5. Min(Later) \in Later
  BY <1>4 DEF Min
<1>6. Min(Later) \in Nat /\ n < Min(Later) /\ Min(Later) <= Size(f)
  <2> HIDE DEF Later
  <2> QED
    BY <1>1, <1>3, <1>5
<1> QED
  BY <1>6 DEF Ends

\* recv() takes at least one byte that is there, and none behind the part being
\* read.
LEMMA RecvWithinPart ==
    ASSUME StreamInv, NEW n, Recv(n)
    PROVE  /\ sent # <<>> /\ sent[1] \in Frame /\ Size(sent[1]) \in Nat
           /\ n \in Nat /\ 1 <= n /\ n <= Len(inbox)
           /\ Len(got) + n <= Size(sent[1]) /\ 2 <= Len(got) + n
           /\ got # <<>> => got[1] = <<sent[1], 1>>
<1>1. /\ pc = "recv" /\ ~ torn
      /\ n \in 1..Min({Missing, Len(inbox)}) /\ ~ (got = <<>> /\ n = 1)
  BY DEF Recv
<1>2. sent \in Seq(Frame) /\ inbox \in Seq(Byte) /\ got \in Seq(Byte)
      /\ Len(inbox) \in Nat /\ Len(got) \in Nat
  BY DEF StreamInv, StreamTyped
<1>3. got \o inbox \in Seq(Byte) /\ Stream(got \o inbox, sent)
  BY <1>1, <1>2 DEF StreamInv
<1>4. ASSUME got \o inbox # <<>>
      PROVE  /\ sent # <<>> /\ sent[1] \in Frame
             /\ \A i \in 1..Size(sent[1]) : (got \o inbox)[i] = <<sent[1], i>>
  BY <1>2, <1>3, <1>4, StreamBegins
<1>5. CASE got = <<>>
  <2>1. Missing = 2
    BY <1>5 DEF Missing
  <2>2. n <= 2 /\ n <= Len(inbox) /\ n \in Nat /\ n = 2
    <3>1. /\ Min({2, Len(inbox)}) \in Nat
          /\ Min({2, Len(inbox)}) <= 2 /\ Min({2, Len(inbox)}) <= Len(inbox)
      BY <1>2, LeastOfTwo
    <3> QED
      BY <1>1, <1>2, <1>5, <2>1, <3>1
  <2>3. inbox # <<>>
    BY <1>2, <2>2, EmptySeq
  <2>4. got \o inbox # <<>>
    BY <1>2, <2>3, ConcatEqualIffEmpty
  <2>5. sent # <<>> /\ sent[1] \in Frame /\ 2 <= Size(sent[1]) /\ Size(sent[1]) \in Nat
    BY <1>4, <2>4, FrameEnds
  <2>6. Len(got) = 0
    BY <1>5
  <2> QED
    BY <1>5, <2>2, <2>5, <2>6
<1>6. CASE got # <<>>
  <2>1. 2 <= Len(got) /\ Len(got) < Size(sent[1])
    BY <1>1, <1>6 DEF StreamInv, FrameBegun
  <2>2. got \o inbox # <<>>
    BY <1>2, <1>6, ConcatEqualIffEmpty
  <2>3. sent # <<>> /\ sent[1] \in Frame /\ Size(sent[1]) \in Nat
    BY <1>4, <2>2, FrameEnds
  <2>4. got[1] = <<sent[1], 1>>
    <3>1. 1 \in 1..Size(sent[1]) /\ 1 \in 1..Len(got)
      BY <1>2, <2>1, <2>3
    <3>2. (got \o inbox)[1] = got[1]
      BY <1>2, <3>1, Joined
    <3> QED
      BY <1>4, <2>2, <3>1, <3>2
  <2>5. Missing \in Nat /\ Len(got) + Missing <= Size(sent[1])
    <3>1. got[1][1] = sent[1]
      BY <2>4
    <3> DEFINE m == Min({sent[1].ends[p] : p \in 1..4} \ 0..Len(got))
    <3>2. m \in Nat /\ Len(got) < m /\ m <= Size(sent[1])
      BY <1>2, <2>1, <2>3, NextEnd
    <3>3. Missing = m - Len(got)
      BY <1>6, <3>1 DEF Missing
    <3> HIDE DEF m
    <3> QED
      BY <1>2, <2>3, <3>2, <3>3
  <2>6. /\ Min({Missing, Len(inbox)}) \in Nat
        /\ Min({Missing, Len(inbox)}) <= Missing /\ Min({Missing, Len(inbox)}) <= Len(inbox)
    BY <1>2, <2>5, LeastOfTwo
  <2>7. n \in Nat /\ 1 <= n /\ n <= Missing /\ n <= Len(inbox)
    BY <1>1, <1>2, <2>5, <2>6
  <2>8. Len(got) + n <= Size(sent[1]) /\ 2 <= Len(got) + n
    BY <1>2, <2>1, <2>3, <2>5, <2>7
  <2> QED
    BY <2>3, <2>4, <2>7, <2>8
<1> QED
  BY <1>5, <1>6

LEMMA RecvKeeps ==
    ASSUME StreamInv, NEW n, Recv(n)
    PROVE  StreamInv'
<1> DEFINE f == sent[1]
           taken == SubSeq(inbox, 1, n)
           left == SubSeq(inbox, n + 1, Len(inbox))
<1>1. /\ got' = got \o taken /\ inbox' = left /\ sent' = sent /\ pc' = FrameState(got')
      /\ ~ torn /\ torn' = torn
  BY DEF Recv
<1>2. /\ sent \in Seq(Frame) /\ inbox \in Seq(Byte) /\ got \in Seq(Byte)
      /\ Len(inbox) \in Nat /\ Len(got) \in Nat
  BY DEF StreamInv, StreamTyped
<1>3. /\ sent # <<>> /\ f \in Frame /\ Size(f) \in Nat
      /\ n \in Nat /\ 1 <= n /\ n <= Len(inbox)
      /\ Len(got) + n <= Size(f) /\ 2 <= Len(got) + n
      /\ got # <<>> => got[1] = <<f, 1>>
  BY RecvWithinPart
<1>4. taken \in Seq(Byte) /\ Len(taken) = n /\ left \in Seq(Byte) /\ taken \o left = inbox
  <2>1. /\ 1 \in 1..Len(inbox) + 1 /\ n \in 1 - 1..Len(inbox) /\ Len(inbox) \in n..Len(inbox)
    BY <1>2, <1>3
  <2>2. SubSeq(inbox, 1, n) \o SubSeq(inbox, n + 1, Len(inbox)) = SubSeq(inbox, 1, Len(inbox))
    BY <1>2, <2>1, ConcatAdjacentSubSeq
  <2>3. SubSeq(inbox, 1, Len(inbox)) = inbox
    BY <1>2, SubSeqFull
  <2>4. taken \in Seq(Byte) /\ Len(taken) = n
    <3>1. \A i \in 1..n : inbox[i] \in Byte
      BY <1>2, <1>3
    <3> QED
      BY <1>3, <3>1, SubSeqProperties
  <2>5. left \in Seq(Byte)
    <3>1. \A i \in n + 1..Len(inbox) : inbox[i] \in Byte
      BY <1>2, <1>3
    <3> QED
      BY <1>2, <1>3, <3>1, SubSeqProperties
  <2> QED
    BY <2>2, <2>3, <2>4, <2>5
<1> HIDE DEF taken, left, f
<1>5. got' \in Seq(Byte) /\ Len(got') = Len(got) + n
  BY <1>1, <1>2, <1>4, ConcatProperties
<1>6. got' \o inbox' = got \o inbox
  <2>1. (got \o taken) \o left = got \o (taken \o left)
    <3>1. \A s, t, u \in Seq(Byte) : (s \o t) \o u = s \o (t \o u)
      BY ConcatAssociative
    <3> QED
      BY <1>2, <1>4, <3>1
  <2> QED
    BY <1>1, <1>4, <2>1
<1>7. got' # <<>> /\ got' \o inbox' # <<>>
  <2>1. got' # <<>>
    BY <1>2, <1>3, <1>5, EmptySeq
  <2> QED
    BY <1>1, <1>4, <1>5, <2>1, ConcatEqualIffEmpty
<1>8. \A i \in 1..Len(got') : got'[i] = <<f, i>>
  <2>1. \A i \in 1..Size(f) : (got \o inbox)[i] = <<f, i>>
    <3>1. got \o inbox \in Seq(Byte) /\ Stream(got \o inbox, sent) /\ got \o inbox # <<>>
      BY <1>1, <1>2, <1>6, <1>7 DEF StreamInv
    <3> QED
      BY <1>2, <3>1, StreamBegins DEF f
  <2>2. ASSUME NEW i \in 1..Len(got') PROVE got'[i] = <<f, i>>
    <3>1. i \in 1..Size(f)
      BY <1>2, <1>3, <1>5
    <3>2. (got' \o inbox')[i] = got'[i]
      BY <1>1, <1>4, <1>5, Joined
    <3> QED
      BY <1>6, <2>1, <3>1, <3>2
  <2> QED
    BY <2>2
<1>9. got'[1][1] = f
  <2>1. 1 \in 1..Len(got')
    BY <1>2, <1>3, <1>5
  <2> QED
    BY <1>8, <2>1
<1>10. FrameBegun'
  <2>1. CASE Len(got') = Size(f)
    <3>1. got' = Bytes(f)
      <4>1. Bytes(f) \in Seq(Byte) /\ Len(Bytes(f)) = Size(f)
            /\ \A i \in 1..Size(f) : Bytes(f)[i] = <<f, i>>
        BY <1>3, BytesOfFrame
      <4> QED
        BY <1>5, <1>8, <2>1, <4>1, SeqEqual
    <3>2. pc' = "frame"
      BY <1>1, <1>9, <2>1 DEF FrameState
    <3> QED
      BY <1>1, <1>3, <3>1, <3>2 DEF FrameBegun, f
  <2>2. CASE Len(got') # Size(f)
    <3>1. pc' = "recv"
      BY <1>1, <1>9, <2>2 DEF FrameState
    <3>2. 2 <= Len(got') /\ Len(got') < Size(f)
      <4>1. Len(got') \in Nat /\ 2 <= Len(got') /\ Len(got') <= Size(f)
        BY <1>2, <1>3, <1>5
      <4> QED
        BY <1>3, <2>2, <4>1
    <3> QED
      BY <1>1, <3>1, <3>2 DEF FrameBegun, f
  <2> QED
    BY <2>1, <2>2
<1>11. pc' \notin Unasked
  BY <1>1 DEF FrameState, Unasked
<1> QED
  BY <1>1, <1>2, <1>4, <1>5, <1>6, <1>10, <1>11 DEF StreamInv, StreamTyped

\* What is left of the bytes on the way when some were taken.
LEMMA RestTyped ==
    ASSUME StreamTyped, NEW n \in 1..Len(inbox)
    PROVE  SubSeq(inbox, n + 1, Len(inbox)) \in Seq(Byte)
<1>1. inbox \in Seq(Byte) /\ Len(inbox) \in Nat
  BY DEF StreamTyped
<1>2. \A i \in n + 1..Len(inbox) : inbox[i] \in Byte
  BY <1>1
<1> QED
  BY <1>1, <1>2, SubSeqProperties

LEMMA MisreadKeeps ==
    ASSUME StreamInv, NEW n, HandshakeSwallows(n) \/ Misread(n)
    PROVE  StreamInv'
<1>1. n \in 1..Len(inbox) /\ inbox' = SubSeq(inbox, n + 1, Len(inbox)) /\ torn'
  BY DEF HandshakeSwallows, Misread
<1>2. inbox' \in Seq(Byte)
  BY <1>1, RestTyped DEF StreamInv
<1>3. sent' \in Seq(Frame) /\ got' \in Seq(Byte)
  <2>1. sent' = <<>> \/ sent' = sent
    BY DEF HandshakeSwallows, Misread
  <2>2. <<>> \in Seq(Frame)
    BY EmptySeq
  <2>3. got' = got \/ \E f \in Frame : got' = Bytes(f)
    BY DEF HandshakeSwallows, Misread
  <2> QED
    BY <2>1, <2>2, <2>3, BytesOfFrame DEF StreamInv, StreamTyped
<1>4. pc' \in Unasked => got' = <<>>
  BY DEF HandshakeSwallows, Misread, StreamInv, Unasked
<1> QED
  BY <1>1, <1>2, <1>3, <1>4 DEF StreamInv, StreamTyped

LEMMA NextFrameKeeps ==
    ASSUME StreamInv, pc = "frame", NextFrame
    PROVE  StreamInv'
<1>1. /\ pc' = "recv" /\ got' = <<>> /\ inbox' = inbox /\ torn' = torn
      /\ sent' = IF torn THEN sent ELSE Tail(sent)
  BY DEF NextFrame
<1>2. CASE torn
  BY <1>1, <1>2 DEF StreamInv, StreamTyped, Unasked
<1>3. CASE ~ torn
  <2>1. /\ sent \in Seq(Frame) /\ inbox \in Seq(Byte) /\ Stream(got \o inbox, sent)
        /\ sent # <<>> /\ got = Bytes(sent[1])
    BY <1>3 DEF StreamInv, StreamTyped, FrameBegun
  <2>2. sent[1] \in Frame /\ Tail(sent) \in Seq(Frame)
    BY <2>1, HeadTailProperties
  <2>3. Stream(inbox, Tail(sent))
    BY <2>1, <2>2, StreamGoesOn
  <2>4. <<>> \o inbox = inbox
    BY <2>1, ConcatEmptySeq
  <2> QED
    BY <1>1, <1>3, <2>1, <2>2, <2>3, <2>4 DEF StreamInv, StreamTyped, FrameBegun, Unasked
<1> QED
  BY <1>2, <1>3

LEMMA StreamInductive == StreamInv /\ [Next]_vars => StreamInv'
<1> SUFFICES ASSUME StreamInv, [Next]_vars PROVE StreamInv'
  OBVIOUS
<1>1. CASE Serves \/ Blocks \/ LeaderEnds \/ HelpersEnd \/ Closes
  BY <1>1, StreamStays DEF Serves, Blocks, LeaderEnds, HelpersEnd, Closes, streamVars
<1>2. CASE \E f \in Frame : Sends(f)
  BY <1>2, SendsKeeps
<1>3. CASE \/ Refuse \/ MakeProfile \/ Popen \/ PopenFails \/ EnterTry \/ EndpointOpens
           \/ Connect \/ HandshakeRecv \/ HandshakeDone \/ Ask
  BY <1>3, StreamStays DEF Refuse, MakeProfile, Popen, PopenFails, EnterTry, EndpointOpens,
          Connect, HandshakeRecv, HandshakeDone, Ask, Goto, streamVars, Unasked
<1>4. CASE \/ EndpointTimeout \/ ConnectFails \/ HandshakeFails \/ AskFails
           \/ RecvHalfHeader \/ RecvEof \/ RecvTimeout \/ PongFails \/ Refused \/ Answered
  <2>1. Leave("terminate") \/ Leave("report")
    BY <1>4 DEF EndpointTimeout, ConnectFails, HandshakeFails, AskFails, RecvHalfHeader,
                RecvEof, RecvTimeout, PongFails, Refused, Answered, Raise
  <2> QED
    BY <2>1, LeavingEmpties
<1>5. CASE \E n \in 1..MaxInFlight : HandshakeSwallows(n) \/ Recv(n) \/ Misread(n)
  BY <1>5, RecvKeeps, MisreadKeeps
<1>6. CASE Pong \/ Ignore
  BY <1>6, NextFrameKeeps DEF Pong, Ignore
<1>7. CASE \/ Report \/ Terminate \/ WaitEnds \/ WaitTimeout \/ KillTimeout
           \/ Remove \/ RemoveFails
  BY <1>7, StreamStays DEF Report, Terminate, WaitEnds, WaitTimeout, KillTimeout, Remove,
          RemoveFails, Goto, Signal, streamVars, Unasked
<1>8. CASE Interrupt
  <2>1. CASE pc \in Guarded /\ Raise
    BY <2>1, LeavingEmpties DEF Raise
  <2>2. CASE ~ (pc \in Guarded /\ Raise)
    BY <1>8, <2>2, StreamStays DEF Interrupt, Goto, streamVars, Unasked
  <2> QED
    BY <2>1, <2>2
<1>9. CASE Killed \/ UNCHANGED vars
  BY <1>9, StreamStays DEF Killed, vars, streamVars, Unasked
<1> QED
  BY <1>1, <1>2, <1>3, <1>4, <1>5, <1>6, <1>7, <1>8, <1>9 DEF Next, Browser, Probe

\* Whatever frames the browser sends and however recv() splits them, the frame
\* that is looked at is the oldest one not handled yet, whole.
THEOREM FramesAreIntact == Spec => []FramesIntact
<1>1. StreamInv => FramesIntact
  BY DEF StreamInv, FrameBegun, FramesIntact
<1> QED
  BY <1>1, StreamInitial, StreamInductive, PTL DEF Spec
=============================================================================
