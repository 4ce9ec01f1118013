------------------------ MODULE CaseLifecycleProofs ------------------------
(***************************************************************************)
(* Proofs about CaseLifecycle for any number of cases, interrupts and       *)
(* deaths, any set of helpers that outlive SIGKILL, with and without the    *)
(* namespace and an expiring ticket: what a case leaves behind, the order   *)
(* of its cleanup and the status it ends with.                              *)
(***************************************************************************)
EXTENDS CaseLifecycle, SequenceTheorems, TLAPS

Scopes == {"outer", "inner"}

\* The helpers a scope's finally block knows.
Listed(where) ==
    IF where = "inner"
    THEN {"churn", "key_stimulus", "key_injector", "probe"}
    ELSE {"xvfb", "chansrv", "vnc", "proxy", "xrdp", "client", "stimulus", "probe"}

\* The finally block of run_case() undoes its starts in reverse.
LEMMA StartsAreReversedKills ==
    /\ Len(Starts("outer")) = IF mode = "graphics" THEN 8 ELSE 6
    /\ \A k \in 1..Len(Starts("outer")) : Starts("outer")[k] = Kills("outer")[9 - k]
<1> DEFINE more == IF mode = "graphics" THEN <<"stimulus", "probe">> ELSE <<>>
<1>1. Starts("outer") = Services \o more
  BY DEF Starts
<1>2. /\ Services \in Seq(Helpers) /\ Len(Services) = 6
      /\ more \in Seq(Helpers) /\ Len(more) \in {0, 2}
  <2>1. Services \in Seq(Helpers) /\ Len(Services) = 6
    BY DEF Services, Helpers
  <2>2. <<"stimulus", "probe">> \in Seq(Helpers) /\ Len(<<"stimulus", "probe">>) = 2
    BY DEF Helpers
  <2>3. <<>> \in Seq(Helpers) /\ Len(<<>>) = 0
    OBVIOUS
  <2> QED
    BY <2>1, <2>2, <2>3
<1>3. \A k \in 1..6 : Services[k] = Kills("outer")[9 - k]
  BY DEF Services, Kills
<1>4. \A k \in 1..Len(more) : more[k] = Kills("outer")[3 - k]
  BY DEF Kills
<1> HIDE DEF more
<1>5. /\ Len(Services \o more) = Len(Services) + Len(more)
      /\ \A k \in 1..(Len(Services) + Len(more)) :
            (Services \o more)[k] = IF k <= Len(Services) THEN Services[k] ELSE more[k - Len(Services)]
  BY <1>2, ConcatProperties, Zenon
<1>6. ASSUME NEW k \in 1..(6 + Len(more)), k > 6
      PROVE  k - 6 \in 1..Len(more) /\ 9 - k = 3 - (k - 6)
  BY <1>2, <1>6
<1> DEFINE S == Starts("outer")
<1>7. /\ Len(S) = 6 + Len(more)
      /\ \A k \in 1..(6 + Len(more)) : S[k] = IF k <= 6 THEN Services[k] ELSE more[k - 6]
  BY <1>1, <1>2, <1>5
<1> HIDE DEF S
<1>8. ASSUME NEW k \in 1..Len(S) PROVE S[k] = Kills("outer")[9 - k]
  <2>1. CASE k <= 6
    BY <1>2, <1>3, <1>7, <2>1
  <2>2. CASE k > 6
    <3>1. S[k] = more[k - 6]
      BY <1>2, <1>7, <2>2
    <3>2. k - 6 \in 1..Len(more) /\ 9 - k = 3 - (k - 6)
      BY <1>2, <1>6, <1>7, <2>2
    <3> QED
      BY <1>4, <3>1, <3>2
  <2> QED
    BY <1>2, <1>7, <2>1, <2>2
<1>9. Len(S) = IF mode = "graphics" THEN 8 ELSE 6
  <2>1. Len(more) = IF mode = "graphics" THEN 2 ELSE 0
    BY DEF more
  <2> QED
    BY <1>7, <2>1
<1> QED
  BY <1>8, <1>9 DEF S

LEMMA StartsAreListed ==
    ASSUME NEW w \in Scopes
    PROVE  /\ Len(Starts(w)) \in 1..8
           /\ \A i \in 1..Len(Starts(w)) : Starts(w)[i] \in Listed(w)
<1>1. CASE w = "inner"
  BY <1>1 DEF Starts, Listed
<1>2. CASE w = "outer"
  <2>1. \A i \in 1..8 : Kills("outer")[9 - i] \in Listed("outer")
    BY DEF Kills, Listed
  <2>2. \A i \in 1..Len(Starts("outer")) : i \in 1..8
    BY StartsAreReversedKills
  <2> QED
    BY <1>2, <2>1, <2>2, StartsAreReversedKills
<1> QED
  BY <1>1, <1>2 DEF Scopes

LEMMA KillsAreListed ==
    ASSUME NEW w \in Scopes
    PROVE  /\ Len(Kills(w)) = IF w = "inner" THEN 4 ELSE 8
           /\ Listed(w) = {Kills(w)[i] : i \in 1..Len(Kills(w))}
<1>1. CASE w = "inner"
  BY <1>1 DEF Kills, Listed
<1>2. CASE w = "outer"
  BY <1>2 DEF Kills, Listed
<1> QED
  BY <1>1, <1>2 DEF Scopes

LEMMA InnerHelpers == Listed("inner") = {Starts("inner")[i] : i \in 1..4}
BY DEF Starts, Listed

LEMMA HelpersAreListed == Helpers = Listed("outer") \cup Listed("inner")
BY DEF Helpers, Listed

LEMMA LaterHelpersAreKilledEarlier ==
    ASSUME NEW n \in 1..8, NEW h \in StartedAfter(Kills("outer")[n])
    PROVE  \E i \in 1..(n - 1) : Kills("outer")[i] = h
<1> DEFINE K == Kills("outer")
           S == Starts("outer")
<1>1. PICK j \in 1..Len(S) : h = S[j] /\ \E i \in 1..(j - 1) : S[i] = K[n]
  BY DEF StartedAfter
<1>2. PICK i \in 1..(j - 1) : S[i] = K[n]
  BY <1>1
<1> DEFINE l == Len(S)
<1>l. l \in 1..8 /\ \A k \in 1..l : S[k] = K[9 - k]
  BY StartsAreReversedKills
<1> HIDE DEF l
<1>3. i \in 1..8 /\ j \in 1..8 /\ i < j /\ i \in 1..l /\ j \in 1..l
  <2>1. j \in 1..l
    BY DEF l
  <2> QED
    BY <1>l, <2>1
<1>4. S[i] = K[9 - i] /\ S[j] = K[9 - j]
  BY <1>l, <1>3
<1>5. \A a, b \in 1..8 : K[a] = K[b] => a = b
  BY DEF Kills
<1> HIDE DEF K, S
<1>6. n = 9 - i
  <2>1. 9 - i \in 1..8 /\ K[n] = K[9 - i]
    BY <1>2, <1>3, <1>4
  <2> QED
    BY <1>5, <2>1
<1> QED
  BY <1>1, <1>3, <1>4, <1>6 DEF K
-----------------------------------------------------------------------------
(* The lists and the phases.                                                *)

\* The last positions of the two lists of a scope, in numbers.
LastStart == IF scope = "inner" THEN 4 ELSE IF mode = "graphics" THEN 8 ELSE 6
LastKill == IF scope = "inner" THEN 4 ELSE 8

Listing == {"setup", "start", "assign", "wait", "kill", "sigkill"}

\* The position is one of the current list, or the one after it; only the waits
\* and the measurement happen in either function.
InList ==
    /\ scope \in Scopes
    /\ pc \in {"setup", "ports", "delns", "dellink", "return", "exited"} => scope = "outer"
    /\ pc = "setup" => step \in 1..5
    /\ pc \in {"start", "assign", "wait"} => step \in 1..LastStart
    /\ pc = "kill" => step \in 1..(LastKill + 1)
    /\ pc = "sigkill" => step \in 1..LastKill
    /\ pc \notin Listing => step = 1

LEMMA LastPositions ==
    ASSUME scope \in Scopes
    PROVE  Len(Starts(scope)) = LastStart /\ Len(Kills(scope)) = LastKill
<1>1. CASE scope = "inner"
  BY <1>1 DEF Starts, Kills, LastStart, LastKill
<1>2. CASE scope = "outer"
  BY <1>2, StartsAreReversedKills DEF Kills, LastStart, LastKill
<1> QED
  BY <1>1, <1>2 DEF Scopes

LEMMA InListInductive == InList /\ [Next]_vars => InList'
<1> SUFFICES ASSUME InList, [Next]_vars PROVE InList'
  OBVIOUS
<1>l. Len(Starts(scope)) = LastStart /\ Len(Kills(scope)) = LastKill
  BY LastPositions DEF InList
<1> USE <1>l DEF InList, LastStart, LastKill, Listing, Scopes, Goto, Raise, flowVars, envVars
<1>1. CASE RunSetupCommand \/ SetupFails \/ SetupFinishes \/ CheckPorts
  <2>1. Len(SetupCommands) = 4
    BY DEF SetupCommands
  <2> QED
    BY <1>1, <2>1 DEF RunSetupCommand, SetupFails, SetupFinishes, CheckPorts, SetupDone
<1>2. CASE Popen \/ Assign \/ NotReady
  BY <1>2 DEF Popen, Assign, NotReady
<1>3. CASE Ready
  BY <1>3 DEF Ready
<1>4. CASE Measure
  BY <1>4 DEF Measure
<1>5. CASE SkipKill \/ Terminate
  BY <1>5 DEF SkipKill, Terminate, KillsDone
<1>6. CASE Kill
  BY <1>6 DEF Kill, LeaveFinally, LeaveScope
<1>7. CASE EndInner \/ EndOuter
  BY <1>7 DEF EndInner, EndOuter, LeaveScope
<1>8. CASE CleanupNamespace \/ CleanupLink \/ NextCase \/ Exit
  BY <1>8 DEF CleanupNamespace, CleanupLink, NextCase, Exit
<1>9. CASE Interrupt
  BY <1>9 DEF Interrupt, LeaveFinally, LeaveScope
<1>10. CASE Die \/ ExpireTicket \/ UNCHANGED vars
  BY <1>10 DEF Die, ExpireTicket, vars
<1> QED
  BY <1>1, <1>2, <1>3, <1>4, <1>5, <1>6, <1>7, <1>8, <1>9, <1>10 DEF Next, Benchmark
-----------------------------------------------------------------------------
(* Types and the count of the measured cases.                               *)

Before == {"setup", "ports", "start", "assign", "wait", "measure"}

\* A case without an exception has been measured when it is cleaned up.
Counted ==
    /\ case \in 1..Cases
    /\ exc \in {"none", "error", "interrupt", "uncaught"}
    /\ measured \in {case - 1, case}
    /\ pc \in Before => exc = "none" /\ measured = case - 1
    /\ pc \notin Before /\ exc = "none" => measured = case
    /\ exc = "none" => interrupts = 0
    /\ pc # "exited" => code = "none"
    /\ code = "0" => exc = "none" /\ case = Cases

LEMMA CountedInductive == Counted /\ [Next]_vars => Counted'
<1> SUFFICES ASSUME Counted, [Next]_vars PROVE Counted'
  OBVIOUS
<1> USE BoundsAreNat, InterruptsHitACase DEF Counted, Before, Goto, Raise, flowVars, envVars
<1>1. CASE RunSetupCommand \/ SetupFails \/ SetupFinishes \/ CheckPorts
  BY <1>1 DEF RunSetupCommand, SetupFails, SetupFinishes, CheckPorts
<1>2. CASE Popen \/ Assign \/ NotReady
  BY <1>2 DEF Popen, Assign, NotReady
<1>3. CASE Ready
  BY <1>3 DEF Ready
<1>4. CASE Measure
  BY <1>4 DEF Measure
<1>5. CASE SkipKill \/ Terminate
  BY <1>5 DEF SkipKill, Terminate
<1>6. CASE Kill
  BY <1>6 DEF Kill, LeaveFinally
<1>7. CASE EndInner \/ EndOuter
  BY <1>7 DEF EndInner, EndOuter
<1>8. CASE CleanupNamespace \/ CleanupLink
  BY <1>8 DEF CleanupNamespace, CleanupLink
<1>9. CASE NextCase
  BY <1>9 DEF NextCase
<1>10. CASE Exit
  <2>1. exc = "none" => code' = "0" /\ case = Cases
    BY <1>10 DEF Exit
  <2>2. exc # "none" => code' # "0"
    <3>1. CASE exc = "error"
      BY <1>10, <3>1 DEF Exit
    <3>2. CASE exc = "interrupt"
      BY <1>10, <3>2 DEF Exit
    <3>3. CASE exc = "uncaught"
      BY <1>10, <3>3 DEF Exit
    <3> QED
      BY <3>1, <3>2, <3>3
  <2> QED
    BY <1>10, <2>1, <2>2 DEF Exit
<1>11. CASE Interrupt
  BY <1>11 DEF Interrupt, LeaveFinally
<1>12. CASE Die \/ ExpireTicket \/ UNCHANGED vars
  BY <1>12 DEF Die, ExpireTicket, vars
<1> QED
  BY <1>1, <1>2, <1>3, <1>4, <1>5, <1>6, <1>7, <1>8, <1>9, <1>10, <1>11, <1>12
     DEF Next, Benchmark

LEMMA CountsAreNaturals ==
    ASSUME NEW c \in 1..Cases
    PROVE  c \in 0..Cases /\ c - 1 \in 0..Cases
BY BoundsAreNat

Ordered == InList /\ Counted /\ TypeOK

LEMMA OrderedInductive == Ordered /\ [Next]_vars => Ordered'
<1> SUFFICES ASSUME Ordered, [Next]_vars PROVE Ordered'
  OBVIOUS
<1>1. InList' /\ Counted'
  BY InListInductive, CountedInductive DEF Ordered
<1>2. /\ step' \in 1..9 /\ scope' \in {"outer", "inner"}
      /\ case' \in 1..Cases /\ measured' \in 0..Cases
  <2>1. step' \in 1..9 /\ scope' \in {"outer", "inner"}
    BY <1>1 DEF InList, LastStart, LastKill, Listing, Scopes
  <2>2. case' \in 1..Cases /\ measured' \in {case' - 1, case'}
    BY <1>1 DEF Counted
  <2>3. measured' \in 0..Cases
    BY <2>2, CountsAreNaturals
  <2> QED
    BY <2>1, <2>2, <2>3
<1>3. pc \in {"start", "assign"} => Helper \in Helpers
  <2>1. step \in 1..Len(Starts(scope)) /\ scope \in Scopes
        => Starts(scope)[step] \in Listed(scope) /\ scope \in Scopes
    BY StartsAreListed
  <2> QED
    BY <2>1, LastPositions, HelpersAreListed DEF Ordered, InList, Helper, Scopes
<1>4. /\ alive' \subseteq Helpers /\ assigned' \subseteq Helpers
  BY <1>3 DEF Ordered, TypeOK, Next, Benchmark, vars, RunSetupCommand, SetupFails, SetupFinishes,
     CheckPorts, Popen, Assign, Ready, NotReady, Measure, SkipKill, Terminate, Kill, LeaveFinally,
     LeaveScope, EndInner, EndOuter, CleanupNamespace, CleanupLink, NextCase, Exit, Interrupt, Die,
     ExpireTicket
<1>5. /\ netns' \in BOOLEAN /\ veth' \in {"none", "host", "moved"}
  BY DEF Ordered, TypeOK, Next, Benchmark, vars, netVars,
     RunSetupCommand, SetupFails, SetupFinishes, CheckPorts, Popen, Assign, Ready, NotReady,
     Measure, SkipKill, Terminate, Kill, EndInner, EndOuter, CleanupNamespace,
     DeleteNamespace, CleanupLink, DeleteLink, NextCase, Exit, Interrupt, Die, ExpireTicket
<1>7. /\ mode' \in Modes /\ ticket' \in BOOLEAN
      /\ interrupts' \in 0..MaxInterrupts /\ deaths' \in 0..MaxDeaths
  <2>1. \/ mode' = mode /\ ticket' = ticket /\ interrupts' = interrupts /\ deaths' = deaths
        \/ Interrupt \/ Die \/ ExpireTicket
    BY DEF Next, Benchmark, vars, envVars,
       RunSetupCommand, SetupFails, SetupFinishes, CheckPorts, Popen, Assign, Ready, NotReady,
       Measure, SkipKill, Terminate, Kill, EndInner, EndOuter, CleanupNamespace, CleanupLink,
       NextCase, Exit
  <2>2. mode' \in Modes /\ ticket' \in BOOLEAN
    BY <2>1 DEF Ordered, TypeOK, Interrupt, Die, ExpireTicket
  <2>3. interrupts' \in 0..MaxInterrupts
    BY <2>1, BoundsAreNat DEF Ordered, TypeOK, Interrupt, Die, ExpireTicket
  <2>4. deaths' \in 0..MaxDeaths
    BY <2>1, BoundsAreNat DEF Ordered, TypeOK, Interrupt, Die, ExpireTicket
  <2> QED
    BY <2>2, <2>3, <2>4
<1>8. disturbed' \in BOOLEAN
  BY DEF Ordered, TypeOK, Next, Benchmark, vars,
     RunSetupCommand, SetupFails, SetupFinishes, CheckPorts, Popen, Assign, Ready, NotReady,
     Measure, SkipKill, Terminate, Kill, LeaveFinally, EndInner, EndOuter, CleanupNamespace,
     CleanupLink, NextCase, Exit, Interrupt, Die, ExpireTicket
<1>6. /\ pc' \in {"setup", "ports", "start", "assign", "wait", "measure", "kill",
                  "sigkill", "delns", "dellink", "return", "exited"}
      /\ exc' \in {"none", "error", "interrupt", "uncaught"}
      /\ code' \in {"none", "0", "2", "130", "traceback"}
  BY DEF Ordered, TypeOK, Goto, Raise, Next, Benchmark, vars, flowVars, envVars, netVars,
     RunSetupCommand, SetupFails, SetupFinishes, CheckPorts, Popen, Assign, Ready, NotReady,
     Measure, SkipKill, Terminate, Kill, LeaveFinally, EndInner, EndOuter, CleanupNamespace,
     CleanupLink, NextCase, Exit, Interrupt, Die, ExpireTicket
<1> QED
  BY <1>1, <1>2, <1>4, <1>5, <1>6, <1>7, <1>8 DEF Ordered, TypeOK

LEMMA OrderedInitial == Init => Ordered
<1> SUFFICES ASSUME Init PROVE Ordered
  OBVIOUS
<1>1. InList
  BY DEF Init, InList, Listing, Scopes
<1>2. Counted
  BY BoundsAreNat DEF Init, Counted, Before
<1>3. TypeOK
  <2>1. interrupts \in 0..MaxInterrupts /\ deaths \in 0..MaxDeaths /\ measured \in 0..Cases
    BY BoundsAreNat DEF Init
  <2>2. case \in 1..Cases /\ step \in 1..9
    BY BoundsAreNat DEF Init
  <2> QED
    BY <2>1, <2>2 DEF Init, TypeOK
<1> QED
  BY <1>1, <1>2, <1>3 DEF Ordered

LEMMA OrderedAlways == Spec => []Ordered
BY OrderedInitial, OrderedInductive, PTL DEF Spec

\* The types, and positions inside the lists of helpers, for every number of
\* cases and faults.
THEOREM TypeCorrect == Spec => []TypeOK
<1>1. Ordered => TypeOK
  BY DEF Ordered
<1> QED
  BY <1>1, OrderedAlways, PTL

\* Whatever fails or interrupts, status 0 of main() means that every case was
\* measured and none interrupted.
THEOREM SuccessCorrect == Spec => []SuccessMeansMeasured
<1>1. Ordered => SuccessMeansMeasured
  BY DEF Ordered, Counted, Before, SuccessMeansMeasured
<1> QED
  BY <1>1, OrderedAlways, PTL
-----------------------------------------------------------------------------
(* The order of the cleanup.                                                *)

\* What a finally block has passed is dead or was never this function's, also
\* when earlier exceptions cut other finally blocks short.
KilledSoFar ==
    /\ pc \in {"kill", "sigkill"}
        => \A i \in 1..(step - 1) : Kills(scope)[i] \notin assigned \cap alive
    /\ pc \in {"delns", "dellink"} => Listed("outer") \cap assigned \cap alive = {}
    /\ pc = "setup" => assigned = {}

\* The end of run_case()'s list.
LEMMA AllKilled ==
    ASSUME InList, KilledSoFar, pc = "kill", KillsDone
    PROVE  Listed(scope) \cap assigned \cap alive = {}
<1>1. step - 1 = LastKill /\ Len(Kills(scope)) = LastKill
  <2>1. Len(Kills(scope)) = LastKill /\ LastKill \in {4, 8}
    BY LastPositions DEF InList, LastKill
  <2>2. step \in 1..(LastKill + 1) /\ step > LastKill
    BY <2>1 DEF InList, KillsDone
  <2> QED
    BY <2>1, <2>2
<1>2. Listed(scope) = {Kills(scope)[i] : i \in 1..LastKill}
  BY <1>1, KillsAreListed DEF InList
<1> QED
  BY <1>1, <1>2 DEF KilledSoFar

LEMMA KilledSoFarInductive == InList /\ KilledSoFar /\ [Next]_vars => KilledSoFar'
<1> SUFFICES ASSUME InList, KilledSoFar, [Next]_vars PROVE KilledSoFar'
  OBVIOUS
<1> USE DEF KilledSoFar, Goto, Raise, flowVars, envVars
<1>1. CASE RunSetupCommand \/ SetupFails \/ SetupFinishes \/ CheckPorts
  BY <1>1 DEF RunSetupCommand, SetupFails, SetupFinishes, CheckPorts
<1>2. CASE Popen \/ Assign \/ Ready \/ NotReady \/ Measure
  BY <1>2 DEF Popen, Assign, Ready, NotReady, Measure
<1>3. CASE SkipKill
  BY <1>3 DEF SkipKill, Victim, KillsDone, InList
<1>4. CASE Terminate
  BY <1>4 DEF Terminate, Victim, KillsDone, InList
<1>5. CASE Kill
  BY <1>5 DEF Kill, Victim, LeaveFinally, LeaveScope, InList
<1>6. CASE EndInner
  BY <1>6 DEF EndInner
<1>7. CASE EndOuter
  BY <1>7, AllKilled DEF EndOuter
<1>8. CASE CleanupNamespace \/ CleanupLink \/ NextCase \/ Exit
  BY <1>8 DEF CleanupNamespace, CleanupLink, NextCase, Exit
<1>9. CASE Interrupt
  BY <1>9 DEF Interrupt, LeaveFinally, LeaveScope
<1>10. CASE Die \/ ExpireTicket \/ UNCHANGED vars
  BY <1>10 DEF Die, ExpireTicket, vars
<1> QED
  BY <1>1, <1>2, <1>3, <1>4, <1>5, <1>6, <1>7, <1>8, <1>9, <1>10 DEF Next, Benchmark

CleanupOrder == Ordered /\ KilledSoFar

LEMMA CleanupOrderAlways == Spec => []CleanupOrder
<1>1. Init => CleanupOrder
  BY OrderedInitial DEF Init, CleanupOrder, KilledSoFar
<1>2. CleanupOrder /\ [Next]_vars => CleanupOrder'
  BY OrderedInductive, KilledSoFarInductive DEF CleanupOrder, Ordered
<1> QED
  BY <1>1, <1>2, PTL DEF Spec

\* SyntheticNetwork.cleanup() and setup()'s own cleanup never take the namespace
\* from a client that run_case() still holds.
THEOREM NamespaceOutlivesClient == Spec => ClientDiesBeforeItsNetwork
<1>1. ASSUME CleanupOrder, [Next]_vars, netns, ~ netns'
      PROVE  "client" \notin assigned \cap alive
  <2>1. CASE SetupFails
    BY <1>1, <2>1 DEF SetupFails, CleanupOrder, KilledSoFar
  <2>2. CASE CleanupNamespace
    BY <1>1, <2>2 DEF CleanupNamespace, CleanupOrder, KilledSoFar, Listed
  <2>3. SetupFails \/ CleanupNamespace
    BY <1>1 DEF Next, Benchmark, vars, netVars, RunSetupCommand, SetupFinishes, CheckPorts,
       Popen, Assign, Ready, NotReady, Measure, SkipKill, Terminate, Kill, EndInner, EndOuter,
       CleanupLink, NextCase, Exit, Interrupt, Die, ExpireTicket
  <2> QED
    BY <2>1, <2>2, <2>3
<1>2. CleanupOrder /\ [Next]_vars => [(netns /\ ~ netns') => "client" \notin assigned \cap alive]_vars
  BY <1>1
<1> QED
  BY <1>2, CleanupOrderAlways, PTL DEF Spec, ClientDiesBeforeItsNetwork

\* run_case()'s finally block takes no server away from a helper it started
\* later and still holds.
THEOREM ClientsDieFirst == Spec => ServersOutliveClients
<1> DEFINE Step == pc \in {"kill", "sigkill"} /\ scope = "outer" /\ alive' # alive /\ deaths' = deaths
<1>1. ASSUME CleanupOrder, [Next]_vars, Step
      PROVE  StartedAfter(Victim) \cap assigned \cap alive = {}
  <2>1. Terminate \/ Kill
    <3>1. ~ Die
      BY <1>1, BoundsAreNat DEF Die, CleanupOrder, Ordered, TypeOK
    <3> QED
      BY <1>1, <3>1 DEF Next, Benchmark, vars, flowVars, netVars, RunSetupCommand, SetupFails,
         SetupFinishes, CheckPorts, Popen, Assign, Ready, NotReady, Measure, SkipKill, EndInner, EndOuter,
       CleanupNamespace, CleanupLink, NextCase, Exit, Interrupt, ExpireTicket
  <2>2. step \in 1..8 /\ Victim = Kills("outer")[step]
    <3>1. Len(Kills(scope)) = 8 /\ LastKill = 8 /\ scope = "outer"
      BY <1>1, LastPositions DEF CleanupOrder, Ordered, InList, LastKill
    <3>2. step \in 1..8
      <4>1. step \in 1..9
        BY <1>1 DEF CleanupOrder, Ordered, TypeOK
      <4>2. CASE Terminate
        BY <3>1, <4>1, <4>2 DEF Terminate, KillsDone
      <4>3. CASE Kill
        BY <1>1, <3>1, <4>3 DEF CleanupOrder, Ordered, InList, Kill
      <4> QED
        BY <2>1, <4>2, <4>3
    <3> QED
      BY <3>1, <3>2 DEF Victim
  <2>3. ASSUME NEW h \in StartedAfter(Victim) PROVE h \notin assigned \cap alive
    <3>1. PICK i \in 1..(step - 1) : Kills("outer")[i] = h
      BY <2>2, <2>3, LaterHelpersAreKilledEarlier
    <3> QED
      BY <1>1, <3>1 DEF CleanupOrder, KilledSoFar
  <2> QED
    BY <2>3
<1>2. CleanupOrder /\ [Next]_vars => [Step => StartedAfter(Victim) \cap assigned \cap alive = {}]_vars
  BY <1>1
<1> QED
  BY <1>2, CleanupOrderAlways, PTL DEF Spec, ServersOutliveClients
-----------------------------------------------------------------------------
(* What a case leaves behind.                                               *)

\* While nothing was cut short, every helper is held by the function that runs,
\* or about to be, and run_input_roundtrip()'s are gone when it is left.
Held ==
    ~ disturbed =>
        /\ alive \subseteq IF pc = "assign" THEN assigned \cup {Helper} ELSE assigned
        /\ scope = "outer" => alive \subseteq Listed("outer")
        /\ pc \in {"delns", "dellink", "return", "exited"} => alive = {}

\* With a valid ticket, too, the network is gone where its commands have run.
Unlinked ==
    ticket /\ ~ disturbed =>
        /\ ~ Namespace \/ (pc = "setup" /\ step = 1) \/ pc \in {"return", "exited"}
               => ~ netns /\ veth = "none"
        /\ pc = "dellink" => ~ netns

LEMMA HeldInductive == CleanupOrder /\ Held /\ [Next]_vars => Held'
<1> SUFFICES ASSUME CleanupOrder, Held, [Next]_vars PROVE Held'
  OBVIOUS
<1>s. scope \in Scopes
  BY DEF CleanupOrder, Ordered, InList
<1>h. pc \in {"start", "assign"} => Helper \in Listed(scope)
  <2>1. step \in 1..Len(Starts(scope)) /\ scope \in Scopes => Starts(scope)[step] \in Listed(scope)
    BY StartsAreListed
  <2> QED
    BY <2>1, LastPositions DEF CleanupOrder, Ordered, InList, Helper
<1>m. mode' = mode /\ scope' = scope /\ step' = step => Helper' = Helper
  BY DEF Helper, Starts
<1> USE <1>s DEF Held, Goto, Raise, flowVars, envVars, Scopes
<1>1. CASE RunSetupCommand \/ SetupFails \/ SetupFinishes \/ CheckPorts
  BY <1>1 DEF RunSetupCommand, SetupFails, SetupFinishes, CheckPorts
<1>2. CASE Popen
  BY <1>2, <1>h, <1>m DEF Popen
<1>3. CASE Assign \/ Ready \/ NotReady \/ Measure
  BY <1>3 DEF Assign, Ready, NotReady, Measure
<1>4. CASE SkipKill \/ Terminate
  BY <1>4 DEF SkipKill, Terminate
<1>5. CASE Kill
  BY <1>5 DEF Kill, LeaveFinally
<1>6. CASE EndInner
  <2>1. scope = "inner" /\ Listed("inner") \cap assigned \cap alive = {}
    BY <1>6, AllKilled DEF EndInner, CleanupOrder, Ordered
  <2>2. assigned' = assigned \ Listed("inner")
    BY <1>6, <2>1, InnerHelpers DEF EndInner, LeaveScope
  <2>3. alive \subseteq Listed("outer") \cup Listed("inner")
    BY HelpersAreListed DEF CleanupOrder, Ordered, TypeOK
  <2> QED
    BY <1>6, <2>1, <2>2, <2>3 DEF EndInner, LeaveScope
<1>7. CASE EndOuter
  <2>1. scope = "outer" /\ Listed("outer") \cap assigned \cap alive = {}
    BY <1>7, AllKilled DEF EndOuter, CleanupOrder, Ordered
  <2>2. ~ disturbed => alive = {}
    BY <1>7, <2>1 DEF EndOuter
  <2> QED
    BY <1>7, <2>1, <2>2 DEF EndOuter
<1>8. CASE CleanupNamespace \/ CleanupLink \/ NextCase \/ Exit
  BY <1>8 DEF CleanupNamespace, CleanupLink, NextCase, Exit
<1>9. CASE Interrupt
  <2>1. CASE pc \in {"kill", "sigkill", "delns", "dellink"}
    BY <1>9, <2>1 DEF Interrupt, LeaveFinally
  <2>2. CASE pc \notin {"kill", "sigkill", "delns", "dellink"}
    BY <1>9, <2>2, InterruptsHitACase DEF Interrupt, CleanupOrder, Ordered, InList
  <2> QED
    BY <2>1, <2>2
<1>10. CASE Die \/ ExpireTicket \/ UNCHANGED vars
  BY <1>10, <1>m DEF Die, ExpireTicket, vars
<1> QED
  BY <1>1, <1>2, <1>3, <1>4, <1>5, <1>6, <1>7, <1>8, <1>9, <1>10 DEF Next, Benchmark

LEMMA UnlinkedInductive == CleanupOrder /\ Held /\ Unlinked /\ [Next]_vars => Unlinked'
<1> SUFFICES ASSUME CleanupOrder, Held, Unlinked, [Next]_vars PROVE Unlinked'
  OBVIOUS
<1> USE DEF Unlinked, Goto, Raise, flowVars, envVars, netVars
<1>1. CASE RunSetupCommand
  <2>1. step \in 1..5
    BY <1>1 DEF RunSetupCommand, CleanupOrder, Ordered, InList
  <2> QED
    BY <1>1, <2>1 DEF RunSetupCommand, SetupDone
<1>2. CASE SetupFails \/ SetupFinishes \/ CheckPorts
  BY <1>2 DEF SetupFails, SetupFinishes, CheckPorts
<1>3. CASE Popen \/ Assign \/ Ready \/ NotReady \/ Measure
  BY <1>3 DEF Popen, Assign, Ready, NotReady, Measure
<1>4. CASE SkipKill \/ Terminate
  BY <1>4 DEF SkipKill, Terminate
<1>5. CASE Kill
  BY <1>5 DEF Kill, LeaveFinally
<1>6. CASE EndInner \/ EndOuter
  BY <1>6 DEF EndInner, EndOuter
<1>7. CASE CleanupNamespace
  BY <1>7 DEF CleanupNamespace, DeleteNamespace
<1>8. CASE CleanupLink
  BY <1>8 DEF CleanupLink, DeleteLink
<1>9. CASE NextCase \/ Exit
  BY <1>9 DEF NextCase, Exit
<1>10. CASE Interrupt
  BY <1>10, InterruptsHitACase DEF Interrupt, LeaveFinally
<1>11. CASE Die \/ ExpireTicket \/ UNCHANGED vars
  BY <1>11 DEF Die, ExpireTicket, vars
<1> QED
  BY <1>1, <1>2, <1>3, <1>4, <1>5, <1>6, <1>7, <1>8, <1>9, <1>10, <1>11 DEF Next, Benchmark

\* Unless a finally block was cut short, an interrupt lost a helper's object or
\* the ticket expired, no process and no network outlives a case, for any number
\* of cases, failures, deaths and interrupts.
THEOREM CasesCleanUp == Spec => []NothingLeftBehind
<1>1. Init => Held /\ Unlinked
  BY DEF Init, Held, Unlinked
<1>2. Held /\ Unlinked /\ CleanupOrder /\ [Next]_vars => (Held /\ Unlinked)'
  BY HeldInductive, UnlinkedInductive
<1>3. CleanupOrder /\ Held /\ Unlinked => NothingLeftBehind
  BY DEF CleanupOrder, Ordered, InList, KilledSoFar, Held, Unlinked, NothingLeftBehind, Clean
<1> QED
  BY <1>1, <1>2, <1>3, CleanupOrderAlways, PTL DEF Spec
=============================================================================
