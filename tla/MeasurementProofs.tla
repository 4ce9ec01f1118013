------------------------- MODULE MeasurementProofs -------------------------
(***************************************************************************)
(* Proofs about Measurement for any number of samples and polls: types, the *)
(* account of the samples, what is outstanding, how far the pipes are out   *)
(* of step, and that the pixels which end a measurement are those of its    *)
(* marker until an event is missed.                                         *)
(***************************************************************************)
EXTENDS Measurement, TLAPS

LEMMA TailFacts ==
    ASSUME NEW S, NEW s \in Seq(S), s # <<>>
    PROVE  /\ Head(s) \in S /\ Head(s) = s[1]
           /\ Tail(s) \in Seq(S) /\ Len(Tail(s)) = Len(s) - 1 /\ Len(s) >= 1
           /\ \A i \in 1..(Len(s) - 1) : Tail(s)[i] = s[i + 1]
OBVIOUS

LEMMA AppendFacts ==
    ASSUME NEW S, NEW s \in Seq(S), NEW e \in S
    PROVE  /\ Append(s, e) \in Seq(S) /\ Len(Append(s, e)) = Len(s) + 1
           /\ \A i \in 1..Len(s) : Append(s, e)[i] = s[i]
           /\ Append(s, e)[Len(s) + 1] = e
OBVIOUS
-----------------------------------------------------------------------------
(* Types.                                                                   *)

Asking == {"ask", "line"}
Running == {"pulse", "t0", "t1", "ask", "line"}

Places ==
    /\ mode \in Modes
    /\ pc \in Running \cup {"done", "failed"}
    /\ pulse \in 0..(Samples + 1)
    /\ pc \in Running => pulse \in 0..Samples
    /\ pc = "done" => pulse = Samples + 1

LEMMA PlacesInductive == Places /\ [Next]_vars => Places'
<1> SUFFICES ASSUME Places, [Next]_vars PROVE Places'
  OBVIOUS
<1>1. CASE pulse' = pulse /\ mode' = mode /\ pc' \in Running \cup {"failed"} /\ pc \in Running
  BY <1>1 DEF Places, Running
<1>2. CASE pc \in Running /\ NextPulse
  BY <1>2, SamplesAreNat DEF Places, NextPulse, Running
<1>3. CASE UNCHANGED <<mode, pc, pulse>>
  BY <1>3 DEF Places
<1>4. \/ pulse' = pulse /\ mode' = mode /\ pc' \in Running \cup {"failed"} /\ pc \in Running
      \/ pc \in Running /\ NextPulse
      \/ UNCHANGED <<mode, pc, pulse>>
  BY DEF Next, Helper, Inject, Draw, DrawFrame, ProbeStep, LoseKey, vars, driverVars, Driver,
     WriteFails, WritePulse, ReadT0, T0TimesOut, ReadT1, T1TimesOut, AskSample, LineTimesOut,
     LineDiffers, LineMatches, ReturnTimesOut, Miss, Fail, Running
<1> QED
  BY <1>1, <1>2, <1>3, <1>4

\* What the helpers keep in pipes and queues.
Queues ==
    /\ drawn \in Nat /\ commands \in Nat /\ injected \in Nat
    /\ injectorOut \in Seq(Nat) /\ keys \in Seq(Nat) /\ keyOut \in Seq(Mark)

LEMMA QueuesInductive == Queues /\ [Next]_vars => Queues'
<1> SUFFICES ASSUME Queues, [Next]_vars PROVE Queues'
  OBVIOUS
<1> USE DEF Queues
<1>1. CASE Inject
  BY <1>1, AppendFacts DEF Inject, probeVars
<1>2. CASE Draw \/ DrawFrame
  <2>1. CASE Draw
    <3>1. Head(keys) \in Nat /\ Tail(keys) \in Seq(Nat)
      BY <2>1 DEF Draw
    <3>2. [key |-> Head(keys), draw |-> drawn + 1] \in Mark
      BY <3>1 DEF Mark
    <3> QED
      BY <2>1, <3>1, <3>2, AppendFacts DEF Draw, injectorVars
  <2>2. CASE DrawFrame
    <3>1. [key |-> injected, draw |-> drawn + 1] \in Mark
      BY DEF Mark
    <3> QED
      BY <2>2, <3>1, AppendFacts DEF DrawFrame
  <2> QED
    BY <1>2, <2>1, <2>2
<1>3. CASE LoseKey
  BY <1>3, TailFacts DEF LoseKey, probeVars, injectorVars
<1>4. CASE WritePulse
  BY <1>4 DEF WritePulse, probeVars, keyVars
<1>5. CASE ReadT0
  BY <1>5, TailFacts DEF ReadT0, probeVars, keyVars
<1>6. CASE ReadT1
  BY <1>6, TailFacts DEF ReadT1, injectorVars
<1>7. CASE UNCHANGED <<drawn, commands, injected, injectorOut, keys, keyOut>>
  BY <1>7
<1>8. \/ Inject \/ Draw \/ DrawFrame \/ LoseKey \/ WritePulse \/ ReadT0 \/ ReadT1
      \/ UNCHANGED <<drawn, commands, injected, injectorOut, keys, keyOut>>
  BY DEF Next, Helper, ProbeStep, Present, Answer, vars, probeVars, keyVars, injectorVars, Driver,
     WriteFails, T0TimesOut, T1TimesOut, AskSample, Ask, LineTimesOut, LineDiffers, TakeLine,
     LineMatches, ReturnTimesOut, Miss
<1> QED
  BY <1>1, <1>2, <1>3, <1>4, <1>5, <1>6, <1>7, <1>8

\* The client's output and the probe's lines.
Pixels ==
    /\ shown \in Int /\ requests \in Nat /\ lines \in Seq(Line) /\ polls \in 0..MaxPolls

LEMMA PixelsInductive == Queues /\ Pixels /\ [Next]_vars => Pixels'
<1> SUFFICES ASSUME Queues, Pixels, [Next]_vars PROVE Pixels'
  OBVIOUS
<1> USE DEF Pixels
<1>1. CASE Present
  BY <1>1 DEF Present, Queues
<1>2. CASE Answer
  <2>1. PICK image \in BOOLEAN : lines' = Append(lines, [image |-> image, shown |-> shown, stamp |-> drawn])
    BY <1>2 DEF Answer
  <2>2. [image |-> image, shown |-> shown, stamp |-> drawn] \in Line
    BY DEF Line, Queues
  <2>3. lines' \in Seq(Line)
    BY <2>1, <2>2
  <2>4. shown' \in Int /\ requests' \in Nat /\ polls' \in 0..MaxPolls
    BY <1>2 DEF Answer
  <2> QED
    BY <2>3, <2>4
<1>3. CASE Ask
  BY <1>3, PollsArePositive DEF Ask
<1>4. CASE LineDiffers \/ LineMatches
  BY <1>4, TailFacts DEF LineDiffers, LineMatches, TakeLine
<1>5. CASE ReadT1
  BY <1>5, PollsArePositive DEF ReadT1
<1>6. CASE UNCHANGED <<shown, requests, lines, polls>>
  BY <1>6
<1>7. \/ Present \/ Answer \/ Ask \/ LineDiffers \/ LineMatches \/ ReadT1
      \/ UNCHANGED <<shown, requests, lines, polls>>
  BY DEF Next, Helper, Inject, Draw, DrawFrame, ProbeStep, LoseKey, vars, probeVars, Driver,
     WriteFails, WritePulse, ReadT0, T0TimesOut, T1TimesOut, AskSample, LineTimesOut,
     ReturnTimesOut, Miss
<1> QED
  BY <1>1, <1>2, <1>3, <1>4, <1>5, <1>6, <1>7

\* What the driver has read and counted.
Tallies ==
    /\ t0 \in Nat /\ marker \in Mark
    /\ deliveryMisses \in Nat /\ returnMisses \in Nat /\ deliveries \in Nat /\ returns \in Nat

LEMMA TalliesInductive == Queues /\ Tallies /\ [Next]_vars => Tallies'
<1> SUFFICES ASSUME Queues, Tallies, [Next]_vars PROVE Tallies'
  OBVIOUS
<1> USE DEF Tallies
<1>1. CASE ReadT0
  BY <1>1, TailFacts DEF ReadT0, keyVars, resultVars, Queues
<1>2. CASE ReadT1
  BY <1>2, TailFacts DEF ReadT1, Queues
<1>3. CASE Miss /\ (pc = "t0" \/ pc = "t1")
  BY <1>3 DEF Miss, Fail, NextPulse
<1>4. CASE LineMatches
  BY <1>4 DEF LineMatches, NextPulse
<1>5. CASE ReturnTimesOut
  BY <1>5 DEF ReturnTimesOut, Fail, NextPulse
<1>6. CASE UNCHANGED <<t0, marker, deliveryMisses, returnMisses, deliveries, returns>>
  BY <1>6
<1>7. \/ ReadT0 \/ ReadT1 \/ (Miss /\ (pc = "t0" \/ pc = "t1")) \/ LineMatches \/ ReturnTimesOut
      \/ UNCHANGED <<t0, marker, deliveryMisses, returnMisses, deliveries, returns>>
  BY DEF Next, Helper, Inject, Draw, DrawFrame, ProbeStep, LoseKey, vars, driverVars, resultVars,
     Driver, WriteFails, Fail, WritePulse, T0TimesOut, T1TimesOut, AskSample, LineTimesOut, LineDiffers
<1> QED
  BY <1>1, <1>2, <1>3, <1>4, <1>5, <1>6, <1>7

Recorded ==
    /\ paired \in [t0 : Nat, key : Nat]
    /\ returned \in [draw : Nat, shown : Int, stamp : Nat]

LEMMA RecordedInductive ==
    Places /\ Queues /\ Pixels /\ Tallies /\ Recorded /\ [Next]_vars => Recorded'
<1> SUFFICES ASSUME Places, Queues, Pixels, Tallies, Recorded, [Next]_vars PROVE Recorded'
  OBVIOUS
<1>1. CASE ReadT1
  <2>1. Head(keyOut).key \in Nat
    <3>1. Head(keyOut) \in Mark
      BY <1>1, TailFacts DEF ReadT1, Queues
    <3> QED
      BY <3>1 DEF Mark
  <2>2. pulse \in Nat /\ t0 \in Nat
    BY SamplesAreNat DEF Places, Tallies
  <2>3. paired' = paired \/ \E n \in Nat : paired' = [t0 |-> n, key |-> Head(keyOut).key]
    BY <1>1, <2>2 DEF ReadT1
  <2>4. returned' = returned
    BY <1>1 DEF ReadT1
  <2> QED
    BY <2>1, <2>3, <2>4 DEF Recorded
<1>2. CASE LineMatches
  <2>1. Head(lines) \in Line /\ marker \in Mark
    BY <1>2 DEF LineMatches, Pixels, Tallies
  <2>2. returned' = returned
        \/ returned' = [draw |-> marker.draw, shown |-> Head(lines).shown, stamp |-> Head(lines).stamp]
    BY <1>2 DEF LineMatches
  <2>3. paired' = paired
    BY <1>2 DEF LineMatches
  <2> QED
    BY <2>1, <2>2, <2>3 DEF Recorded, Line, Mark
<1>3. CASE UNCHANGED <<paired, returned>>
  BY <1>3 DEF Recorded
<1>4. ReadT1 \/ LineMatches \/ UNCHANGED <<paired, returned>>
  BY DEF Next, Helper, Inject, Draw, DrawFrame, ProbeStep, LoseKey, vars, resultVars,
     Driver, WriteFails, WritePulse, ReadT0, T0TimesOut, T1TimesOut, Miss, AskSample, LineTimesOut,
     LineDiffers, ReturnTimesOut
<1> QED
  BY <1>1, <1>2, <1>3, <1>4

Typed == Places /\ Queues /\ Pixels /\ Tallies /\ Recorded

LEMMA TypedAlways == Spec => []Typed
<1>1. ASSUME Init PROVE Typed
  <2>1. Places
    BY <1>1, SamplesAreNat DEF Init, Places, Running
  <2>2. Queues
    BY <1>1 DEF Init, ProbeInit, Queues
  <2>3. Pixels
    BY <1>1, PollsArePositive DEF Init, ProbeInit, Pixels
  <2>4. Tallies /\ Recorded
    BY <1>1 DEF Init, Tallies, Recorded, NoMark, Mark
  <2> QED
    BY <2>1, <2>2, <2>3, <2>4 DEF Typed
<1>2. Typed /\ [Next]_vars => Typed'
  BY PlacesInductive, QueuesInductive, PixelsInductive, TalliesInductive, RecordedInductive DEF Typed
<1> QED
  BY <1>1, <1>2, PTL DEF Spec

\* The types, for any number of samples and polls.
THEOREM TypeCorrect == Spec => []TypeOK
<1>1. Typed => TypeOK
  BY DEF Typed, Places, Running, Queues, Pixels, Tallies, Recorded, TypeOK, ProbeTypeOK
<1> QED
  BY <1>1, TypedAlways, PTL
-----------------------------------------------------------------------------
(* The account of the samples, and what is outstanding.                     *)

\* Iterations whose delivery, and whose return, is settled.
Settled ==
    /\ pc \in {"pulse", "t0", "t1"} =>
        /\ deliveries + deliveryMisses = IF pulse = 0 THEN 0 ELSE pulse - 1
        /\ returns + returnMisses = deliveries
    /\ pc \in Asking =>
        /\ deliveries + deliveryMisses = pulse
        /\ returns + returnMisses = IF pulse = 0 THEN 0 ELSE deliveries - 1
    /\ EverySampleCounted

\* The body of the loop changes nothing of it between its reads.
LEMMA StepsThatSettleNothing ==
    [Next]_vars =>
        \/ T0TimesOut \/ T1TimesOut \/ ReadT1 \/ LineMatches \/ ReturnTimesOut
        \/ /\ UNCHANGED <<deliveries, deliveryMisses, returns, returnMisses, paired>>
           /\ \/ UNCHANGED <<pulse, pc>>
              \/ UNCHANGED pulse /\ (WritePulse \/ ReadT0 \/ AskSample \/ LineTimesOut \/ LineDiffers)
              \/ pc' = "failed"
BY DEF Next, Helper, Inject, Draw, DrawFrame, ProbeStep, LoseKey, vars, driverVars, resultVars,
   Driver, WriteFails, Fail, WritePulse, ReadT0, AskSample, LineTimesOut, LineDiffers

LEMMA SettledInductive == Typed /\ Settled /\ [Next]_vars => Settled'
<1> SUFFICES ASSUME Typed, Settled, [Next]_vars PROVE Settled'
  OBVIOUS
<1>t. /\ pulse \in Nat /\ Samples \in Nat /\ deliveryMisses \in Nat /\ returnMisses \in Nat
      /\ deliveries \in Nat /\ returns \in Nat
  BY SamplesAreNat DEF Typed, Places, Tallies
<1>p. pc \in Running => pulse <= Samples
  BY SamplesAreNat DEF Typed, Places
<1> USE <1>t, <1>p DEF Settled, Asking, Running, EverySampleCounted
<1>1. CASE T0TimesOut \/ T1TimesOut
  BY <1>1 DEF T0TimesOut, T1TimesOut, Miss, WarmUp, NextPulse, Fail
<1>2. CASE ReadT1
  BY <1>2 DEF ReadT1, WarmUp
<1>3. CASE LineMatches
  BY <1>3 DEF LineMatches, WarmUp, NextPulse
<1>4. CASE ReturnTimesOut
  BY <1>4 DEF ReturnTimesOut, WarmUp, NextPulse, Fail
<1>5. CASE /\ UNCHANGED <<deliveries, deliveryMisses, returns, returnMisses, paired>>
           /\ \/ UNCHANGED <<pulse, pc>>
              \/ UNCHANGED pulse /\ (WritePulse \/ ReadT0 \/ AskSample \/ LineTimesOut \/ LineDiffers)
              \/ pc' = "failed"
  BY <1>5 DEF WritePulse, ReadT0, AskSample, LineTimesOut, LineDiffers
<1> QED
  BY <1>1, <1>2, <1>3, <1>4, <1>5, StepsThatSettleNothing

\* No sample is lost from the report or counted twice, for any number of them.
THEOREM SamplesAccounted == Spec => []EverySampleCounted
<1>1. Init => Settled
  BY DEF Init, Settled, Asking, EverySampleCounted
<1>2. Settled => EverySampleCounted
  BY DEF Settled
<1> QED
  BY <1>1, <1>2, SettledInductive, TypedAlways, PTL DEF Spec

Outstanding == commands + Len(keys) + Len(keyOut)

\* Only between the command and its line is one event more under way than missed.
Bounded == Outstanding <= deliveryMisses + (IF pc \in {"t0", "t1", "failed"} THEN 1 ELSE 0)

LEMMA BoundedInductive == Typed /\ Bounded /\ [Next]_vars => Bounded'
<1> SUFFICES ASSUME Typed, Bounded, [Next]_vars PROVE Bounded'
  OBVIOUS
<1>t. /\ commands \in Nat /\ deliveryMisses \in Nat /\ keys \in Seq(Nat) /\ keyOut \in Seq(Mark)
      /\ Len(keys) \in Nat /\ Len(keyOut) \in Nat /\ injected \in Nat /\ drawn \in Nat
  BY DEF Typed, Queues, Tallies
<1>m. \A n \in Nat : [key |-> n, draw |-> drawn + 1] \in Mark
  BY <1>t DEF Mark
<1> USE <1>t DEF Bounded, Outstanding
<1>1. CASE Inject
  <2>1. Len(keys') = Len(keys) + 1
    BY <1>1, AppendFacts DEF Inject
  <2> QED
    BY <1>1, <2>1 DEF Inject, driverVars, resultVars
<1>2. CASE LoseKey
  <2>1. Len(keys') = Len(keys) - 1
    BY <1>2, TailFacts DEF LoseKey
  <2> QED
    BY <1>2, <2>1 DEF LoseKey, driverVars, injectorVars, resultVars
<1>3. CASE Draw
  <2>1. Len(keys') = Len(keys) - 1 /\ Head(keys) \in Nat
    BY <1>3, TailFacts DEF Draw
  <2>2. Len(keyOut') = Len(keyOut) + 1
    BY <1>3, <1>m, <2>1, AppendFacts DEF Draw
  <2> QED
    BY <1>3, <2>1, <2>2 DEF Draw, driverVars, injectorVars, resultVars
<1>4. CASE DrawFrame
  <2>1. Len(keyOut') = Len(keyOut) + 1
    BY <1>4, <1>m, AppendFacts DEF DrawFrame
  <2> QED
    BY <1>4, <2>1 DEF DrawFrame, driverVars, resultVars
<1>5. CASE WritePulse
  BY <1>5 DEF WritePulse, keyVars, resultVars
<1>6. CASE ReadT1
  <2>1. Len(keyOut') = Len(keyOut) - 1
    BY <1>6, TailFacts DEF ReadT1
  <2> QED
    BY <1>6, <2>1 DEF ReadT1, injectorVars
<1>7. CASE T0TimesOut \/ T1TimesOut
  BY <1>7 DEF T0TimesOut, T1TimesOut, Miss, Fail, NextPulse, injectorVars, keyVars
<1>8. CASE /\ UNCHANGED <<commands, keys, keyOut, deliveryMisses>>
           /\ \/ UNCHANGED pc
              \/ pc \in {"t0"} /\ pc' = "t1"
              \/ pc \notin {"t0", "t1", "failed"}
  BY <1>8
<1>9. \/ Inject \/ LoseKey \/ Draw \/ DrawFrame \/ WritePulse \/ ReadT1 \/ T0TimesOut \/ T1TimesOut
      \/ /\ UNCHANGED <<commands, keys, keyOut, deliveryMisses>>
         /\ \/ UNCHANGED pc
            \/ pc \in {"t0"} /\ pc' = "t1"
            \/ pc \notin {"t0", "t1", "failed"}
  BY DEF Next, Helper, ProbeStep, vars, driverVars, injectorVars, keyVars, resultVars, Driver,
     WriteFails, Fail, ReadT0, AskSample, LineTimesOut, LineDiffers, LineMatches, NextPulse, ReturnTimesOut
<1> QED
  BY <1>1, <1>2, <1>3, <1>4, <1>5, <1>6, <1>7, <1>8, <1>9

\* docs/measurement-model.md's one event at a time, for any number of samples.
THEOREM OneOutstanding == Spec => []AtMostOneOutstanding
<1>1. Init => Bounded
  BY DEF Init, Bounded, Outstanding
<1>2. Typed /\ Bounded => AtMostOneOutstanding
  BY DEF Typed, Queues, Tallies, Bounded, Outstanding, AtMostOneOutstanding
<1> QED
  BY <1>1, <1>2, BoundedInductive, TypedAlways, PTL DEF Spec
-----------------------------------------------------------------------------
(* How far the pipes are out of step.                                       *)

\* The place of an event in a queue bounds its number from below.
Rises(s, least, most) == \A i \in 1..Len(s) : least + i - 1 <= s[i] /\ s[i] <= most
MarksRise(s, least, most) ==
    \A i \in 1..Len(s) : least + i - 1 <= s[i].key /\ s[i].key <= most

LEMMA RisesAppend ==
    ASSUME NEW s \in Seq(Nat), NEW e \in Nat, NEW least \in Int, NEW most \in Int,
           Rises(s, least, most), least + Len(s) <= e, e <= most
    PROVE  Rises(Append(s, e), least, most)
<1> SUFFICES ASSUME NEW i \in 1..Len(Append(s, e))
             PROVE  least + i - 1 <= Append(s, e)[i] /\ Append(s, e)[i] <= most
  BY DEF Rises
<1>1. CASE i \in 1..Len(s)
  <2>1. Append(s, e)[i] = s[i]
    BY <1>1, AppendFacts
  <2> QED
    BY <1>1, <2>1 DEF Rises
<1>2. CASE i = Len(s) + 1
  <2>1. Append(s, e)[i] = e
    BY <1>2, AppendFacts
  <2> QED
    BY <1>2, <2>1
<1> QED
  BY <1>1, <1>2, AppendFacts

LEMMA RisesTail ==
    ASSUME NEW s \in Seq(Nat), NEW least \in Int, NEW most \in Int,
           Rises(s, least, most), s # <<>>
    PROVE  /\ least <= Head(s) /\ Head(s) <= most
           /\ Rises(Tail(s), least + 1, most)
<1>1. /\ Head(s) = s[1] /\ Len(s) \in Nat /\ Len(s) >= 1 /\ Len(Tail(s)) = Len(s) - 1
      /\ \A i \in 1..(Len(s) - 1) : Tail(s)[i] = s[i + 1]
  BY TailFacts
<1>2. least + 1 - 1 <= s[1] /\ s[1] <= most
  BY <1>1 DEF Rises
<1>3. ASSUME NEW i \in 1..(Len(s) - 1)
      PROVE  least + 1 + i - 1 <= Tail(s)[i] /\ Tail(s)[i] <= most
  <2>1. i + 1 \in 1..Len(s)
    BY <1>1
  <2>2. least + (i + 1) - 1 <= s[i + 1] /\ s[i + 1] <= most
    BY <2>1 DEF Rises
  <2>3. Tail(s)[i] = s[i + 1] /\ s[i + 1] \in Nat
    BY <1>1, <2>1
  <2> QED
    BY <2>2, <2>3
<1> QED
  BY <1>1, <1>2, <1>3 DEF Rises

LEMMA RisesLess ==
    ASSUME NEW s \in Seq(Nat), NEW a \in Int, NEW b \in Int, NEW c \in Int, NEW d \in Int,
           Rises(s, a, b), c <= a, b <= d
    PROVE  Rises(s, c, d)
<1> SUFFICES ASSUME NEW i \in 1..Len(s) PROVE c + i - 1 <= s[i] /\ s[i] <= d
  BY DEF Rises
<1>1. a + i - 1 <= s[i] /\ s[i] <= b /\ s[i] \in Nat
  BY DEF Rises
<1> QED
  BY <1>1

LEMMA MarksRiseAppend ==
    ASSUME NEW s \in Seq(Mark), NEW e \in Mark, NEW least \in Int, NEW most \in Int,
           MarksRise(s, least, most), least + Len(s) <= e.key, e.key <= most
    PROVE  MarksRise(Append(s, e), least, most)
<1> SUFFICES ASSUME NEW i \in 1..Len(Append(s, e))
             PROVE  least + i - 1 <= Append(s, e)[i].key /\ Append(s, e)[i].key <= most
  BY DEF MarksRise
<1>1. CASE i \in 1..Len(s)
  <2>1. Append(s, e)[i] = s[i]
    BY <1>1, AppendFacts
  <2> QED
    BY <1>1, <2>1 DEF MarksRise
<1>2. CASE i = Len(s) + 1
  <2>1. Append(s, e)[i] = e
    BY <1>2, AppendFacts
  <2>2. least + i - 1 <= e.key
    BY <1>2 DEF Mark
  <2> QED
    BY <2>1, <2>2
<1> QED
  BY <1>1, <1>2, AppendFacts

LEMMA MarksRiseTail ==
    ASSUME NEW s \in Seq(Mark), NEW least \in Int, NEW most \in Int,
           MarksRise(s, least, most), s # <<>>
    PROVE  /\ least <= Head(s).key /\ Head(s).key <= most
           /\ MarksRise(Tail(s), least + 1, most)
<1>1. /\ Head(s) = s[1] /\ Len(s) \in Nat /\ Len(s) >= 1 /\ Len(Tail(s)) = Len(s) - 1
      /\ \A i \in 1..(Len(s) - 1) : Tail(s)[i] = s[i + 1]
  BY TailFacts
<1>2. least + 1 - 1 <= s[1].key /\ s[1].key <= most /\ s[1].key \in Nat
  <2>1. 1 \in 1..Len(s) /\ s[1] \in Mark
    BY <1>1
  <2>2. least + 1 - 1 <= s[1].key /\ s[1].key <= most
    BY <2>1 DEF MarksRise
  <2>3. s[1].key \in Nat
    BY <2>1 DEF Mark
  <2> QED
    BY <2>2, <2>3
<1>3. ASSUME NEW i \in 1..(Len(s) - 1)
      PROVE  least + 1 + i - 1 <= Tail(s)[i].key /\ Tail(s)[i].key <= most
  <2>1. i + 1 \in 1..Len(s)
    BY <1>1
  <2>2. least + (i + 1) - 1 <= s[i + 1].key /\ s[i + 1].key <= most
    BY <2>1 DEF MarksRise
  <2>3. Tail(s)[i] = s[i + 1]
    BY <1>1
  <2>4. least + 1 + i - 1 = least + (i + 1) - 1
    OBVIOUS
  <2> QED
    BY <2>2, <2>3, <2>4
<1> QED
  BY <1>1, <1>2, <1>3 DEF MarksRise

LEMMA MarksRiseLess ==
    ASSUME NEW s \in Seq(Mark), NEW a \in Int, NEW b \in Int, NEW d \in Int,
           MarksRise(s, a, b), b <= d
    PROVE  MarksRise(s, a, d)
<1> SUFFICES ASSUME NEW i \in 1..Len(s) PROVE a + i - 1 <= s[i].key /\ s[i].key <= d
  BY DEF MarksRise
<1>1. a + i - 1 <= s[i].key /\ s[i].key <= b /\ s[i] \in Mark
  BY DEF MarksRise
<1> QED
  BY <1>1 DEF Mark

\* The least event that can be in the physical stimulus's pipe, and the least
\* in the injector's: an iteration reads one line of each or counts a miss.
LeastKey == IF pc \in Asking THEN pulse + 1 - deliveryMisses ELSE pulse - deliveryMisses
LeastT0 == IF pc \in {"pulse", "t0"} THEN pulse - deliveryMisses ELSE pulse + 1 - deliveryMisses

\* The least event that can be on its way to the physical display.
NextKey == LeastKey + Len(keyOut)

Started ==
    /\ commands + injected = IF pc = "pulse" THEN pulse ELSE pulse + 1
    /\ injected >= NextKey + Len(keys)

KeysInStep ==
    /\ Started
    /\ MarksRise(keyOut, LeastKey, pulse)
    /\ Rises(keys, NextKey, pulse)
    /\ mode = "graphics" => keys = <<>>

Stamped == injected >= LeastT0 + Len(injectorOut)
T0InStep == pc = "t1" => pulse - deliveryMisses <= t0 /\ t0 <= pulse

StartsInStep == Stamped /\ Rises(injectorOut, LeastT0, pulse) /\ T0InStep

InStep == pc \in Running => KeysInStep /\ (mode # "graphics" => StartsInStep)

LEMMA Numbers ==
    ASSUME Typed
    PROVE  /\ pulse \in Nat /\ deliveryMisses \in Nat /\ commands \in Nat /\ injected \in Nat
           /\ t0 \in Nat /\ drawn \in Nat
           /\ keys \in Seq(Nat) /\ injectorOut \in Seq(Nat) /\ keyOut \in Seq(Mark)
           /\ Len(keys) \in Nat /\ Len(injectorOut) \in Nat /\ Len(keyOut) \in Nat
           /\ LeastKey \in Int /\ LeastT0 \in Int /\ NextKey \in Int
<1>1. /\ pulse \in Nat /\ deliveryMisses \in Nat /\ commands \in Nat /\ injected \in Nat
      /\ t0 \in Nat /\ drawn \in Nat
      /\ keys \in Seq(Nat) /\ injectorOut \in Seq(Nat) /\ keyOut \in Seq(Mark)
  BY SamplesAreNat DEF Typed, Places, Queues, Tallies
<1> QED
  BY <1>1 DEF LeastKey, LeastT0, NextKey

\* The steps of the helpers.
LEMMA HelpersKeepStep ==
    ASSUME Typed, InStep, pc \in Running, Inject \/ Draw \/ DrawFrame \/ LoseKey
    PROVE  InStep'
<1>t. UNCHANGED <<mode, pc, pulse, t0, deliveryMisses>>
  BY DEF Inject, Draw, DrawFrame, LoseKey, driverVars, resultVars
<1>m. \A n \in Nat : [key |-> n, draw |-> drawn + 1] \in Mark
  BY Numbers DEF Mark
<1>l. LeastKey' = LeastKey /\ LeastT0' = LeastT0
  BY <1>t DEF LeastKey, LeastT0
<1>k. /\ Started /\ MarksRise(keyOut, LeastKey, pulse) /\ Rises(keys, NextKey, pulse)
      /\ mode = "graphics" => keys = <<>>
  BY DEF InStep, KeysInStep
<1>s. mode # "graphics" => StartsInStep
  BY DEF InStep
<1>u. T0InStep' <=> T0InStep
  BY <1>t DEF T0InStep
<1>n. /\ pulse \in Nat /\ commands \in Nat /\ injected \in Nat /\ NextKey \in Int /\ LeastT0 \in Int
      /\ Len(keys) \in Nat /\ Len(injectorOut) \in Nat
  BY Numbers
<1>g. /\ commands + injected = (IF pc = "pulse" THEN pulse ELSE pulse + 1)
      /\ injected >= NextKey + Len(keys)
  BY <1>k DEF Started
<1>1. CASE Inject
  <2>1. /\ commands' = commands - 1 /\ commands > 0 /\ injected' = injected + 1
        /\ keyOut' = keyOut /\ mode # "graphics"
    BY <1>1 DEF Inject
  <2>a. keys' = Append(keys, injected) /\ injectorOut' = Append(injectorOut, injected)
    BY <1>1 DEF Inject
  <2>2. Len(keys') = Len(keys) + 1 /\ Len(injectorOut') = Len(injectorOut) + 1
    BY <2>a, Numbers, AppendFacts
  <2>3. injected <= pulse /\ NextKey + Len(keys) <= injected
    BY <1>g, <1>n, <2>1
  <2>4. NextKey' = NextKey
    BY <1>l, <2>1 DEF NextKey
  <2>5. Rises(keys', NextKey', pulse')
    BY <1>k, <1>t, <2>a, <2>3, <2>4, Numbers, RisesAppend
  <2>6. Stamped /\ Rises(injectorOut, LeastT0, pulse) /\ T0InStep
    BY <1>s, <2>1 DEF StartsInStep
  <2>7. LeastT0 + Len(injectorOut) <= injected
    BY <2>6, Numbers DEF Stamped
  <2>8. Rises(injectorOut', LeastT0', pulse')
    <3>1. Rises(Append(injectorOut, injected), LeastT0, pulse)
      BY <2>3, <2>6, <2>7, Numbers, RisesAppend
    <3> QED
      BY <1>l, <1>t, <2>a, <3>1
  <2>9. Started'
    <3>1. /\ commands' + injected' = commands + injected
          /\ injected' >= NextKey + Len(keys')
      BY <1>g, <1>n, <2>1, <2>2
    <3> QED
      BY <1>g, <1>t, <2>4, <3>1 DEF Started
  <2>10. Stamped'
    <3>1. injected' >= LeastT0 + Len(injectorOut')
      BY <1>n, <2>1, <2>2, <2>7
    <3> QED
      BY <1>l, <3>1 DEF Stamped
  <2>11. MarksRise(keyOut', LeastKey', pulse')
    BY <1>k, <1>l, <1>t, <2>1
  <2> QED
    BY <1>t, <1>u, <2>1, <2>5, <2>6, <2>8, <2>9, <2>10, <2>11 DEF InStep, KeysInStep, StartsInStep
<1>2. CASE LoseKey
  <2>1. /\ keys # <<>> /\ keys' = Tail(keys)
        /\ UNCHANGED <<commands, injected, injectorOut, keyOut>>
    BY <1>2 DEF LoseKey, injectorVars
  <2>2. Len(keys') = Len(keys) - 1 /\ keys' \in Seq(Nat)
    BY <2>1, Numbers, TailFacts
  <2>3. NextKey' = NextKey /\ mode # "graphics"
    BY <1>k, <1>l, <2>1 DEF NextKey
  <2>4. Rises(keys', NextKey + 1, pulse)
    BY <1>k, <2>1, Numbers, RisesTail
  <2>5. Rises(keys', NextKey', pulse')
    <3>1. NextKey + 1 \in Int /\ NextKey <= NextKey + 1 /\ pulse <= pulse /\ pulse \in Int
      BY Numbers
    <3> QED
      BY <1>t, <2>2, <2>3, <2>4, <3>1, Numbers, RisesLess
  <2>6. Started'
    BY <1>k, <1>t, <2>1, <2>2, <2>3, Numbers DEF Started
  <2>7. MarksRise(keyOut', LeastKey', pulse')
    BY <1>k, <1>l, <1>t, <2>1
  <2>8. StartsInStep'
    BY <1>s, <1>l, <1>t, <1>u, <2>1, <2>3 DEF StartsInStep, Stamped
  <2> QED
    BY <1>t, <2>3, <2>5, <2>6, <2>7, <2>8 DEF InStep, KeysInStep
<1>3. CASE Draw
  <2> DEFINE line == [key |-> Head(keys), draw |-> drawn + 1]
  <2>1. /\ keys # <<>> /\ keys' = Tail(keys)
        /\ keyOut' = Append(keyOut, line)
        /\ UNCHANGED <<commands, injected, injectorOut>>
    BY <1>3 DEF Draw, injectorVars
  <2>2. Len(keys') = Len(keys) - 1 /\ Head(keys) \in Nat
    BY <2>1, Numbers, TailFacts
  <2>3. line \in Mark /\ line.key = Head(keys)
    BY <1>m, <2>2
  <2> HIDE DEF line
  <2>4. /\ NextKey <= Head(keys) /\ Head(keys) <= pulse
        /\ Rises(keys', NextKey + 1, pulse)
    <3>1. keys \in Seq(Nat) /\ NextKey \in Int /\ pulse \in Int
      BY Numbers
    <3> QED
      BY <1>k, <2>1, <3>1, RisesTail
  <2>5. Len(keyOut') = Len(keyOut) + 1
    BY <2>1, <2>3, Numbers, AppendFacts
  <2>6. NextKey' = NextKey + 1
    BY <1>l, <2>5, Numbers DEF NextKey
  <2>7. LeastKey + Len(keyOut) <= line.key /\ line.key <= pulse
    BY <2>3, <2>4 DEF NextKey
  <2>8. MarksRise(keyOut', LeastKey', pulse')
    <3>1. keyOut \in Seq(Mark) /\ LeastKey \in Int /\ pulse \in Int
      BY Numbers
    <3>2. MarksRise(Append(keyOut, line), LeastKey, pulse)
      BY <1>k, <2>3, <2>7, <3>1, MarksRiseAppend
    <3> QED
      BY <1>l, <1>t, <2>1, <3>2
  <2>9. Started'
    BY <1>k, <1>t, <2>1, <2>2, <2>6, Numbers DEF Started
  <2>10. Rises(keys', NextKey', pulse')
    BY <1>t, <2>4, <2>6
  <2>11. mode # "graphics"
    BY <1>k, <2>1
  <2>12. StartsInStep'
    BY <1>s, <1>l, <1>t, <1>u, <2>1, <2>11 DEF StartsInStep, Stamped
  <2> QED
    BY <1>t, <2>8, <2>9, <2>10, <2>11, <2>12 DEF InStep, KeysInStep
<1>4. CASE DrawFrame
  <2> DEFINE line == [key |-> injected, draw |-> drawn + 1]
  <2>1. /\ commands' = commands - 1 /\ commands > 0 /\ injected' = injected + 1
        /\ keys' = keys /\ mode = "graphics"
    BY <1>4 DEF DrawFrame
  <2>a. keyOut' = Append(keyOut, line)
    BY <1>4 DEF DrawFrame
  <2>2. line \in Mark /\ line.key = injected
    BY <1>m, Numbers
  <2> HIDE DEF line
  <2>3. Len(keyOut') = Len(keyOut) + 1
    BY <2>a, <2>2, Numbers, AppendFacts
  <2>4. keys = <<>> /\ Len(keys) = 0
    BY <1>k, <2>1
  <2>5. NextKey' = NextKey + 1
    BY <1>l, <2>3, Numbers DEF NextKey
  <2>6. injected <= pulse /\ NextKey <= injected
    <3>1. injected \in Int /\ pulse \in Int /\ NextKey \in Int /\ commands \in Int
      BY Numbers
    <3> QED
      BY <1>k, <2>1, <2>4, <3>1 DEF Started
  <2>7. LeastKey + Len(keyOut) <= line.key /\ line.key <= pulse
    BY <2>2, <2>6 DEF NextKey
  <2>8. MarksRise(keyOut', LeastKey', pulse')
    BY <1>k, <1>l, <1>t, <2>a, <2>2, <2>7, Numbers, MarksRiseAppend
  <2>9. Rises(keys', NextKey', pulse')
    BY <2>1, <2>4 DEF Rises
  <2>10. Started'
    <3>1. /\ commands' + injected' = commands + injected
          /\ injected' >= NextKey + 1 + Len(keys')
      BY <1>g, <1>n, <2>1
    <3> QED
      BY <1>g, <1>t, <2>5, <3>1 DEF Started
  <2> QED
    BY <1>t, <2>1, <2>4, <2>8, <2>9, <2>10 DEF InStep, KeysInStep
<1> QED
  BY <1>1, <1>2, <1>3, <1>4

\* A step that only passes the time, or turns one poll into the next.
LEMMA IdleKeepsStep ==
    ASSUME Typed, InStep, pc \in Running,
           UNCHANGED <<mode, pulse, t0, deliveryMisses, injectorVars, keyVars>>,
           \/ pc' = pc
           \/ pc \in Asking /\ pc' \in Asking
    PROVE  InStep'
<1>1. /\ UNCHANGED <<mode, pulse, t0, deliveryMisses, commands, injected, injectorOut, keys, keyOut>>
      /\ pc' = "pulse" <=> pc = "pulse"
      /\ pc' \in {"pulse", "t0"} <=> pc \in {"pulse", "t0"}
      /\ pc' = "t1" <=> pc = "t1"
      /\ pc' \in Asking <=> pc \in Asking
  BY DEF injectorVars, keyVars, Asking
<1>2. LeastKey' = LeastKey /\ LeastT0' = LeastT0
  BY <1>1 DEF LeastKey, LeastT0
<1>3. NextKey' = NextKey
  BY <1>1, <1>2 DEF NextKey
<1>4. Started' <=> Started
  BY <1>1, <1>3 DEF Started
<1>5. (Stamped' <=> Stamped) /\ (T0InStep' <=> T0InStep)
  BY <1>1, <1>2 DEF Stamped, T0InStep
<1> QED
  BY <1>1, <1>2, <1>3, <1>4, <1>5 DEF InStep, KeysInStep, StartsInStep

\* The next command, the T0 line and the physical line.
LEMMA ReadsKeepStep ==
    ASSUME Typed, InStep, WritePulse \/ ReadT0 \/ ReadT1
    PROVE  InStep'
<1>n. /\ pulse \in Nat /\ deliveryMisses \in Nat /\ commands \in Nat /\ injected \in Nat
      /\ NextKey \in Int /\ LeastKey \in Int /\ LeastT0 \in Int
      /\ Len(keys) \in Nat /\ Len(injectorOut) \in Nat /\ Len(keyOut) \in Nat
  BY Numbers
<1>p. pc \in Running /\ mode \in {"graphics", "input-roundtrip"}
  BY ModesAreKnown DEF WritePulse, ReadT0, ReadT1, Running, Typed, Places
<1>k. /\ Started /\ MarksRise(keyOut, LeastKey, pulse) /\ Rises(keys, NextKey, pulse)
      /\ mode = "graphics" => keys = <<>>
  BY <1>p DEF InStep, KeysInStep
<1>g. /\ commands + injected = (IF pc = "pulse" THEN pulse ELSE pulse + 1)
      /\ injected >= NextKey + Len(keys)
  BY <1>k DEF Started
<1>s. mode # "graphics" => Stamped /\ Rises(injectorOut, LeastT0, pulse) /\ T0InStep
  BY <1>p DEF InStep, StartsInStep
<1>1. CASE WritePulse
  <2>1. /\ UNCHANGED <<mode, pulse, deliveryMisses, injected, injectorOut, keys, keyOut>>
        /\ commands' = commands + 1 /\ pc = "pulse"
        /\ pc' = IF mode = "graphics" THEN "t1" ELSE "t0"
    BY <1>1 DEF WritePulse, keyVars, resultVars
  <2>2. LeastKey' = LeastKey /\ (mode # "graphics" => LeastT0' = LeastT0)
    BY <2>1 DEF LeastKey, LeastT0, Asking
  <2>3. NextKey' = NextKey
    BY <2>1, <2>2 DEF NextKey
  <2>4. commands' + injected' = (IF pc' = "pulse" THEN pulse' ELSE pulse' + 1)
    BY <1>g, <1>n, <2>1
  <2>5. Started'
    BY <1>g, <2>1, <2>3, <2>4 DEF Started
  <2>6. mode # "graphics" => Stamped' /\ T0InStep'
    BY <1>s, <2>1, <2>2 DEF Stamped, T0InStep
  <2>7. mode # "graphics" => Rises(injectorOut', LeastT0', pulse')
    BY <1>s, <2>1, <2>2
  <2>8. MarksRise(keyOut', LeastKey', pulse') /\ Rises(keys', NextKey', pulse')
    BY <1>k, <2>1, <2>2, <2>3
  <2> QED
    BY <1>k, <2>1, <2>5, <2>6, <2>7, <2>8 DEF InStep, KeysInStep, StartsInStep
<1>2. CASE ReadT0
  <2>1. /\ UNCHANGED <<mode, pulse, deliveryMisses, commands, injected, keys, keyOut>>
        /\ pc = "t0" /\ pc' = "t1"
    BY <1>2 DEF ReadT0, keyVars, resultVars
  <2>2. injectorOut # <<>> /\ t0' = Head(injectorOut) /\ injectorOut' = Tail(injectorOut)
    BY <1>2 DEF ReadT0
  <2>3. LeastKey' = LeastKey /\ LeastT0 = pulse - deliveryMisses
    BY <2>1 DEF LeastKey, LeastT0, Asking
  <2>4. LeastT0' = LeastT0 + 1
    BY <1>n, <2>1 DEF LeastT0
  <2>5. NextKey' = NextKey
    BY <2>1, <2>3 DEF NextKey
  <2>6. Len(injectorOut') = Len(injectorOut) - 1
    BY <2>2, Numbers, TailFacts
  <2>7. Started'
    BY <1>g, <2>1, <2>5 DEF Started
  <2>8. MarksRise(keyOut', LeastKey', pulse') /\ Rises(keys', NextKey', pulse')
    BY <1>k, <2>1, <2>3, <2>5
  <2>9. ASSUME mode # "graphics" PROVE StartsInStep'
    <3>1. injected >= LeastT0 + Len(injectorOut)
      BY <1>s, <2>9 DEF Stamped
    <3>2. injected' >= LeastT0 + 1 + Len(injectorOut')
      BY <1>n, <2>1, <2>6, <3>1
    <3>3. Stamped'
      BY <2>4, <3>2 DEF Stamped
    <3>4. /\ LeastT0 <= Head(injectorOut) /\ Head(injectorOut) <= pulse
          /\ Rises(Tail(injectorOut), LeastT0 + 1, pulse)
      <4>1. injectorOut \in Seq(Nat) /\ LeastT0 \in Int /\ pulse \in Int
        BY Numbers
      <4> QED
        BY <1>s, <2>2, <2>9, <4>1, RisesTail
    <3>5. T0InStep'
      BY <2>1, <2>2, <2>3, <3>4 DEF T0InStep
    <3>6. Rises(injectorOut', LeastT0', pulse')
      BY <2>1, <2>2, <2>4, <3>4
    <3> QED
      BY <3>3, <3>5, <3>6 DEF StartsInStep
  <2> QED
    BY <1>k, <2>1, <2>7, <2>8, <2>9 DEF InStep, KeysInStep
<1>3. CASE ReadT1
  <2>1. /\ UNCHANGED <<mode, pulse, deliveryMisses, commands, injected, injectorOut, keys>>
        /\ pc = "t1" /\ pc' = "ask"
    BY <1>3 DEF ReadT1, injectorVars
  <2>2. keyOut # <<>> /\ keyOut' = Tail(keyOut)
    BY <1>3 DEF ReadT1
  <2>3. LeastKey' = LeastKey + 1 /\ LeastT0' = LeastT0
    BY <1>n, <2>1 DEF LeastKey, LeastT0, Asking
  <2>4. Len(keyOut') = Len(keyOut) - 1
    BY <2>2, Numbers, TailFacts
  <2>5. NextKey' = NextKey
    BY <1>n, <2>3, <2>4 DEF NextKey
  <2>6. Started'
    BY <1>g, <2>1, <2>5 DEF Started
  <2>7. MarksRise(Tail(keyOut), LeastKey + 1, pulse)
    BY <1>k, <2>2, Numbers, MarksRiseTail
  <2>8. MarksRise(keyOut', LeastKey', pulse') /\ Rises(keys', NextKey', pulse')
    BY <1>k, <2>1, <2>2, <2>3, <2>5, <2>7
  <2>9. mode # "graphics" => Stamped' /\ T0InStep' /\ Rises(injectorOut', LeastT0', pulse')
    BY <1>s, <2>1, <2>3 DEF Stamped, T0InStep
  <2> QED
    BY <1>k, <2>1, <2>6, <2>8, <2>9 DEF InStep, KeysInStep, StartsInStep
<1> QED
  BY <1>1, <1>2, <1>3

\* The next iteration, after a line was read or a miss counted.
LEMMA NextPulseKeepsStep ==
    ASSUME Typed, InStep, NextPulse, UNCHANGED <<injectorVars, keyVars>>,
           \/ pc \in Asking /\ deliveryMisses' = deliveryMisses
           \/ pc \in {"t0", "t1"} /\ deliveryMisses' = deliveryMisses + 1
    PROVE  InStep'
<1>n. /\ pulse \in Nat /\ deliveryMisses \in Nat /\ commands \in Nat /\ injected \in Nat
      /\ NextKey \in Int /\ LeastKey \in Int /\ LeastT0 \in Int
      /\ Len(keys) \in Nat /\ Len(injectorOut) \in Nat /\ Len(keyOut) \in Nat
  BY Numbers
<1>p. pc \in Running /\ pc # "pulse"
  BY DEF Running, Asking
<1>k. /\ Started /\ MarksRise(keyOut, LeastKey, pulse) /\ Rises(keys, NextKey, pulse)
      /\ mode = "graphics" => keys = <<>>
  BY <1>p DEF InStep, KeysInStep
<1>g. /\ commands + injected = pulse + 1
      /\ injected >= NextKey + Len(keys)
  BY <1>k, <1>p DEF Started
<1>s. mode # "graphics" => Stamped /\ Rises(injectorOut, LeastT0, pulse)
  BY <1>p DEF InStep, StartsInStep
<1> SUFFICES ASSUME pc' = "pulse" PROVE InStep'
  BY DEF NextPulse, InStep, Running
<1>1. /\ UNCHANGED <<mode, commands, injected, injectorOut, keys, keyOut>>
      /\ pulse' = pulse + 1 /\ pulse' \in Int /\ pulse <= pulse'
  BY <1>n DEF NextPulse, injectorVars, keyVars
<1>2. LeastKey' = LeastKey
  BY <1>n, <1>1 DEF LeastKey, Asking
<1>3. LeastT0' <= LeastT0 /\ LeastT0' \in Int
  BY <1>n, <1>1 DEF LeastT0, Asking
<1>4. NextKey' = NextKey
  BY <1>1, <1>2 DEF NextKey
<1>5. Started'
  BY <1>g, <1>1, <1>4 DEF Started
<1>6. MarksRise(keyOut, LeastKey, pulse')
  BY <1>k, <1>1, Numbers, MarksRiseLess
<1>7. Rises(keys, NextKey, pulse')
  <2>1. NextKey <= NextKey
    BY <1>n
  <2> QED
    BY <1>k, <1>1, <2>1, Numbers, RisesLess
<1>8. ASSUME mode # "graphics" PROVE StartsInStep'
  <2>1. injected >= LeastT0 + Len(injectorOut)
    BY <1>s, <1>8 DEF Stamped
  <2>2. injected >= LeastT0' + Len(injectorOut)
    BY <1>n, <1>3, <2>1
  <2>3. Stamped'
    BY <1>1, <2>2 DEF Stamped
  <2>4. Rises(injectorOut, LeastT0', pulse')
    <3>1. injectorOut \in Seq(Nat) /\ LeastT0 \in Int /\ LeastT0' \in Int
      BY <1>3, Numbers
    <3>2. pulse \in Int /\ pulse' \in Int /\ pulse <= pulse' /\ LeastT0' <= LeastT0
      BY <1>1, <1>3, Numbers
    <3>3. Rises(injectorOut, LeastT0, pulse)
      BY <1>s, <1>8
    <3> QED
      BY <3>1, <3>2, <3>3, RisesLess
  <2>5. Rises(injectorOut', LeastT0', pulse')
    BY <1>1, <2>4
  <2> QED
    BY <2>3, <2>5 DEF StartsInStep, T0InStep
<1>9. MarksRise(keyOut', LeastKey', pulse') /\ Rises(keys', NextKey', pulse')
  BY <1>1, <1>2, <1>4, <1>6, <1>7
<1> QED
  BY <1>k, <1>1, <1>5, <1>8, <1>9 DEF InStep, KeysInStep

LEMMA InStepInductive == Typed /\ InStep /\ [Next]_vars => InStep'
<1> SUFFICES ASSUME Typed, InStep, [Next]_vars PROVE InStep'
  OBVIOUS
<1>1. CASE pc' \notin Running
  BY <1>1 DEF InStep
<1>2. CASE pc \in Running /\ (Inject \/ Draw \/ DrawFrame \/ LoseKey)
  BY <1>2, HelpersKeepStep
<1>3. CASE WritePulse \/ ReadT0 \/ ReadT1
  BY <1>3, ReadsKeepStep
<1>4. CASE /\ pc \in Running
           /\ UNCHANGED <<mode, pulse, t0, deliveryMisses, injectorVars, keyVars>>
           /\ pc' = pc \/ (pc \in Asking /\ pc' \in Asking)
  BY <1>4, IdleKeepsStep
<1>5. CASE /\ NextPulse /\ UNCHANGED <<injectorVars, keyVars>>
           /\ \/ pc \in Asking /\ deliveryMisses' = deliveryMisses
              \/ pc \in {"t0", "t1"} /\ deliveryMisses' = deliveryMisses + 1
  BY <1>5, NextPulseKeepsStep
<1>6. CASE Helper \/ LoseKey \/ UNCHANGED vars
  <2>1. pc' = pc
    BY <1>6 DEF Helper, Inject, Draw, DrawFrame, ProbeStep, LoseKey, vars, driverVars
  <2>2. \/ Inject \/ Draw \/ DrawFrame \/ LoseKey
        \/ UNCHANGED <<mode, pulse, t0, deliveryMisses, injectorVars, keyVars>>
    BY <1>6 DEF Helper, ProbeStep, vars, driverVars, resultVars
  <2> QED
    BY <1>1, <1>2, <1>4, <2>1, <2>2
<1>7. CASE AskSample \/ LineTimesOut \/ LineDiffers
  BY <1>4, <1>7 DEF AskSample, LineTimesOut, LineDiffers, resultVars, Asking, Running
<1>8. CASE Fail
  BY <1>1, <1>8 DEF Fail, Running
<1>9. CASE T0TimesOut \/ T1TimesOut
  <2>1. CASE Fail
    BY <1>8, <2>1
  <2>2. CASE NextPulse /\ deliveryMisses' = deliveryMisses + 1
    BY <1>5, <1>9, <2>2 DEF T0TimesOut, T1TimesOut, Miss
  <2> QED
    BY <1>9, <2>1, <2>2 DEF T0TimesOut, T1TimesOut, Miss
<1>10. CASE LineMatches
  BY <1>5, <1>10 DEF LineMatches, Asking
<1>11. CASE ReturnTimesOut
  <2>1. CASE NextPulse
    BY <1>5, <1>11, <2>1 DEF ReturnTimesOut, Asking
  <2> QED
    BY <1>8, <1>11, <2>1 DEF ReturnTimesOut
<1> QED
  BY <1>3, <1>6, <1>7, <1>8, <1>9, <1>10, <1>11 DEF Next, Driver, WriteFails

\* A delivery pairs what is at the heads of the two pipes.
LEMMA SkewInductive == Typed /\ InStep /\ SkewBoundedByMisses /\ [Next]_vars => SkewBoundedByMisses'
<1> SUFFICES ASSUME Typed, InStep, SkewBoundedByMisses, [Next]_vars PROVE SkewBoundedByMisses'
  OBVIOUS
<1>n. pulse \in Nat /\ deliveryMisses \in Nat /\ t0 \in Nat /\ LeastKey \in Int
  BY Numbers
<1>h. paired.t0 \in Nat /\ paired.key \in Nat
  BY DEF Typed, Recorded
<1>1. CASE UNCHANGED paired /\ deliveryMisses' \in {deliveryMisses, deliveryMisses + 1}
  BY <1>1, <1>h, <1>n DEF SkewBoundedByMisses
<1>2. CASE ReadT1 /\ ~ UNCHANGED paired
  <2>1. /\ pc = "t1" /\ keyOut # <<>> /\ deliveryMisses' = deliveryMisses
        /\ paired' = [t0 |-> IF mode = "graphics" THEN pulse ELSE t0, key |-> Head(keyOut).key]
    BY <1>2 DEF ReadT1
  <2>2. KeysInStep /\ (mode # "graphics" => T0InStep)
    BY <2>1 DEF InStep, StartsInStep, Running
  <2>3. LeastKey = pulse - deliveryMisses
    BY <2>1 DEF LeastKey, Asking
  <2>4. LeastKey <= Head(keyOut).key /\ Head(keyOut).key <= pulse
    BY <2>1, <2>2, Numbers, MarksRiseTail DEF KeysInStep
  <2>5. Head(keyOut).key \in Nat
    <3>1. Head(keyOut) \in Mark
      BY <2>1, Numbers, TailFacts
    <3> QED
      BY <3>1 DEF Mark
  <2>6. mode # "graphics" => pulse - deliveryMisses <= t0 /\ t0 <= pulse
    BY <2>1, <2>2 DEF T0InStep
  <2>7. paired'.key = Head(keyOut).key /\ paired'.t0 = IF mode = "graphics" THEN pulse ELSE t0
    BY <2>1
  <2>8. paired'.t0 \in Nat /\ pulse - deliveryMisses <= paired'.t0 /\ paired'.t0 <= pulse
    BY <1>n, <2>6, <2>7
  <2>9. paired'.key \in Nat /\ pulse - deliveryMisses <= paired'.key /\ paired'.key <= pulse
    BY <2>3, <2>4, <2>5, <2>7
  <2>10. paired'.t0 <= paired'.key + deliveryMisses /\ paired'.key <= paired'.t0 + deliveryMisses
    BY <1>n, <2>8, <2>9
  <2> QED
    BY <2>1, <2>10 DEF SkewBoundedByMisses
<1>3. \/ UNCHANGED paired /\ deliveryMisses' \in {deliveryMisses, deliveryMisses + 1}
      \/ ReadT1 /\ ~ UNCHANGED paired
  BY DEF Next, Helper, Inject, Draw, DrawFrame, ProbeStep, LoseKey, vars, resultVars, Driver,
     WriteFails, WritePulse, ReadT0, T0TimesOut, ReadT1, T1TimesOut, AskSample, LineTimesOut,
     LineDiffers, LineMatches, ReturnTimesOut, Miss
<1> QED
  BY <1>1, <1>2, <1>3

\* However late or lost the lines are, the event of T0 and the event of T1 differ
\* by no more than the events counted as missed, for any number of samples.
THEOREM SkewCorrect == Spec => []SkewBoundedByMisses
<1>1. Init => InStep /\ SkewBoundedByMisses
  <2> SUFFICES ASSUME Init PROVE InStep /\ SkewBoundedByMisses
    OBVIOUS
  <2>1. /\ pc = "pulse" /\ pulse = 0 /\ commands = 0 /\ injected = 0 /\ deliveryMisses = 0
        /\ injectorOut = <<>> /\ keys = <<>> /\ keyOut = <<>> /\ paired = [t0 |-> 0, key |-> 0]
    BY DEF Init
  <2>2. LeastKey = 0 /\ LeastT0 = 0
    BY <2>1 DEF LeastKey, LeastT0, Asking
  <2>3. NextKey = 0
    BY <2>1, <2>2 DEF NextKey
  <2>4. Started /\ Stamped /\ T0InStep
    BY <2>1, <2>2, <2>3 DEF Started, Stamped, T0InStep
  <2>5. MarksRise(keyOut, LeastKey, pulse) /\ Rises(keys, NextKey, pulse) /\ Rises(injectorOut, LeastT0, pulse)
    BY <2>1 DEF MarksRise, Rises
  <2>6. SkewBoundedByMisses
    BY <2>1 DEF SkewBoundedByMisses
  <2> QED
    BY <2>1, <2>4, <2>5, <2>6 DEF InStep, KeysInStep, StartsInStep
<1> QED
  BY <1>1, InStepInductive, SkewInductive, TypedAlways, PTL DEF Spec
-----------------------------------------------------------------------------
(* The pixels that end a measurement.                                       *)

\* Neighbouring draws differ in colour; the pixel of before the first draw may
\* have the colour of odd ones.
LEMMA ColoursAlternate ==
    ASSUME NEW n \in Nat, n >= 1, NEW s \in Int, s <= n + 1,
           s >= n \/ (s = -1 /\ n = 1), Colour(s) = Colour(n + 1)
    PROVE  s = n + 1
<1>1. CASE s >= n
  BY <1>1 DEF Colour
<1>2. CASE s = -1 /\ n = 1
  BY <1>2 DEF Colour
<1> QED
  BY <1>1, <1>2

LEMMA FirstMatch ==
    ASSUME NEW s \in Int, s <= 1, s >= -1, Colour(s) = Colour(1)
    PROVE  s = -1 \/ s = 1
<1>1. s = -1 \/ s = 0 \/ s = 1
  OBVIOUS
<1> QED
  BY <1>1 DEF Colour
-----------------------------------------------------------------------------
(* The client shows draws in their order, and so do the probe's lines.      *)

LineSeen(line) == line.shown <= shown /\ line.shown <= line.stamp

Ordered ==
    /\ shown <= drawn
    /\ \A i \in 1..Len(lines) : LineSeen(lines[i])
    /\ \A i \in 1..Len(lines) : \A j \in 1..Len(lines) :
          i <= j => lines[i].shown <= lines[j].shown

LEMMA PixelNumbers ==
    ASSUME Typed
    PROVE  /\ drawn \in Nat /\ shown \in Int /\ lines \in Seq(Line) /\ Len(lines) \in Nat
           /\ \A i \in 1..Len(lines) : lines[i].shown \in Int /\ lines[i].stamp \in Nat
<1>1. drawn \in Nat /\ shown \in Int /\ lines \in Seq(Line) /\ Len(lines) \in Nat
  BY DEF Typed, Queues, Pixels
<1>2. \A i \in 1..Len(lines) : lines[i] \in Line
  BY <1>1
<1> QED
  BY <1>1, <1>2 DEF Line

LEMMA TakeLineKeepsOrder ==
    ASSUME Typed, Ordered, lines # <<>>, TakeLine
    PROVE  Ordered'
<1>1. lines' = Tail(lines) /\ shown' = shown /\ drawn' = drawn
  BY DEF TakeLine
<1>2. /\ Len(lines') = Len(lines) - 1 /\ Len(lines) >= 1
      /\ \A i \in 1..(Len(lines) - 1) : lines'[i] = lines[i + 1]
  BY <1>1, PixelNumbers, TailFacts
<1>3. \A i \in 1..Len(lines') : i + 1 \in 1..Len(lines) /\ lines'[i] = lines[i + 1]
  BY <1>2, PixelNumbers
<1>4. ASSUME NEW i \in 1..Len(lines') PROVE LineSeen(lines[i + 1])
  BY <1>3 DEF Ordered
<1>5. ASSUME NEW i \in 1..Len(lines'), NEW j \in 1..Len(lines'), i <= j
      PROVE  lines[i + 1].shown <= lines[j + 1].shown
  <2>1. i + 1 \in 1..Len(lines) /\ j + 1 \in 1..Len(lines) /\ i + 1 <= j + 1
    BY <1>3, <1>5
  <2> QED
    BY <2>1 DEF Ordered
<1> QED
  BY <1>1, <1>3, <1>4, <1>5 DEF Ordered, LineSeen

LEMMA AnswerKeepsOrder ==
    ASSUME Typed, Ordered, Answer
    PROVE  Ordered'
<1>1. PICK image \in BOOLEAN :
         lines' = Append(lines, [image |-> image, shown |-> shown, stamp |-> drawn])
  BY DEF Answer
<1> DEFINE line == [image |-> image, shown |-> shown, stamp |-> drawn]
<1>2. shown' = shown /\ drawn' = drawn
  BY DEF Answer
<1>3. line \in Line /\ line.shown = shown /\ line.stamp = drawn
  BY PixelNumbers DEF Line
<1>4. lines' = Append(lines, line)
  BY <1>1
<1> HIDE DEF line
<1>5. /\ Len(lines') = Len(lines) + 1 /\ lines'[Len(lines) + 1] = line
      /\ \A i \in 1..Len(lines) : lines'[i] = lines[i]
  BY <1>3, <1>4, PixelNumbers, AppendFacts
<1>6. \A i \in 1..Len(lines') : i \in 1..Len(lines) \/ (i = Len(lines) + 1 /\ lines'[i] = line)
  BY <1>5, PixelNumbers
<1>7. ASSUME NEW i \in 1..Len(lines')
      PROVE  /\ lines'[i].shown <= shown /\ lines'[i].shown <= lines'[i].stamp
             /\ lines'[i].shown \in Int
  <2>1. CASE i \in 1..Len(lines)
    BY <1>5, <2>1, PixelNumbers DEF Ordered, LineSeen
  <2>2. CASE lines'[i] = line
    BY <1>3, <2>2, PixelNumbers DEF Ordered
  <2> QED
    BY <1>6, <2>1, <2>2
<1>8. ASSUME NEW i \in 1..Len(lines'), NEW j \in 1..Len(lines'), i <= j
      PROVE  lines'[i].shown <= lines'[j].shown
  <2>1. CASE j \in 1..Len(lines)
    <3>1. i \in 1..Len(lines)
      BY <1>8, <2>1
    <3> QED
      BY <1>5, <1>8, <2>1, <3>1 DEF Ordered
  <2>2. CASE lines'[j] = line
    BY <1>3, <1>7, <2>2
  <2> QED
    BY <1>6, <2>1, <2>2
<1> QED
  BY <1>2, <1>7, <1>8 DEF Ordered, LineSeen

LEMMA OrderedInductive == Typed /\ Ordered /\ [Next]_vars => Ordered'
<1> SUFFICES ASSUME Typed, Ordered, [Next]_vars PROVE Ordered'
  OBVIOUS
<1>1. CASE Present
  <2>1. lines' = lines /\ drawn' = drawn /\ shown < shown' /\ shown' <= drawn /\ shown' \in Int
    BY <1>1, PixelNumbers DEF Present
  <2>2. ASSUME NEW i \in 1..Len(lines) PROVE lines[i].shown <= shown' /\ lines[i].shown <= lines[i].stamp
    BY <2>1, PixelNumbers DEF Ordered, LineSeen
  <2> QED
    BY <2>1, <2>2 DEF Ordered, LineSeen
<1>2. CASE Answer
  BY <1>2, AnswerKeepsOrder
<1>3. CASE LineDiffers \/ LineMatches
  BY <1>3, TakeLineKeepsOrder DEF LineDiffers, LineMatches
<1>4. CASE lines' = lines /\ shown' = shown /\ drawn' \in {drawn, drawn + 1}
  <2>1. shown' <= drawn'
    BY <1>4, PixelNumbers DEF Ordered
  <2> QED
    BY <1>4, <2>1 DEF Ordered, LineSeen
<1>5. \/ Present \/ Answer \/ LineDiffers \/ LineMatches
      \/ lines' = lines /\ shown' = shown /\ drawn' \in {drawn, drawn + 1}
  BY DEF Next, Helper, Inject, Draw, DrawFrame, ProbeStep, LoseKey, vars, probeVars, Driver,
     WriteFails, WritePulse, ReadT0, T0TimesOut, ReadT1, T1TimesOut, AskSample, Ask, LineTimesOut,
     ReturnTimesOut, Miss
<1> QED
  BY <1>1, <1>2, <1>3, <1>4, <1>5
-----------------------------------------------------------------------------
(* Before a miss, at most one draw is under way.                            *)

NoMiss == deliveryMisses = 0 /\ returnMisses = 0

Drawing ==
    /\ pc = "pulse" => drawn = pulse
    /\ pc \in {"t0", "t1"} => IF keyOut = <<>> THEN drawn = pulse
                                               ELSE drawn = pulse + 1 /\ Head(keyOut).draw = drawn
    /\ pc \in Asking => drawn = pulse + 1 /\ marker.draw = drawn

DrawnInTurn == NoMiss /\ pc \in Running => Drawing

LEMMA HelpersDrawInTurn ==
    ASSUME Typed, Bounded, DrawnInTurn, NoMiss, pc \in Running, Draw \/ DrawFrame
    PROVE  Drawing'
<1>1. /\ UNCHANGED <<pc, pulse, marker>>
      /\ drawn' = drawn + 1
      /\ \E n \in Nat : keyOut' = Append(keyOut, [key |-> n, draw |-> drawn + 1])
  <2>1. CASE Draw
    <3>1. Head(keys) \in Nat
      BY <2>1, Numbers, TailFacts DEF Draw
    <3> QED
      BY <2>1, <3>1 DEF Draw, driverVars
  <2>2. CASE DrawFrame
    BY <2>2, Numbers DEF DrawFrame, driverVars
  <2> QED
    BY <2>1, <2>2
<1>2. commands + Len(keys) >= 1
  <2>1. CASE Draw
    <3>1. Len(keys) >= 1
      BY <2>1, Numbers, TailFacts DEF Draw
    <3> QED
      BY <3>1, Numbers
  <2>2. CASE DrawFrame
    <3>1. commands > 0
      BY <2>2 DEF DrawFrame
    <3> QED
      BY <3>1, Numbers
  <2> QED
    BY <2>1, <2>2
<1>3. commands + Len(keys) + Len(keyOut) <= (IF pc \in {"t0", "t1"} THEN 1 ELSE 0)
  BY Numbers DEF Bounded, Outstanding, NoMiss, Running
<1>4. pc \in {"t0", "t1"} /\ Len(keyOut) = 0
  BY <1>2, <1>3, Numbers
<1>5. keyOut = <<>>
  BY <1>4, Numbers
<1>6. drawn = pulse /\ drawn' = pulse + 1
  BY <1>1, <1>4, <1>5 DEF DrawnInTurn, Drawing
<1>7. keyOut' # <<>> /\ Head(keyOut').draw = drawn'
  <2>1. PICK n \in Nat : keyOut' = Append(keyOut, [key |-> n, draw |-> drawn + 1])
    BY <1>1
  <2>2. keyOut' = <<[key |-> n, draw |-> drawn + 1]>>
    BY <1>5, <2>1
  <2> QED
    BY <1>1, <2>2
<1> QED
  BY <1>1, <1>4, <1>6, <1>7 DEF Drawing, Asking

\* A miss is never forgotten, and a run that goes on was going on.
LEMMA MissesStay ==
    ASSUME Typed, [Next]_vars, NoMiss'
    PROVE  NoMiss
<1>1. /\ deliveryMisses' \in {deliveryMisses, deliveryMisses + 1}
      /\ returnMisses' \in {returnMisses, returnMisses + 1}
  BY DEF Next, Helper, Inject, Draw, DrawFrame, ProbeStep, LoseKey, vars, resultVars, Driver,
     WriteFails, WritePulse, ReadT0, T0TimesOut, ReadT1, T1TimesOut, AskSample, LineTimesOut,
     LineDiffers, LineMatches, ReturnTimesOut, Miss
<1>2. deliveryMisses \in Nat /\ returnMisses \in Nat
  BY DEF Typed, Tallies
<1> QED
  BY <1>1, <1>2 DEF NoMiss

LEMMA BeforeNoMiss ==
    ASSUME Typed, [Next]_vars, NoMiss', pc' \in Running
    PROVE  NoMiss /\ pc \in Running
<1>1. pc \in Running
  BY DEF Next, Helper, Inject, Draw, DrawFrame, ProbeStep, LoseKey, vars, driverVars, Driver,
     WriteFails, WritePulse, ReadT0, T0TimesOut, ReadT1, T1TimesOut, AskSample, LineTimesOut,
     LineDiffers, LineMatches, ReturnTimesOut, Miss, Running
<1> QED
  BY <1>1, MissesStay

LEMMA DrawnInTurnInductive == Typed /\ Bounded /\ DrawnInTurn /\ [Next]_vars => DrawnInTurn'
<1> SUFFICES ASSUME Typed, Bounded, DrawnInTurn, [Next]_vars, NoMiss', pc' \in Running
             PROVE  Drawing'
  BY DEF DrawnInTurn
<1>n. NoMiss /\ pc \in Running
  BY BeforeNoMiss
<1>d. Drawing
  BY <1>n DEF DrawnInTurn
<1>1. CASE Draw \/ DrawFrame
  BY <1>1, <1>n, HelpersDrawInTurn
<1>2. CASE UNCHANGED <<drawn, pc, pulse, marker, keyOut>>
  BY <1>2, <1>d DEF Drawing
<1>3. CASE WritePulse
  <2>1. /\ UNCHANGED <<drawn, pulse, keyOut>> /\ pc = "pulse" /\ pc' \in {"t0", "t1"}
    BY <1>3 DEF WritePulse, probeVars, keyVars
  <2>2. Len(keyOut) = 0
    BY <1>n, <2>1, Numbers DEF Bounded, Outstanding, NoMiss
  <2>3. keyOut = <<>>
    BY <2>2, Numbers
  <2> QED
    BY <1>d, <2>1, <2>3 DEF Drawing, Asking
<1>4. CASE ReadT0
  <2>1. UNCHANGED <<drawn, pulse, keyOut>> /\ pc = "t0" /\ pc' = "t1"
    BY <1>4 DEF ReadT0, probeVars, keyVars
  <2> QED
    BY <1>d, <2>1 DEF Drawing, Asking
<1>5. CASE ReadT1
  <2>1. /\ UNCHANGED <<drawn, pulse>> /\ pc = "t1" /\ pc' = "ask" /\ keyOut # <<>>
        /\ marker' = Head(keyOut)
    BY <1>5 DEF ReadT1
  <2> QED
    BY <1>d, <2>1 DEF Drawing, Asking
<1>6. CASE AskSample \/ LineTimesOut \/ LineDiffers
  <2>1. UNCHANGED <<drawn, pulse, marker>> /\ pc \in Asking /\ pc' \in Asking
    BY <1>6 DEF AskSample, Ask, LineTimesOut, LineDiffers, TakeLine, probeVars, Asking
  <2> QED
    BY <1>d, <2>1 DEF Drawing, Asking
<1>7. CASE LineMatches
  <2>1. drawn' = drawn /\ pulse' = pulse + 1 /\ pc \in Asking /\ pc' \in {"pulse", "done"}
    BY <1>7 DEF LineMatches, TakeLine, NextPulse, Asking
  <2> QED
    BY <1>d, <2>1 DEF Drawing, Asking, Running
<1>8. CASE T0TimesOut \/ T1TimesOut \/ ReturnTimesOut \/ WriteFails
  <2>1. CASE Fail
    BY <2>1 DEF Fail, Running
  <2>2. CASE deliveryMisses' = deliveryMisses + 1 \/ returnMisses' = returnMisses + 1
    BY <1>n, <2>2 DEF NoMiss
  <2> QED
    BY <1>8, <2>1, <2>2 DEF T0TimesOut, T1TimesOut, ReturnTimesOut, WriteFails, Miss
<1>9. CASE Inject \/ LoseKey \/ ProbeStep \/ UNCHANGED vars
  BY <1>2, <1>9 DEF Inject, LoseKey, ProbeStep, Present, Answer, vars, probeVars, driverVars, keyVars
<1> QED
  BY <1>1, <1>3, <1>4, <1>5, <1>6, <1>7, <1>8, <1>9 DEF Next, Driver, Helper
-----------------------------------------------------------------------------
(* What can still be seen before a miss.                                    *)

\* The draws the next lines can report.
Seen == {shown} \cup {lines[i].shown : i \in 1..Len(lines)}

\* Once event pulse - 1 has been seen, nothing older is; the pixel of before the
\* first draw may have ended the warm-up, and then be seen in the next wait.
Floor ==
    \A s \in Seen : IF pulse = 0 THEN s >= -1 ELSE s >= pulse \/ (s = -1 /\ pulse = 1)

\* The first pixel has one colour.
OneStart == pulse = 0 => 0 \notin Seen \/ -1 \notin Seen

Recent == NoMiss /\ pc \in Running => Floor /\ OneStart

LEMMA SeenNumbers ==
    ASSUME Typed, Ordered
    PROVE  \A s \in Seen : s \in Int /\ s <= drawn
<1>1. ASSUME NEW i \in 1..Len(lines) PROVE lines[i].shown \in Int /\ lines[i].shown <= drawn
  <2>1. lines[i].shown \in Int /\ lines[i].shown <= shown /\ shown <= drawn
    BY PixelNumbers DEF Ordered, LineSeen
  <2> QED
    BY <2>1, PixelNumbers
<1>2. shown \in Int /\ shown <= drawn
  BY PixelNumbers DEF Ordered
<1> QED
  BY <1>1, <1>2 DEF Seen

\* What a wait leaves to the next one is not older than the line that ended it.
LEMMA SeenAfterLine ==
    ASSUME Typed, Ordered, lines # <<>>, TakeLine
    PROVE  /\ Head(lines).shown \in Seen /\ Seen' \subseteq Seen
           /\ \A s \in Seen' : Head(lines).shown <= s
           /\ Head(lines).shown <= Head(lines).stamp
<1>1. lines' = Tail(lines) /\ shown' = shown
  BY DEF TakeLine
<1>2. /\ Len(lines') = Len(lines) - 1 /\ Len(lines) >= 1 /\ Head(lines) = lines[1]
      /\ \A i \in 1..(Len(lines) - 1) : lines'[i] = lines[i + 1]
  BY <1>1, PixelNumbers, TailFacts
<1>3. 1 \in 1..Len(lines)
  BY <1>2, PixelNumbers
<1>4. \A i \in 1..Len(lines') : i + 1 \in 1..Len(lines) /\ lines'[i] = lines[i + 1] /\ 1 <= i + 1
  BY <1>2, PixelNumbers
<1>5. lines[1].shown <= shown /\ lines[1].shown <= lines[1].stamp
  BY <1>3 DEF Ordered, LineSeen
<1>6. ASSUME NEW i \in 1..Len(lines')
      PROVE  lines'[i].shown \in Seen /\ lines[1].shown <= lines'[i].shown
  <2>1. i + 1 \in 1..Len(lines) /\ lines'[i] = lines[i + 1] /\ 1 <= i + 1
    BY <1>4
  <2>2. lines[1].shown <= lines[i + 1].shown
    BY <1>3, <2>1 DEF Ordered
  <2>3. lines[i + 1].shown \in Seen
    BY <2>1 DEF Seen
  <2> QED
    BY <2>1, <2>2, <2>3
<1>7. Seen' = {shown'} \cup {lines'[i].shown : i \in 1..Len(lines')}
  BY DEF Seen
<1>8. lines[1].shown \in Seen /\ shown \in Seen
  BY <1>3 DEF Seen
<1> QED
  BY <1>1, <1>2, <1>5, <1>6, <1>7, <1>8

\* A line that matches in a measured wait shows the marker itself.
LEMMA MatchIsMarker ==
    ASSUME Typed, Ordered, NoMiss, pc \in Asking, Drawing, Floor, pulse >= 1,
           NEW s \in Seen, Colour(s) = Colour(marker.draw)
    PROVE  s = marker.draw /\ s = pulse + 1
<1>1. pulse \in Nat /\ marker.draw = pulse + 1 /\ drawn = pulse + 1
  BY Numbers DEF Drawing
<1>2. s \in Int /\ s <= pulse + 1
  BY <1>1, SeenNumbers
<1>3. s >= pulse \/ (s = -1 /\ pulse = 1)
  BY <1>1 DEF Floor
<1> QED
  BY <1>1, <1>2, <1>3, ColoursAlternate

LEMMA MatchKeepsRecent ==
    ASSUME Typed, Ordered, NoMiss, Drawing, Floor, OneStart, LineMatches
    PROVE  Floor' /\ OneStart'
<1> DEFINE head == Head(lines).shown
<1>1. lines # <<>> /\ TakeLine /\ pc \in Asking /\ pulse' = pulse + 1
  BY DEF LineMatches, NextPulse, Asking
<1>2. Colour(head) = Colour(marker.draw)
  BY DEF LineMatches, Matches
<1>3. /\ head \in Seen /\ Seen' \subseteq Seen /\ \A s \in Seen' : head <= s
  BY <1>1, SeenAfterLine
<1>4. pulse \in Nat /\ pulse' \in Nat /\ pulse' # 0
  BY <1>1, Numbers
<1>5. OneStart'
  BY <1>4 DEF OneStart
<1> HIDE DEF head
<1>6. ASSUME NEW s \in Seen' PROVE s >= pulse' \/ (s = -1 /\ pulse' = 1)
  <2>1. s \in Seen /\ s \in Int /\ head \in Int /\ head <= s
    BY <1>3, SeenNumbers
  <2>2. CASE pulse >= 1
    <3>1. head = pulse + 1
      BY <1>1, <1>2, <1>3, <2>2, MatchIsMarker
    <3> QED
      BY <1>1, <1>4, <2>1, <3>1
  <2>3. CASE pulse = 0
    <3>1. marker.draw = 1 /\ drawn = 1
      BY <1>1, <2>3 DEF Drawing
    <3>2. head <= 1 /\ head >= -1 /\ s >= -1
      BY <1>3, <2>1, <2>3, <3>1, SeenNumbers DEF Floor
    <3>3. head = -1 \/ head = 1
      BY <1>2, <2>1, <3>1, <3>2, FirstMatch
    <3>4. CASE head = -1
      <4>1. s # 0
        BY <1>3, <2>1, <2>3, <3>4 DEF OneStart
      <4> QED
        BY <1>1, <2>1, <2>3, <3>2, <4>1
    <3>5. CASE head = 1
      BY <1>1, <2>1, <2>3, <3>5
    <3> QED
      BY <3>3, <3>4, <3>5
  <2> QED
    BY <1>4, <2>2, <2>3
<1> QED
  BY <1>4, <1>5, <1>6 DEF Floor

LEMMA RecentInductive == Typed /\ Ordered /\ DrawnInTurn /\ Recent /\ [Next]_vars => Recent'
<1> SUFFICES ASSUME Typed, Ordered, DrawnInTurn, Recent, [Next]_vars, NoMiss', pc' \in Running
             PROVE  Floor' /\ OneStart'
  BY DEF Recent
<1>n. NoMiss /\ pc \in Running
  BY BeforeNoMiss
<1>d. Drawing /\ Floor /\ OneStart
  BY <1>n DEF DrawnInTurn, Recent
<1>p. drawn \in Nat /\ pulse \in Nat /\ shown \in Int
  BY Numbers, PixelNumbers
<1>1. CASE Present /\ pulse' = pulse
  <2>1. PICK draw \in 1..drawn : draw > shown /\ shown' = draw
    BY <1>1 DEF Present
  <2>2. lines' = lines /\ shown \in Seen
    BY <1>1 DEF Present, Seen
  <2>3. pulse' = pulse
    BY <1>1
  <2>4. Seen' \subseteq Seen \cup {shown'}
    BY <2>2 DEF Seen
  <2>5. shown' \in Int /\ shown' >= 1 /\ shown' > shown
    BY <1>p, <2>1
  <2>6. pulse >= 1 => shown' >= pulse
    BY <1>d, <1>p, <2>2, <2>5 DEF Floor
  <2>7. Floor'
    BY <1>d, <1>p, <2>3, <2>4, <2>5, <2>6 DEF Floor
  <2>8. OneStart'
    BY <1>d, <2>3, <2>4, <2>5 DEF OneStart
  <2> QED
    BY <2>7, <2>8
<1>2. CASE LineMatches
  BY <1>2, <1>d, <1>n, MatchKeepsRecent
<1>3. CASE Seen' \subseteq Seen /\ pulse' = pulse
  BY <1>3, <1>d DEF Floor, OneStart
<1>4. CASE UNCHANGED <<shown, lines, pulse>>
  <2>1. Seen' = Seen
    BY <1>4 DEF Seen
  <2> QED
    BY <1>3, <1>4, <2>1
<1>5. CASE Answer /\ pulse' = pulse
  <2>1. PICK image \in BOOLEAN :
           lines' = Append(lines, [image |-> image, shown |-> shown, stamp |-> drawn])
    BY <1>5 DEF Answer
  <2> DEFINE line == [image |-> image, shown |-> shown, stamp |-> drawn]
  <2>2. line \in Line /\ line.shown = shown /\ lines' = Append(lines, line)
    BY <2>1, PixelNumbers DEF Line
  <2> HIDE DEF line
  <2>3. /\ Len(lines') = Len(lines) + 1 /\ lines'[Len(lines) + 1] = line
        /\ \A i \in 1..Len(lines) : lines'[i] = lines[i]
    BY <2>2, PixelNumbers, AppendFacts
  <2>4. \A i \in 1..Len(lines') : i \in 1..Len(lines) \/ lines'[i] = line
    BY <2>3, PixelNumbers
  <2>5. ASSUME NEW i \in 1..Len(lines') PROVE lines'[i].shown \in Seen
    BY <2>2, <2>3, <2>4 DEF Seen
  <2>6. shown' = shown
    BY <1>5 DEF Answer
  <2>7. Seen' \subseteq Seen
    BY <2>5, <2>6 DEF Seen
  <2> QED
    BY <1>3, <1>5, <2>7
<1>6. CASE LineDiffers
  <2>1. Seen' \subseteq Seen /\ pulse' = pulse
    BY <1>6, SeenAfterLine DEF LineDiffers
  <2> QED
    BY <1>3, <2>1
<1>7. CASE T0TimesOut \/ T1TimesOut \/ ReturnTimesOut \/ WriteFails
  <2>1. CASE Fail
    BY <2>1 DEF Fail, Running
  <2>2. CASE deliveryMisses' = deliveryMisses + 1 \/ returnMisses' = returnMisses + 1
    BY <1>n, <2>2 DEF NoMiss
  <2> QED
    BY <1>7, <2>1, <2>2 DEF T0TimesOut, T1TimesOut, ReturnTimesOut, WriteFails, Miss
<1>8. CASE \/ Inject \/ Draw \/ DrawFrame \/ LoseKey \/ UNCHANGED vars
           \/ WritePulse \/ ReadT0 \/ ReadT1 \/ AskSample \/ LineTimesOut
  BY <1>4, <1>8 DEF Inject, Draw, DrawFrame, LoseKey, vars, probeVars, driverVars,
     WritePulse, ReadT0, ReadT1, AskSample, Ask, LineTimesOut
<1>9. CASE ProbeStep
  BY <1>1, <1>5, <1>9 DEF ProbeStep, driverVars
<1> QED
  BY <1>2, <1>6, <1>7, <1>8, <1>9 DEF Next, Driver, Helper

\* Whatever the helpers have left in the probe's pipe, the line that ends a
\* measurement shows its marker and was taken after the marker was drawn, for any
\* number of samples and polls.
THEOREM FreshCorrect == Spec => []FreshUntilAMiss
<1> DEFINE Inv == Ordered /\ DrawnInTurn /\ Recent /\ FreshUntilAMiss
<1>1. ASSUME Init PROVE Inv
  <2>1. /\ pc = "pulse" /\ pulse = 0 /\ drawn = 0 /\ shown \in {0, -1} /\ lines = <<>>
        /\ returned = [draw |-> 0, shown |-> 0, stamp |-> 0]
    BY <1>1 DEF Init, ProbeInit
  <2>2. Seen = {shown}
    BY <2>1 DEF Seen
  <2>3. Ordered
    BY <2>1 DEF Ordered
  <2>4. Recent
    BY <2>1, <2>2 DEF Recent, Floor, OneStart
  <2>5. DrawnInTurn /\ FreshUntilAMiss
    BY <2>1 DEF DrawnInTurn, Drawing, FreshUntilAMiss, Asking
  <2> QED
    BY <2>3, <2>4, <2>5
<1>2. Typed /\ Ordered /\ DrawnInTurn /\ Recent /\ FreshUntilAMiss /\ [Next]_vars => FreshUntilAMiss'
  <2> SUFFICES ASSUME Typed, Ordered, DrawnInTurn, Recent, FreshUntilAMiss, [Next]_vars, NoMiss'
               PROVE  returned'.shown = returned'.draw /\ returned'.stamp >= returned'.draw
    BY DEF FreshUntilAMiss, NoMiss
  <2>1. NoMiss
    BY MissesStay
  <2>2. CASE returned' = returned
    BY <2>1, <2>2 DEF FreshUntilAMiss, NoMiss
  <2>3. CASE LineMatches /\ pulse # 0
    <3>1. pc \in Asking /\ lines # <<>> /\ TakeLine /\ Colour(Head(lines).shown) = Colour(marker.draw)
      BY <2>3 DEF LineMatches, Matches, Asking
    <3>2. Drawing /\ Floor
      BY <2>1, <3>1 DEF DrawnInTurn, Recent, Asking, Running
    <3>3. pulse >= 1 /\ pulse \in Nat
      BY <2>3, Numbers
    <3>4. Head(lines).shown \in Seen /\ Head(lines).shown <= Head(lines).stamp
      BY <3>1, SeenAfterLine
    <3>5. Head(lines).shown = marker.draw
      BY <2>1, <3>1, <3>2, <3>3, <3>4, MatchIsMarker
    <3>6. returned' = [draw |-> marker.draw, shown |-> Head(lines).shown, stamp |-> Head(lines).stamp]
      BY <2>3 DEF LineMatches, WarmUp
    <3>7. marker.draw \in Int /\ Head(lines).stamp \in Int
      <4>1. Head(lines) \in Line
        BY <3>1, PixelNumbers, TailFacts
      <4>2. marker.draw = pulse + 1
        BY <3>1, <3>2 DEF Drawing
      <4> QED
        BY <3>3, <4>1, <4>2 DEF Line
    <3> QED
      BY <3>4, <3>5, <3>6, <3>7
  <2>4. returned' = returned \/ (LineMatches /\ pulse # 0)
    BY DEF Next, Helper, Inject, Draw, DrawFrame, ProbeStep, LoseKey, vars, resultVars, Driver,
       WriteFails, WritePulse, ReadT0, T0TimesOut, ReadT1, T1TimesOut, AskSample, LineTimesOut,
       LineDiffers, LineMatches, ReturnTimesOut, Miss, WarmUp
  <2> QED
    BY <2>2, <2>3, <2>4
<1>3. Typed /\ Bounded /\ Inv /\ [Next]_vars => Inv'
  BY <1>2, OrderedInductive, DrawnInTurnInductive, RecentInductive
<1>4. Init => Bounded
  BY DEF Init, Bounded, Outstanding
<1>5. Inv => FreshUntilAMiss
  OBVIOUS
<1> QED
  BY <1>1, <1>3, <1>4, <1>5, BoundedInductive, TypedAlways, PTL DEF Spec
=============================================================================
