---------------------------- MODULE Measurement ----------------------------
(***************************************************************************)
(* The two measurement loops of src/src/python/xrdp_vnc_bench.py.  In       *)
(* run_input_roundtrip() the driver asks the key injector for a key press,  *)
(* reads T0 from it, reads the physical stimulus's line for the key press   *)
(* that arrived (T1 and the marker drawn), then polls the client's pixels   *)
(* for the marker.  In the graphics mode of run_case() it asks the GPU      *)
(* stimulus for a frame, reads its line, then polls.  Every read has a      *)
(* timeout, and what comes after it stays in its pipe for the next read.    *)
(*                                                                          *)
(* Events, key presses or frames, are numbered in the order the driver asks *)
(* for them; number 0 is the unmeasured warm-up.                            *)
(***************************************************************************)
EXTENDS MarkerProbe

CONSTANTS
    Modes,      \* values of --mode
    Samples     \* measured events: duration * input_hz, or duration * fps

ASSUME ModesAreKnown == Modes \subseteq {"graphics", "input-roundtrip"}
ASSUME SamplesAreNat == Samples \in Nat

VARIABLES
    mode,           \* args.mode
    pc,             \* where the driver is
    pulse,          \* the iteration: the number of the event asked for
    t0,             \* the key press whose T0 the driver read in this iteration
    marker,         \* the physical line it read: the event and its draw
    commands,       \* "pulse" or "frame" commands no helper has read
    injected,       \* events a helper has started
    injectorOut,    \* T0 lines in the injector's pipe
    keys,           \* key presses on their way to the physical display
    keyOut,         \* lines in the physical stimulus's pipe
    deliveryMisses, \* events that produced no line in time
    returnMisses,   \* markers that did not come back; graphics counts both in one
    deliveries,     \* len(input_delivery_ms), or len(render_ns)
    returns,        \* len(return_graphics_ms), or len(latencies)
    paired,         \* history: the key press of T0, or the frame asked for, and
                    \* the event of the line, of the last delivery recorded
    returned        \* history: marker and probe line of the last return recorded

driverVars == <<mode, pc, pulse, t0, marker>>
injectorVars == <<commands, injected, injectorOut>>
keyVars == <<keys, keyOut>>
resultVars == <<deliveryMisses, returnMisses, deliveries, returns, paired, returned>>
vars == <<probeVars, driverVars, injectorVars, keyVars, resultVars>>

Mark == [key : Nat, draw : Nat]
NoMark == [key |-> 0, draw |-> 0]

TypeOK ==
    /\ ProbeTypeOK
    /\ mode \in Modes
    /\ pc \in {"pulse", "t0", "t1", "ask", "line", "done", "failed"}
    /\ pulse \in 0..(Samples + 1)
    /\ t0 \in Nat
    /\ marker \in Mark
    /\ commands \in Nat /\ injected \in Nat
    /\ injectorOut \in Seq(Nat)
    /\ keys \in Seq(Nat)
    /\ keyOut \in Seq(Mark)
    /\ deliveryMisses \in Nat /\ returnMisses \in Nat
    /\ deliveries \in Nat /\ returns \in Nat
    /\ paired \in [t0 : Nat, key : Nat]
    /\ returned \in [draw : Nat, shown : Int, stamp : Nat]

Init ==
    /\ ProbeInit
    /\ mode \in Modes
    /\ pc = "pulse" /\ pulse = 0 /\ t0 = 0 /\ marker = NoMark
    /\ commands = 0 /\ injected = 0 /\ injectorOut = <<>>
    /\ keys = <<>> /\ keyOut = <<>>
    /\ deliveryMisses = 0 /\ returnMisses = 0
    /\ deliveries = 0 /\ returns = 0
    /\ paired = [t0 |-> 0, key |-> 0]
    /\ returned = [draw |-> 0, shown |-> 0, stamp |-> 0]
-----------------------------------------------------------------------------
(* The helpers, and the path between them.                                  *)

\* x11_xtest_key.c: T0 is taken, the key is sent, then T0 is printed.
Inject ==
    /\ mode = "input-roundtrip"
    /\ commands > 0
    /\ commands' = commands - 1
    /\ injected' = injected + 1
    /\ keys' = Append(keys, injected)
    /\ injectorOut' = Append(injectorOut, injected)
    /\ UNCHANGED <<probeVars, driverVars, keyOut, resultVars>>

\* A key that never reaches the physical display: a lost focus, for example.
LoseKey ==
    /\ keys # <<>>
    /\ keys' = Tail(keys)
    /\ UNCHANGED <<probeVars, driverVars, injectorVars, keyOut, resultVars>>

\* x11vnc_latency_stimulus.c --key: T1_event, the marker in the other colour,
\* XSync(), T1_draw_done, then the line.
Draw ==
    /\ keys # <<>>
    /\ keys' = Tail(keys)
    /\ drawn' = drawn + 1
    /\ keyOut' = Append(keyOut, [key |-> Head(keys), draw |-> drawn + 1])
    /\ UNCHANGED <<shown, requests, lines, polls, driverVars, injectorVars, resultVars>>

\* x11vnc_gpu_stimulus.c: one frame in the other colour, then its line.
DrawFrame ==
    /\ mode = "graphics"
    /\ commands > 0
    /\ commands' = commands - 1
    /\ injected' = injected + 1
    /\ drawn' = drawn + 1
    /\ keyOut' = Append(keyOut, [key |-> injected, draw |-> drawn + 1])
    /\ UNCHANGED <<shown, requests, lines, polls, driverVars, injectorOut, keys, resultVars>>

ProbeStep ==
    /\ Present \/ Answer
    /\ UNCHANGED <<driverVars, injectorVars, keyVars, resultVars>>

Helper == Inject \/ Draw \/ DrawFrame \/ ProbeStep
-----------------------------------------------------------------------------
(* The driver.                                                              *)

\* Mutant: the warm-up is measured as well.
NeverWarmUp == FALSE

\* The event that only establishes a known marker.
WarmUp == pulse = 0

\* Mutant: one sample too many.
NextPulseTooFar ==
    /\ pulse' = pulse + 1
    /\ pc' = IF pulse <= Samples THEN "pulse" ELSE "done"
    /\ UNCHANGED <<mode, t0, marker>>

\* The next iteration of the sample loop, or the report after the last.
NextPulse ==
    /\ pulse' = pulse + 1
    /\ pc' = IF pulse < Samples THEN "pulse" ELSE "done"
    /\ UNCHANGED <<mode, t0, marker>>

\* A warm-up that does not come back raises RuntimeError.
Fail == pc' = "failed" /\ UNCHANGED <<mode, pulse, t0, marker>>

WritePulse ==
    /\ pc = "pulse"
    /\ commands' = commands + 1
    /\ pc' = IF mode = "graphics" THEN "t1" ELSE "t0"
    /\ UNCHANGED <<probeVars, mode, pulse, t0, marker, injected, injectorOut, keyVars, resultVars>>

ReadT0 ==
    /\ pc = "t0"
    /\ injectorOut # <<>>
    /\ t0' = Head(injectorOut)
    /\ injectorOut' = Tail(injectorOut)
    /\ pc' = "t1"
    /\ UNCHANGED <<probeVars, mode, pulse, marker, commands, injected, keyVars, resultVars>>

\* Mutants: a miss is not counted; the event is asked for again.
MissUncounted ==
    /\ NextPulse
    /\ UNCHANGED <<probeVars, injectorVars, keyVars, resultVars>>
MissRetried ==
    /\ pc' = "pulse"
    /\ UNCHANGED <<probeVars, mode, pulse, t0, marker, injectorVars, keyVars, resultVars>>

\* A read that times out leaves the line it waited for to a later read.
Miss ==
    /\ IF WarmUp
       THEN Fail /\ UNCHANGED deliveryMisses
       ELSE NextPulse /\ deliveryMisses' = deliveryMisses + 1
    /\ UNCHANGED <<probeVars, injectorVars, keyVars, returnMisses, deliveries,
                   returns, paired, returned>>

T0TimesOut == pc = "t0" /\ injectorOut = <<>> /\ Miss

T1TimesOut == pc = "t1" /\ keyOut = <<>> /\ Miss

\* The line is parsed, and the delivery or render time recorded when measured.
ReadT1 ==
    /\ pc = "t1"
    /\ keyOut # <<>>
    /\ marker' = Head(keyOut)
    /\ keyOut' = Tail(keyOut)
    /\ IF WarmUp
       THEN UNCHANGED <<deliveries, paired>>
       ELSE /\ deliveries' = deliveries + 1
            /\ paired' = [t0 |-> IF mode = "graphics" THEN pulse ELSE t0,
                          key |-> Head(keyOut).key]
    /\ polls' = 0
    /\ pc' = "ask"
    /\ UNCHANGED <<drawn, shown, requests, lines, mode, pulse, t0, injectorVars, keys,
                   deliveryMisses, returnMisses, returns, returned>>

\* The body of wait_marker()'s loop: "sample", then one line, or none in time.
AskSample ==
    /\ pc = "ask"
    /\ Ask
    /\ pc' = "line"
    /\ UNCHANGED <<mode, pulse, t0, marker, injectorVars, keyVars, resultVars>>

LineTimesOut ==
    /\ pc = "line"
    /\ lines = <<>>
    /\ pc' = "ask"
    /\ UNCHANGED <<probeVars, mode, pulse, t0, marker, injectorVars, keyVars, resultVars>>

LineDiffers ==
    /\ pc = "line"
    /\ lines # <<>>
    /\ ~ Matches(Head(lines), marker.draw)
    /\ TakeLine
    /\ pc' = "ask"
    /\ UNCHANGED <<polls, mode, pulse, t0, marker, injectorVars, keyVars, resultVars>>

LineMatches ==
    /\ pc = "line"
    /\ lines # <<>>
    /\ Matches(Head(lines), marker.draw)
    /\ TakeLine
    /\ IF WarmUp
       THEN UNCHANGED <<returns, returned>>
       ELSE /\ returns' = returns + 1
            /\ returned' = [draw |-> marker.draw, shown |-> Head(lines).shown,
                            stamp |-> Head(lines).stamp]
    /\ NextPulse
    /\ UNCHANGED <<polls, injectorVars, keyVars, deliveryMisses, returnMisses,
                   deliveries, paired>>

\* The deadline of wait_marker() passes.
ReturnTimesOut ==
    /\ pc = "ask"
    /\ IF WarmUp
       THEN Fail /\ UNCHANGED returnMisses
       ELSE NextPulse /\ returnMisses' = returnMisses + 1
    /\ UNCHANGED <<probeVars, injectorVars, keyVars, deliveryMisses, deliveries,
                   returns, paired, returned>>

\* A write to a helper that has died raises BrokenPipeError and ends the run.
WriteFails ==
    /\ pc \in {"pulse", "ask"}
    /\ Fail
    /\ UNCHANGED <<probeVars, injectorVars, keyVars, resultVars>>

Driver ==
    \/ WriteFails \/ WritePulse \/ ReadT0 \/ T0TimesOut \/ ReadT1 \/ T1TimesOut
    \/ AskSample \/ LineTimesOut \/ LineDiffers \/ LineMatches \/ ReturnTimesOut

Next == Driver \/ Helper \/ LoseKey

\* Every read of the driver returns: with a line, or when its timeout expires.
Spec == Init /\ [][Next]_vars /\ WF_vars(Driver)
-----------------------------------------------------------------------------
(* Properties.                                                              *)

\* Until an event is missed, T0 and T1 of a delivery are those of one key press,
\* and a frame's line is that of the frame asked for, however late the helpers'
\* lines are.  After misses the pipes may be out of step, by no more events than
\* were missed: a late helper makes the loop read lines of earlier events for ever
\* after.
SkewBoundedByMisses ==
    /\ paired.t0 <= paired.key + deliveryMisses
    /\ paired.key <= paired.t0 + deliveryMisses

\* Until an event is missed, the pixels that end a measurement are those of the
\* marker measured, taken after it was drawn: the warm-up has shown a known
\* marker and the colour changes with each event ("so the first measured toggle
\* cannot match a stale initial pixel", xrdp_vnc_bench.py:1268).  Probe lines left over
\* from an earlier wait do not break this.
FreshUntilAMiss ==
    (deliveryMisses = 0 /\ returnMisses = 0) =>
        /\ returned.shown = returned.draw
        /\ returned.stamp >= returned.draw

\* docs/measurement-model.md: no event is injected until the previous one has
\* completed or timed out.  Whatever is still on its way through commands, pipes
\* and network was given up by an earlier iteration.
AtMostOneOutstanding ==
    commands + Len(keys) + Len(keyOut) <= deliveryMisses + 1

\* The report accounts for every sample once.
EverySampleCounted ==
    pc = "done" =>
        /\ deliveries + deliveryMisses = Samples
        /\ returns + returnMisses = deliveries

\* A run ends, whatever the helpers do.
RunEnds == <>(pc \in {"done", "failed"})

\* docs/measurement-model.md: T1_event belongs to the key press T0 belongs to.
CorrespondingKeyPress == paired.t0 = paired.key
=============================================================================
