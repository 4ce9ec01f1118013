---------------------------- MODULE MarkerProbe ----------------------------
(***************************************************************************)
(* What the two measurement loops of xrdp_vnc_bench.py share: the marker    *)
(* drawn on the physical display, the copy of it the RDP client shows, the  *)
(* pixel-probe process (src/src/c/x11_pixel_probe.c) and the pipe it answers*)
(* on, and the polling of wait_marker().                                    *)
(*                                                                          *)
(* Draws are numbered; the marker alternates between two colours, so a      *)
(* draw's colour is its parity.  Time is logical: a time stamp is the       *)
(* number of draws completed when it was taken.                             *)
(***************************************************************************)
EXTENDS Integers, Sequences

CONSTANT MaxPolls       \* bound: samples asked for in one wait_marker()

ASSUME PollsArePositive == MaxPolls \in Nat \ {0}

VARIABLES
    drawn,      \* draws completed on the physical display
    shown,      \* the draw visible in the RDP client's output
    requests,   \* "sample" commands the probe has not answered
    lines,      \* answers in the probe's pipe, oldest first
    polls       \* samples asked for by the wait_marker() in progress

probeVars == <<drawn, shown, requests, lines, polls>>

Colour(draw) == draw % 2

\* Mutant: red and blue are swapped.
MatchesOther(line, draw) == line.image /\ Colour(line.shown) # Colour(draw)

\* marker_rgb_matches(): the line shows the colour the draw has.
Matches(line, draw) == line.image /\ Colour(line.shown) = Colour(draw)

Line == [image : BOOLEAN, shown : Int, stamp : Nat]

ProbeTypeOK ==
    /\ drawn \in Nat
    /\ shown \in Int
    /\ requests \in Nat
    /\ lines \in Seq(Line)
    /\ polls \in 0..MaxPolls

\* Before the first draw the client's pixel may happen to have either colour.
ProbeInit ==
    /\ drawn = 0
    /\ shown \in {0, -1}
    /\ requests = 0
    /\ lines = <<>>
    /\ polls = 0

\* A newer state of the display reaches the client; updates may be merged.
Present ==
    /\ \E draw \in 1..drawn : draw > shown /\ shown' = draw
    /\ UNCHANGED <<drawn, requests, lines, polls>>

\* The probe answers one command: XGetImage(), then the time stamp; an image
\* that cannot be read is answered with IMAGE_FAILED.
Answer ==
    /\ requests > 0
    /\ requests' = requests - 1
    /\ \E image \in BOOLEAN :
          lines' = Append(lines,
                          [image |-> image, shown |-> shown, stamp |-> drawn])
    /\ UNCHANGED <<drawn, shown, polls>>

\* Mutant: no deadline is kept.
AskForEver == requests' = requests + 1 /\ UNCHANGED <<drawn, shown, lines, polls>>

\* wait_marker() writes "sample"; the driver then waits for one line.
Ask ==
    /\ polls < MaxPolls
    /\ polls' = polls + 1
    /\ requests' = requests + 1
    /\ UNCHANGED <<drawn, shown, lines>>

\* The line read is the oldest in the pipe, which need not be the answer to
\* the command just written.
TakeLine == lines' = Tail(lines) /\ UNCHANGED <<drawn, shown, requests>>
=============================================================================
