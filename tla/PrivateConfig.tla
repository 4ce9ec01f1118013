--------------------------- MODULE PrivateConfig ---------------------------
(***************************************************************************)
(* rewrite_xrdp_config() and remove_chansrv_from_config() of                *)
(* src/src/python/xrdp_vnc_bench.py: the installed xrdp.ini becomes the     *)
(* configuration of a private xrdp.  The file is edited line by line and    *)
(* then three times again by positions, and what one edit puts in the next  *)
(* may take out.  A line is a record of its kind, its name in lower case,   *)
(* whether it is written so, and its value.                                 *)
(***************************************************************************)
EXTENDS Naturals, SequencesExt

CONSTANTS
    Sources         \* installed configurations: sequences of lines

VARIABLES
    options,    \* what the command line asks for; never changes
    source,     \* the installed file; never changes
    pc,         \* the part about to run
    rest,       \* lines not read yet
    section,    \* the section of the line to be read
    output,     \* lines of the private file
    seen,       \* places replaced
    target      \* the file written, empty before

vars == <<options, source, pc, rest, section, output, seen, target>>

Line == [kind : {"header", "key", "comment"}, name : STRING, lower : BOOLEAN, value : STRING]
Header(s) == [kind |-> "header", name |-> s, lower |-> FALSE, value |-> ""]
Key(k, v) == [kind |-> "key", name |-> k, lower |-> TRUE, value |-> v]

ASSUME SourcesAreLines == Sources \subseteq Seq(Line)

\* Asking for GFX and against it is refused with the command line.
Option == [gfx : {"as is", "enable", "disable"}, resizing : {"as is", "disable"},
           compression : {"as is", "true"}, chansrv : BOOLEAN]

Init ==
    /\ options \in Option
    /\ source \in Sources
    /\ pc = "lines"
    /\ rest = source
    /\ section = "" /\ output = <<>> /\ seen = {} /\ target = <<>>
-----------------------------------------------------------------------------
(* The table of replacements: one place stands for all whose new value is   *)
(* the private one whatever the options.                                    *)

Drdynvc == IF options.gfx = "disable" THEN "false" ELSE "true"

Always == {<<"Globals", "port">>, <<"Channels", "drdynvc">>,
           <<"Console", "chansrvport">>, <<"Console", "channel.drdynvc">>}
Required == Always \cup IF options.compression = "as is" THEN {}
                        ELSE {<<"Globals", "bitmap_compression">>}

\* Mutant: only the Console's override knows of the option.
ReplacementsConsoleOnly ==
    [place \in Required |->
        CASE place[2] \in {"port", "chansrvport"} -> "private"
          [] place[2] = "drdynvc" -> "true"
          [] place[2] = "channel.drdynvc" -> Drdynvc
          [] OTHER -> options.compression]

Replacements ==
    [place \in Required |->
        CASE place[2] \in {"port", "chansrvport"} -> "private"
          [] place[2] \in {"drdynvc", "channel.drdynvc"} -> Drdynvc
          [] OTHER -> options.compression]

-----------------------------------------------------------------------------
(* The loop over the lines.                                                 *)

\* A line is read; `lines` of the output come from it.
ReadLine(lines) ==
    /\ output' = output \o lines
    /\ rest' = Tail(rest)
    /\ UNCHANGED <<options, source, pc, target>>

ReadHeader ==
    /\ pc = "lines" /\ rest # <<>> /\ rest[1].kind = "header"
    /\ section' = rest[1].name
    /\ ReadLine(<<rest[1]>>)
    /\ UNCHANGED seen

Place == <<section, rest[1].name>>
Replaced == rest[1].kind = "key" /\ rest[1].lower /\ Place \in Required

ReplaceKey ==
    /\ pc = "lines" /\ rest # <<>> /\ Replaced
    /\ ReadLine(<<Key(rest[1].name, Replacements[Place])>>)
    /\ seen' = seen \cup {Place}
    /\ UNCHANGED section

KeepLine ==
    /\ pc = "lines" /\ rest # <<>> /\ rest[1].kind # "header" /\ ~ Replaced
    /\ ReadLine(<<rest[1]>>)
    /\ UNCHANGED <<section, seen>>

\* A place that had to be replaced was not there (so [Console] is, from here on).
Lacks ==
    /\ pc = "lines" /\ rest = <<>> /\ seen # Required
    /\ pc' = "refused"
    /\ UNCHANGED <<options, source, rest, section, output, seen, target>>

AllSeen ==
    /\ pc = "lines" /\ rest = <<>> /\ seen = Required
    /\ pc' = "gfx"
    /\ UNCHANGED <<options, source, rest, section, output, seen, target>>
-----------------------------------------------------------------------------
(* The edits by position.                                                   *)

Headers(lines) == {i \in DOMAIN lines : lines[i].kind = "header"}
ConsoleStart(lines) == Min({i \in Headers(lines) : lines[i].name = "Console"})

\* The place of the next header, or the one behind the last line.
ConsoleEnd(lines) == Min({i \in Headers(lines) : i > ConsoleStart(lines)} \cup {Len(lines) + 1})

InConsole(lines, i) == ConsoleStart(lines) < i /\ i < ConsoleEnd(lines)
IsKey(line, k) == line.kind = "key" /\ line.name = k

\* The section a line is in, as remove_chansrv_from_config() counts it.
SectionOf(lines, i) == LET before == {j \in Headers(lines) : j <= i}
                       IN  IF before = {} THEN "" ELSE lines[Max(before)].name

\* The place in S that has n places of S up to it.
Nth(S, n) == CHOOSE i \in S : Cardinality({j \in S : j <= i}) = n

\* The lines at the places of S, in order.
Keep(lines, S) == [n \in 1..Cardinality(S) |-> lines[Nth(S, n)]]

\* Mutant: whatever section the line is in.
DropGfxSwitchAnywhere ==
    /\ pc = "gfx"
    /\ output' = IF options.gfx = "as is" THEN output
                 ELSE SelectSeq(output, LAMBDA line : ~ IsKey(line, "disable_gfx"))
    /\ pc' = "resizing"
    /\ UNCHANGED <<options, source, rest, section, seen, target>>

DropGfxSwitch ==
    /\ pc = "gfx"
    /\ output' = IF options.gfx = "as is" THEN output
                 ELSE Keep(output, {i \in DOMAIN output :
                              ~ (InConsole(output, i) /\ IsKey(output[i], "disable_gfx"))})
    /\ pc' = "resizing"
    /\ UNCHANGED <<options, source, rest, section, seen, target>>

ResizingSet == \E i \in DOMAIN output :
                  InConsole(output, i) /\ IsKey(output[i], "enable_dynamic_resizing")

\* The key is added at the end of [Console] unless it is there with any value;
\* then the file is written.
DisableResizing ==
    /\ pc = "resizing"
    /\ output' = IF options.resizing = "as is" \/ ResizingSet THEN output
                 ELSE InsertAt(output, ConsoleEnd(output), Key("enable_dynamic_resizing", "false"))
    /\ target' = output'
    /\ pc' = "written"
    /\ UNCHANGED <<options, source, rest, section, seen>>

ChansrvKeys == {"chansrvport", "channel.cliprdr", "channel.drdynvc"}

RemoveChansrv ==
    /\ pc = "written" /\ ~ options.chansrv
    /\ target' = Keep(target, {i \in DOMAIN target :
                    ~ (SectionOf(target, i) = "Console" /\ \E k \in ChansrvKeys : IsKey(target[i], k))})
    /\ pc' = "started"
    /\ UNCHANGED <<options, source, rest, section, output, seen>>

\* xrdp is started with the file as it is.
KeepChansrv ==
    /\ pc = "written" /\ options.chansrv
    /\ pc' = "started"
    /\ UNCHANGED <<options, source, rest, section, output, seen, target>>

Next ==
    \/ ReadHeader \/ ReplaceKey \/ KeepLine \/ Lacks \/ AllSeen
    \/ DropGfxSwitch \/ DisableResizing \/ RemoveChansrv \/ KeepChansrv

Spec == Init /\ [][Next]_vars
-----------------------------------------------------------------------------
(* Properties.                                                              *)

\* The values xrdp finds for a key: it reads names in any case.
Values(lines, s, k) == {lines[i].value : i \in {j \in DOMAIN lines :
                            IsKey(lines[j], k) /\ SectionOf(lines, j) = s}}

\* The session's channel: the override of the Console, or else the global one.
GfxChannel(lines) == LET override == Values(lines, "Console", "channel.drdynvc")
                     IN  IF override # {} THEN override ELSE Values(lines, "Channels", "drdynvc")

\* What the code takes for granted of the installed file, and checks no more than
\* that one [Console] is there: the edits by position see the first only, and
\* the table has the names in lower case.
OneConsole(lines) ==
    \A i, j \in Headers(lines) : lines[i].name = "Console" /\ lines[j].name = "Console" => i = j
InOneCase(lines) ==
    \A i, j \in DOMAIN lines :
        /\ lines[i].kind = "key" /\ lines[j].kind = "key" /\ lines[i].name = lines[j].name
        /\ SectionOf(lines, i) = SectionOf(lines, j)
        /\ <<SectionOf(lines, i), lines[i].name>> \in Always
        => lines[i].lower = lines[j].lower

\* If no key of the table is in the installed file in two cases, the xrdp that is
\* started shares no endpoint with the installed one, and GFX is open or shut as
\* asked for, also when the Console's override is removed with the channel
\* server.  If one [Console] is there, its switch against GFX is gone when GFX was
\* asked for or against; and resizing is off when that was asked for and the
\* installed Console says nothing of it, and as installed when it was not asked
\* for.  Nothing is said of an installed enable_dynamic_resizing when it was: the
\* code leaves it, true or not, and the option's help says "disable".
PrivateAndAsAsked ==
    pc = "started" =>
        /\ InOneCase(source) =>
              /\ Values(target, "Globals", "port") = {"private"}
              /\ Values(target, "Console", "chansrvport") = IF options.chansrv THEN {"private"} ELSE {}
              /\ GfxChannel(target) = {IF options.gfx = "disable" THEN "false" ELSE "true"}
        /\ OneConsole(source) =>
              /\ options.gfx # "as is" => Values(target, "Console", "disable_gfx") = {}
              /\ LET installed == Values(source, "Console", "enable_dynamic_resizing")
                     found == Values(target, "Console", "enable_dynamic_resizing")
                 IN  IF options.resizing = "as is" THEN found = installed
                     ELSE installed = {} => found = {"false"}

\* A line the edits may change: a key of theirs in its section.
EditedPlaces ==
    {<<"Globals", "port">>, <<"Globals", "bitmap_compression">>, <<"Channels", "drdynvc">>}
        \cup {"Console"} \X (ChansrvKeys \cup {"disable_gfx", "enable_dynamic_resizing"})
Edited(lines, i) ==
    lines[i].kind = "key" /\ <<SectionOf(lines, i), lines[i].name>> \in EditedPlaces

Untouched(lines) == Keep(lines, {i \in DOMAIN lines : ~ Edited(lines, i)})

\* All the other lines - comments, keys of the same name in other sections, keys
\* outside of any - are in the private file as they were, in their order,
\* whatever the installed file is.
OthersKept == pc = "started" => Untouched(target) = Untouched(source)
=============================================================================
