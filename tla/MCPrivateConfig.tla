-------------------------- MODULE MCPrivateConfig --------------------------
(* Small installed files for PrivateConfig.                                 *)
EXTENDS PrivateConfig

Usual == <<Header("Globals"), Key("port", "installed"), Key("bitmap_compression", "off"),
           Header("Channels"), Key("drdynvc", "false"),
           Header("Console"), Key("chansrvport", "installed"), Key("channel.drdynvc", "false")>>

\* Console may be the last section or be followed by another one.
Bases == {Usual, Usual \o <<Header("Other"), Key("port", "installed")>>}

\* Lines that may be anywhere: the keys edited by position, in any case, and
\* comments that name them.
Extra == {Key("disable_gfx", "true"), [Key("disable_gfx", "true") EXCEPT !.lower = FALSE],
          Key("enable_dynamic_resizing", "true"),
          [Key("enable_dynamic_resizing", "true") EXCEPT !.kind = "comment"]}

With(lines) == {InsertAt(lines, i, e) : i \in 1..Len(lines) + 1, e \in Extra}
Without(lines) == {RemoveAt(lines, i) : i \in 1..Len(lines)}

\* A key that is always replaced, in another case: it is not found.
OtherCase == [Usual EXCEPT ![2].lower = FALSE]

\* It is there in both cases, or a second [Console] is, with and without keys.
BothCases == InsertAt(Usual, 3, OtherCase[2])
TwoConsoles == {Usual \o <<Header("Other"), Header("Console")>> \o keys :
                  keys \in {<<>>, <<Key("chansrvport", "installed")>>}}

\* The usual files, with one or two lines more or with one line less.
MCSources == Bases \cup {OtherCase, BothCases} \cup UNION {With(b) : b \in TwoConsoles}
                   \cup UNION {Without(b) \cup With(b) : b \in Bases}
                   \cup UNION {With(b) : b \in With(Usual)}
=============================================================================
