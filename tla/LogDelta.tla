------------------------------ MODULE LogDelta ------------------------------
(***************************************************************************)
(* LogDelta of src/src/python/xrdp_console_episode_sampler.py: a cursor into *)
(* the log that xrdp appends to and logrotate renames or truncates, both    *)
(* between any two system calls of the sampler.                             *)
(*                                                                          *)
(* An entry is one message sample() counts.  It is two pieces of the file,  *)
(* because a read of at most 1 MiB may end in the middle of one.            *)
(***************************************************************************)
EXTENDS Naturals, Sequences, FiniteSets

CONSTANTS
    Missing,        \* the log does not exist
    ReadSize,       \* pieces one read() returns at most (1 MiB in the code)
    MaxEntries      \* bound: entries xrdp writes

ASSUME LogSizesAreNat == ReadSize \in Nat \ {0} /\ MaxEntries \in Nat \ {0}
ASSUME MissingIsNoFile == Missing \notin Seq((Nat \ {0}) \X {1, 2})

VARIABLES
    log,        \* the file at the path, or Missing
    entries,    \* entries written so far; the next one is entries + 1
    offset,     \* LogDelta.offset
    counted,    \* history: how often each entry was counted
    earlier,    \* history: entries written before LogDelta() was called
    from,       \* history: the pieces of the present file behind which the
                \* cursor has read everything, if ...
    followed,   \* ... it has followed that file (no rotation it did not notice)
    cut         \* history: entries that began at the end of a read

fileVars == <<log, entries>>
cursorVars == <<offset, counted, earlier, from, followed, cut>>
logVars == <<fileVars, cursorVars>>

Entry == 1..MaxEntries
Piece == Entry \X {1, 2}

LogTypeOK ==
    /\ log \in Seq(Piece) \cup {Missing}
    /\ entries \in 0..MaxEntries
    /\ offset \in Nat
    /\ counted \in [Entry -> Nat]
    /\ earlier \in 0..MaxEntries
    /\ from \in Nat
    /\ followed \in BOOLEAN
    /\ cut \subseteq Entry

Written(n) == [i \in 1..2 * n |-> <<(i + 1) \div 2, IF i % 2 = 1 THEN 1 ELSE 2>>]

\* xrdp may have logged already, to this file or to one that is gone.
LogInit ==
    /\ entries \in 0..1
    /\ log \in {Missing, <<>>, Written(entries)}
    /\ offset = 0
    /\ counted = [e \in Entry |-> 0]
    /\ earlier = 0 /\ from = 0 /\ followed = TRUE /\ cut = {}
-----------------------------------------------------------------------------
(* xrdp and logrotate.                                                      *)

LogWrites ==
    /\ log # Missing
    /\ entries < MaxEntries
    /\ entries' = entries + 1
    /\ log' = log \o <<<<entries', 1>>, <<entries', 2>>>>
    /\ UNCHANGED cursorVars

\* An unread file cannot be missed in part.
Unfollowed == followed' = (offset = 0) /\ from' = 0

\* Renamed and created again at once, or truncated in place.
LogRotates ==
    /\ log # Missing
    /\ log' = <<>>
    /\ Unfollowed
    /\ UNCHANGED <<entries, offset, counted, earlier, cut>>

LogRemoved ==
    /\ log # Missing
    /\ log' = Missing
    /\ Unfollowed
    /\ UNCHANGED <<entries, offset, counted, earlier, cut>>

LogCreated ==
    /\ log = Missing
    /\ log' = <<>>
    /\ UNCHANGED <<entries, cursorVars>>

LogMoves == LogWrites \/ LogRotates \/ LogRemoved \/ LogCreated
-----------------------------------------------------------------------------
(* LogDelta().                                                              *)

\* __init__(): a log that is missing is read from its start when it appears.
LogOpen ==
    /\ offset' = IF log = Missing THEN 0 ELSE Len(log)
    /\ earlier' = entries
    /\ from' = offset' /\ followed' = TRUE
    /\ UNCHANGED <<fileVars, counted, cut>>

\* Mutants: a file that has not grown is taken for a new one; a shorter file
\* is not noticed.
ResumeAtEqual(size) == IF size <= offset THEN 0 ELSE offset
ResumeAnywhere(size) == offset

Resume(size) == IF size < offset THEN 0 ELSE offset

\* sample() up to the comparison with the size that stat() returned.
LogStat ==
    /\ log # Missing
    /\ offset' = Resume(Len(log))
    /\ IF Len(log) < offset
       THEN from' = 0 /\ followed' = TRUE
       ELSE UNCHANGED <<from, followed>>
    /\ UNCHANGED <<fileVars, counted, earlier, cut>>

\* FileNotFoundError from stat() or open(): every count of the row is zero.
LogMissing ==
    /\ log = Missing
    /\ UNCHANGED logVars

Least(a, b) == IF a < b THEN a ELSE b

\* open(), seek(), read() and tell().  A rename takes effect for the reader
\* before open(), a truncation or an append before read(): one step.  A seek
\* behind the end of the file reads nothing and stays there.
LogRead ==
    /\ log # Missing
    /\ LET data == SubSeq(log, offset + 1, Least(offset + ReadSize, Len(log)))
           Whole(e) == {i \in 1..Len(data) - 1 :
                            data[i] = <<e, 1>> /\ data[i + 1] = <<e, 2>>}
       IN  /\ offset' = offset + Len(data)
           /\ counted' = [e \in Entry |-> counted[e] + Cardinality(Whole(e))]
           /\ cut' = cut \cup {e \in Entry :
                                 data # <<>> /\ data[Len(data)] = <<e, 1>>}
    /\ UNCHANGED <<fileVars, earlier, from, followed>>
-----------------------------------------------------------------------------
(* Properties.                                                              *)

\* "Read only lines appended to an xrdp log after sampler startup": an entry is
\* in one row at most, and in none if it is older than the sampler, however the
\* log is rotated between stat(), open() and the next sample.
LogCountedOnce ==
    \A e \in Entry : counted[e] <= IF e > earlier THEN 1 ELSE 0

\* The cursor skips nothing in a file it follows: what it has passed was
\* counted, unless a read ended within the entry.  It follows the file it found
\* at startup, and each one that it notices to be shorter.
LogMissesNothing ==
    followed /\ log # Missing =>
        \A i \in from + 1..Least(offset, Len(log)) :
            counted[log[i][1]] = 1 \/ log[i][1] \in cut
=============================================================================
