------------------------ MODULE EpisodeSamplerProofs ------------------------
(***************************************************************************)
(* Proofs about EpisodeSampler for any number of processes, connections and *)
(* rows and any log: the types; that no entry of the log is counted twice   *)
(* and none that the cursor has passed is missed; that the bytes and the    *)
(* ticks of the rows were spent while the sampler ran; and that what a      *)
(* process that stays has spent is in the rows.                             *)
(***************************************************************************)
EXTENDS EpisodeSampler, FiniteSetTheorems, SequenceTheorems, WellFoundedInduction, TLAPS

(* The log.                                                                 *)

LogPiece == (Nat \ {0}) \X {1, 2}

\* The pieces of a file in the order xrdp writes them.
Rank(piece) == 2 * piece[1] + piece[2]

Numbers ==
    /\ entries \in Nat /\ offset \in Nat
    /\ earlier \in Nat /\ earlier <= entries
    /\ counted \in [Entry -> Nat]

Shape ==
    log # Missing =>
        /\ log \in Seq(LogPiece)
        /\ \A i \in 1..Len(log) : log[i][1] <= entries
        /\ \A i, j \in 1..Len(log) : i < j => Rank(log[i]) < Rank(log[j])

CountedAreWritten == \A e \in Entry : counted[e] >= 1 => e <= entries

\* Entries that must not be counted any more.
Passed(e) == e <= earlier \/ (e \in Entry /\ counted[e] >= 1)

\* They are behind the cursor, if the file still holds any of them: the file is
\* then the one the cursor is in.
Behind ==
    log # Missing =>
        \A i \in 1..Len(log) : Passed(log[i][1]) => i <= offset /\ offset <= Len(log)

LogInv == Numbers /\ Shape /\ CountedAreWritten /\ LogCountedOnce /\ Behind

LEMMA PieceFacts ==
    ASSUME NEW p \in LogPiece
    PROVE  p[1] \in Nat /\ p[1] >= 1 /\ p[2] \in {1, 2} /\ p = <<p[1], p[2]>> /\ Rank(p) \in Nat
BY DEF LogPiece, Rank

\* A new file holds nothing that was counted.
LEMMA NewFileKeeps ==
    ASSUME LogInv, log' \in {Missing, <<>>}, UNCHANGED <<entries, offset, counted, earlier>>
    PROVE  LogInv'
<1>1. Numbers' /\ CountedAreWritten' /\ LogCountedOnce'
  BY DEF LogInv, Numbers, CountedAreWritten, LogCountedOnce
<1>2. Shape' /\ Behind'
  <2>1. CASE log' = Missing
    BY <2>1 DEF Shape, Behind
  <2>2. CASE log' = <<>>
    BY <2>2 DEF Shape, Behind
  <2> QED
    BY <2>1, <2>2
<1> QED
  BY <1>1, <1>2 DEF LogInv

\* Two pieces more: those before keep their places.
LEMMA TwoMore ==
    ASSUME NEW S, NEW s \in Seq(S), NEW a \in S, NEW b \in S, NEW t, t = s \o <<a, b>>
    PROVE  /\ t \in Seq(S) /\ Len(t) = Len(s) + 2
           /\ \A i \in 1..Len(s) : t[i] = s[i]
           /\ t[Len(s) + 1] = a /\ t[Len(s) + 2] = b
<1> DEFINE new == <<a, b>>
<1>1. new \in Seq(S) /\ Len(new) = 2 /\ new[1] = a /\ new[2] = b
  OBVIOUS
<1>2. t = s \o new
  OBVIOUS
<1> HIDE DEF new
<1>3. Len(s) \in Nat
  OBVIOUS
<1>4. /\ t \in Seq(S) /\ Len(t) = Len(s) + Len(new)
      /\ \A i \in 1..Len(s) + Len(new) : t[i] = IF i <= Len(s) THEN s[i] ELSE new[i - Len(s)]
  BY <1>1, <1>2, ConcatProperties
<1>5. \A i \in 1..Len(s) + 2 : t[i] = IF i <= Len(s) THEN s[i] ELSE new[i - Len(s)]
  BY <1>1, <1>4
<1>6. ASSUME NEW i \in 1..Len(s) PROVE t[i] = s[i]
  BY <1>3, <1>5
<1>7. t[Len(s) + 1] = new[1]
  <2>1. Len(s) + 1 \in 1..Len(s) + 2 /\ ~ Len(s) + 1 <= Len(s) /\ (Len(s) + 1) - Len(s) = 1
    BY <1>3
  <2> QED
    BY <1>5, <2>1
<1>8. t[Len(s) + 2] = new[2]
  <2>1. Len(s) + 2 \in 1..Len(s) + 2 /\ ~ Len(s) + 2 <= Len(s) /\ (Len(s) + 2) - Len(s) = 2
    BY <1>3
  <2> QED
    BY <1>5, <2>1
<1> QED
  BY <1>1, <1>4, <1>6, <1>7, <1>8

LEMMA WriteKeeps ==
    ASSUME LogInv, LogWrites
    PROVE  LogInv'
<1>1. /\ log # Missing /\ entries' = entries + 1 /\ entries \in Nat
      /\ UNCHANGED <<offset, counted, earlier>>
  BY DEF LogWrites, cursorVars, LogInv, Numbers
<1>2. log' = log \o <<<<entries', 1>>, <<entries', 2>>>>
  BY DEF LogWrites
<1>3. /\ log \in Seq(LogPiece) /\ Len(log) \in Nat
      /\ \A i \in 1..Len(log) : log[i][1] <= entries
      /\ \A i, j \in 1..Len(log) : i < j => Rank(log[i]) < Rank(log[j])
  BY <1>1 DEF LogInv, Shape
<1>4. <<entries', 1>> \in LogPiece /\ <<entries', 2>> \in LogPiece
  BY <1>1 DEF LogPiece
<1>5. /\ log' \in Seq(LogPiece) /\ Len(log') = Len(log) + 2
      /\ \A i \in 1..Len(log) : log'[i] = log[i]
      /\ log'[Len(log) + 1] = <<entries', 1>> /\ log'[Len(log) + 2] = <<entries', 2>>
  BY <1>2, <1>3, <1>4, TwoMore
<1>6. \A i \in 1..Len(log') : i \in 1..Len(log) \/ i = Len(log) + 1 \/ i = Len(log) + 2
  BY <1>3, <1>5
<1>7. \A i \in 1..Len(log) : log[i][1] \in Nat /\ Rank(log[i]) \in Nat /\ Rank(log[i]) <= 2 * entries + 2
  <2>1. ASSUME NEW i \in 1..Len(log) PROVE log[i] \in LogPiece /\ log[i][1] <= entries
    BY <1>3
  <2>2. ASSUME NEW p \in LogPiece, p[1] <= entries PROVE Rank(p) <= 2 * entries + 2
    BY <1>1, <2>2, PieceFacts DEF Rank
  <2> QED
    BY <2>1, <2>2, PieceFacts
<1>8. Rank(<<entries', 1>>) = 2 * entries + 3 /\ Rank(<<entries', 2>>) = 2 * entries + 4
  BY <1>1 DEF Rank
<1>9. ASSUME NEW i \in 1..Len(log'), NEW j \in 1..Len(log'), i < j
      PROVE  Rank(log'[i]) < Rank(log'[j])
  <2>1. CASE j \in 1..Len(log)
    <3>1. i \in 1..Len(log)
      BY <1>3, <1>9, <2>1
    <3> QED
      BY <1>3, <1>5, <1>9, <2>1, <3>1
  <2>2. CASE i \in 1..Len(log) /\ j \notin 1..Len(log)
    <3>1. Rank(log'[i]) <= 2 * entries + 2 /\ Rank(log'[i]) \in Nat
      BY <1>5, <1>7, <2>2
    <3>2. Rank(log'[j]) \in {2 * entries + 3, 2 * entries + 4}
      BY <1>5, <1>6, <1>8, <2>2
    <3> QED
      BY <1>1, <3>1, <3>2
  <2>3. CASE i \notin 1..Len(log)
    <3>1. i = Len(log) + 1 /\ j = Len(log) + 2
      BY <1>3, <1>6, <1>9, <2>3
    <3>2. Rank(log'[i]) = 2 * entries + 3
      BY <1>5, <1>8, <3>1
    <3>3. Rank(log'[j]) = 2 * entries + 4
      BY <1>5, <1>8, <3>1
    <3> QED
      BY <1>1, <3>2, <3>3
  <2> QED
    BY <2>1, <2>2, <2>3
<1>10. ASSUME NEW i \in 1..Len(log') PROVE log'[i][1] <= entries'
  <2>1. CASE i \in 1..Len(log)
    <3>1. log'[i] = log[i]
      BY <1>5, <2>1
    <3>2. log[i][1] <= entries /\ log[i][1] \in Nat
      BY <1>3, <1>7, <2>1
    <3> QED
      BY <1>1, <3>1, <3>2
  <2>2. CASE i \notin 1..Len(log)
    BY <1>1, <1>5, <1>6, <2>2
  <2> QED
    BY <2>1, <2>2
<1>11. Shape'
  BY <1>5, <1>9, <1>10 DEF Shape
<1>12. Numbers' /\ LogCountedOnce'
  BY <1>1 DEF LogInv, Numbers, LogCountedOnce
<1>13. CountedAreWritten'
  <2>1. ASSUME NEW e \in Entry, counted[e] >= 1 PROVE e <= entries + 1
    <3>1. e <= entries /\ e \in Int
      BY <2>1 DEF LogInv, CountedAreWritten, Entry
    <3> QED
      BY <1>1, <3>1
  <2> QED
    BY <1>1, <2>1 DEF CountedAreWritten
<1>14. Behind'
  <2>1. ASSUME NEW i \in 1..Len(log'), Passed(log[i][1])'
        PROVE  i <= offset /\ offset <= Len(log')
    <3>1. Passed(log'[i][1])
      BY <1>1, <2>1 DEF Passed
    <3>2. CASE i \in 1..Len(log)
      <4>1. i <= offset /\ offset <= Len(log) /\ offset \in Nat
        BY <1>1, <1>5, <3>1, <3>2 DEF LogInv, Behind, Numbers
      <4> QED
        BY <1>3, <1>5, <4>1
    <3>3. CASE i \notin 1..Len(log)
      <4>1. log'[i][1] = entries + 1
        BY <1>1, <1>5, <1>6, <3>3
      <4>2. ~ (entries + 1 <= earlier)
        BY <1>1 DEF LogInv, Numbers
      <4>3. entries + 1 \in Entry /\ counted[entries + 1] >= 1
        BY <3>1, <4>1, <4>2 DEF Passed
      <4>4. entries + 1 <= entries
        BY <4>3 DEF LogInv, CountedAreWritten
      <4> QED
        BY <1>1, <4>4
    <3> QED
      BY <3>2, <3>3
  <2> QED
    BY <1>1, <2>1 DEF Behind
<1> QED
  BY <1>11, <1>12, <1>13, <1>14 DEF LogInv

LEMMA OpenKeeps ==
    ASSUME LogInv, LogOpen, \A e \in Entry : counted[e] = 0
    PROVE  LogInv'
<1>1. UNCHANGED <<log, entries, counted>> /\ earlier' = entries
      /\ offset' = IF log = Missing THEN 0 ELSE Len(log)
  BY DEF LogOpen, fileVars
<1>2. log # Missing => Len(log) \in Nat
  BY DEF LogInv, Shape
<1>3. Numbers'
  BY <1>1, <1>2 DEF LogInv, Numbers
<1>4. Shape' /\ CountedAreWritten'
  BY <1>1 DEF LogInv, Shape, CountedAreWritten
<1>5. LogCountedOnce'
  BY <1>1 DEF LogCountedOnce
<1>6. Behind'
  BY <1>1, <1>2 DEF Behind
<1> QED
  BY <1>3, <1>4, <1>5, <1>6 DEF LogInv

LEMMA StatKeeps ==
    ASSUME LogInv, LogStat
    PROVE  LogInv'
<1>1. /\ UNCHANGED <<log, entries, counted, earlier>> /\ log # Missing
      /\ offset' = IF Len(log) < offset THEN 0 ELSE offset
  BY DEF LogStat, fileVars, Resume
<1>2. Numbers'
  BY <1>1 DEF LogInv, Numbers
<1>3. Shape' /\ CountedAreWritten' /\ LogCountedOnce'
  BY <1>1 DEF LogInv, Shape, CountedAreWritten, LogCountedOnce
<1>4. Len(log) \in Nat /\ offset \in Nat
  BY <1>1 DEF LogInv, Shape, Numbers
<1>5. Behind'
  <2>1. ASSUME NEW i \in 1..Len(log), Passed(log[i][1])'
        PROVE  i <= offset' /\ offset' <= Len(log)
    <3>1. Passed(log[i][1])
      BY <1>1, <2>1 DEF Passed
    <3>2. i <= offset /\ offset <= Len(log)
      BY <1>1, <3>1 DEF LogInv, Behind
    <3> QED
      BY <1>1, <1>4, <3>2
  <2> QED
    BY <1>1, <2>1 DEF Behind
<1> QED
  BY <1>2, <1>3, <1>5 DEF LogInv

LEMMA SubSeqFacts ==
    ASSUME NEW S, NEW s \in Seq(S), NEW m \in Nat, NEW n \in Nat, m >= 1, n <= Len(s)
    PROVE  /\ Len(SubSeq(s, m, n)) = IF m <= n THEN n - m + 1 ELSE 0
           /\ \A i \in 1..(n - m + 1) : SubSeq(s, m, n)[i] = s[m + i - 1]
<1>1. Len(SubSeq(s, m, n)) = IF m <= n THEN n - m + 1 ELSE 0
  OBVIOUS
<1>2. \A i \in 1..(n - m + 1) : SubSeq(s, m, n)[i] = s[m + i - 1]
  OBVIOUS
<1> QED
  BY <1>1, <1>2

LEMMA RangeFacts ==
    ASSUME NEW S, NEW s \in Seq(S), NEW m \in Nat, NEW n \in Nat, n <= Len(s)
    PROVE  LET data == SubSeq(s, m + 1, n)
           IN  /\ Len(data) \in Nat
               /\ Len(data) > 0 => m + Len(data) <= Len(s)
               /\ \A i \in 1..Len(data) : data[i] = s[m + i] /\ m + i \in 1..Len(s)
<1> DEFINE data == SubSeq(s, m + 1, n)
<1>1. m + 1 \in Nat /\ m + 1 >= 1 /\ Len(s) \in Nat
  OBVIOUS
<1>2. /\ Len(data) = IF m + 1 <= n THEN n - (m + 1) + 1 ELSE 0
      /\ \A i \in 1..(n - (m + 1) + 1) : data[i] = s[m + 1 + i - 1]
  BY <1>1, SubSeqFacts
<1> HIDE DEF data
<1>3. Len(data) \in Nat /\ (Len(data) > 0 => Len(data) = n - m /\ m + Len(data) = n)
  BY <1>2
<1>4. ASSUME NEW i \in 1..Len(data) PROVE data[i] = s[m + i] /\ m + i \in 1..Len(s)
  <2>1. i \in 1..(n - (m + 1) + 1) /\ m + 1 + i - 1 = m + i /\ m + i <= n
    BY <1>3
  <2>2. data[i] = s[m + 1 + i - 1]
    BY <1>2, <2>1
  <2>3. m + i \in 1..Len(s)
    BY <1>1, <2>1
  <2> QED
    BY <2>1, <2>2, <2>3
<1>5. /\ Len(data) \in Nat
      /\ Len(data) > 0 => m + Len(data) <= Len(s)
      /\ \A i \in 1..Len(data) : data[i] = s[m + i] /\ m + i \in 1..Len(s)
  BY <1>3, <1>4
<1> QED
  BY <1>5 DEF data

\* What read() returns, as positions in the file.
LEMMA DataFacts ==
    ASSUME Numbers, Shape, log # Missing
    PROVE  LET data == SubSeq(log, offset + 1, Least(offset + ReadSize, Len(log)))
           IN  /\ Len(data) \in Nat
               /\ Len(data) > 0 => offset + Len(data) <= Len(log)
               /\ \A i \in 1..Len(data) : data[i] = log[offset + i] /\ offset + i \in 1..Len(log)
<1> DEFINE last == Least(offset + ReadSize, Len(log))
<1>1. offset \in Nat /\ Len(log) \in Nat /\ ReadSize \in Nat /\ log \in Seq(LogPiece)
  BY LogSizesAreNat DEF Numbers, Shape
<1>2. last \in Nat /\ last <= Len(log)
  BY <1>1 DEF Least
<1> HIDE DEF last
<1>3. LET data == SubSeq(log, offset + 1, last)
      IN  /\ Len(data) \in Nat
          /\ Len(data) > 0 => offset + Len(data) <= Len(log)
          /\ \A i \in 1..Len(data) : data[i] = log[offset + i] /\ offset + i \in 1..Len(log)
  BY <1>1, <1>2, RangeFacts
<1> QED
  BY <1>3 DEF last

LEMMA ReadKeeps ==
    ASSUME LogInv, LogRead
    PROVE  LogInv'
<1>1. log # Missing /\ UNCHANGED <<log, entries, earlier>>
  BY DEF LogRead, fileVars
<1> DEFINE data == SubSeq(log, offset + 1, Least(offset + ReadSize, Len(log)))
           Whole(e) == {i \in 1..Len(data) - 1 : data[i] = <<e, 1>> /\ data[i + 1] = <<e, 2>>}
<1>2. offset' = offset + Len(data) /\ counted' = [e \in Entry |-> counted[e] + Cardinality(Whole(e))]
  BY DEF LogRead
<1>3. /\ Len(data) \in Nat
      /\ Len(data) > 0 => offset + Len(data) <= Len(log)
      /\ \A i \in 1..Len(data) : data[i] = log[offset + i] /\ offset + i \in 1..Len(log)
  BY <1>1, DataFacts DEF LogInv
<1>4. /\ offset \in Nat /\ earlier \in Nat /\ counted \in [Entry -> Nat] /\ Len(log) \in Nat
      /\ \A i \in 1..Len(log) : log[i] \in LogPiece /\ log[i][1] \in Nat /\ log[i][1] <= entries
      /\ \A i, j \in 1..Len(log) : i < j => Rank(log[i]) < Rank(log[j])
  <2>1. log \in Seq(LogPiece) /\ \A i \in 1..Len(log) : log[i] \in LogPiece
    BY <1>1 DEF LogInv, Shape
  <2> QED
    BY <1>1, <2>1, PieceFacts DEF LogInv, Numbers, Shape
<1> HIDE DEF data
\* An entry is in a file once.
<1>5. ASSUME NEW i \in 1..Len(log), NEW j \in 1..Len(log), log[i] = log[j]
      PROVE  i = j
  <2>1. Rank(log[i]) \in Nat /\ Rank(log[j]) = Rank(log[i])
    BY <1>4, <1>5, PieceFacts
  <2>2. ~ (i < j) /\ ~ (j < i)
    BY <1>4, <2>1
  <2> QED
    BY <2>2
<1>6. ASSUME NEW e \in Entry, NEW i \in Whole(e)
      PROVE  /\ i \in 1..Len(data) /\ i + 1 \in 1..Len(data)
             /\ log[offset + i] = <<e, 1>> /\ log[offset + i + 1] = <<e, 2>>
             /\ offset + i \in 1..Len(log) /\ offset + i + 1 \in 1..Len(log)
             /\ ~ Passed(e) /\ e <= entries
  <2>1. i \in 1..Len(data) - 1 /\ data[i] = <<e, 1>> /\ data[i + 1] = <<e, 2>>
    OBVIOUS
  <2>2. i \in 1..Len(data) /\ i + 1 \in 1..Len(data)
    BY <1>3, <2>1
  <2>3. offset + i \in 1..Len(log) /\ log[offset + i] = <<e, 1>>
    BY <1>3, <2>1, <2>2
  <2>4. offset + (i + 1) \in 1..Len(log) /\ log[offset + (i + 1)] = <<e, 2>>
    BY <1>3, <2>1, <2>2
  <2>5. offset + (i + 1) = offset + i + 1 /\ ~ (offset + i <= offset)
    BY <1>4, <2>2
  <2>6. log[offset + i][1] = e
    BY <2>3
  <2>7. ~ Passed(e)
    BY <1>1, <2>3, <2>5, <2>6 DEF LogInv, Behind
  <2> QED
    BY <1>4, <2>2, <2>3, <2>4, <2>5, <2>6, <2>7
<1>7. ASSUME NEW e \in Entry
      PROVE  /\ Cardinality(Whole(e)) \in {0, 1}
             /\ Cardinality(Whole(e)) = 1 => \E i : i \in Whole(e)
  <2>1. CASE Whole(e) = {}
    <3>1. Cardinality(Whole(e)) = 0
      BY <2>1, FS_EmptySet
    <3> QED
      BY <3>1
  <2>2. CASE Whole(e) # {}
    <3>1. PICK i : i \in Whole(e)
      BY <2>2
    <3>2. ASSUME NEW j \in Whole(e) PROVE j = i
      <4>1. log[offset + i] = log[offset + j]
        BY <1>6, <3>1
      <4>2. offset + i = offset + j
        BY <1>5, <1>6, <3>1, <4>1
      <4> QED
        BY <1>4, <1>6, <3>1, <4>2
    <3>3. Whole(e) = {i}
      BY <3>1, <3>2
    <3>4. Cardinality(Whole(e)) = 1
      BY <3>3, FS_Singleton
    <3> QED
      BY <3>1, <3>4
  <2> QED
    BY <2>1, <2>2
<1> HIDE DEF Whole
<1>8. ASSUME NEW e \in Entry
      PROVE  \/ counted'[e] = counted[e]
             \/ /\ counted'[e] = counted[e] + 1 /\ ~ Passed(e)
                /\ \E i : i \in Whole(e)
  <2>1. counted'[e] = counted[e] + Cardinality(Whole(e)) /\ counted[e] \in Nat
    BY <1>2, <1>4
  <2>2. CASE Cardinality(Whole(e)) = 0
    BY <2>1, <2>2
  <2>3. CASE Cardinality(Whole(e)) = 1
    BY <1>6, <1>7, <2>1, <2>3
  <2> QED
    BY <1>7, <2>2, <2>3
<1>9. Numbers'
  <2>1. \A e \in Entry : Cardinality(Whole(e)) \in Nat /\ counted[e] \in Nat
    BY <1>4, <1>7
  <2>2. counted' \in [Entry -> Nat]
    BY <1>2, <2>1
  <2>3. offset' \in Nat
    BY <1>2, <1>3, <1>4
  <2> QED
    BY <1>1, <2>2, <2>3 DEF LogInv, Numbers
<1>10. Shape'
  BY <1>1 DEF LogInv, Shape
<1>11. CountedAreWritten'
  <2>1. ASSUME NEW e \in Entry, counted'[e] >= 1 PROVE e <= entries
    <3>1. CASE counted'[e] = counted[e]
      BY <2>1, <3>1 DEF LogInv, CountedAreWritten
    <3>2. CASE \E i : i \in Whole(e)
      BY <1>6, <3>2
    <3> QED
      BY <1>8, <3>1, <3>2
  <2> QED
    BY <1>1, <2>1 DEF CountedAreWritten
<1>12. LogCountedOnce'
  <2>1. ASSUME NEW e \in Entry PROVE counted'[e] <= IF e > earlier THEN 1 ELSE 0
    <3>1. CASE counted'[e] = counted[e]
      BY <3>1 DEF LogInv, LogCountedOnce
    <3>2. CASE counted'[e] = counted[e] + 1 /\ ~ Passed(e)
      <4>1. counted[e] \in Nat /\ e \in Int
        BY <1>4 DEF Entry
      <4>2. ~ (e <= earlier) /\ ~ (counted[e] >= 1)
        BY <3>2 DEF Passed
      <4> QED
        BY <1>4, <3>2, <4>1, <4>2
    <3> QED
      BY <1>8, <3>1, <3>2
  <2> QED
    BY <1>1, <2>1 DEF LogCountedOnce
<1>13. Behind'
  <2>1. ASSUME NEW i \in 1..Len(log), Passed(log[i][1])'
        PROVE  i <= offset' /\ offset' <= Len(log)
    <3> DEFINE e == log[i][1]
    <3>1. CASE Passed(e)
      <4>1. i <= offset /\ offset <= Len(log)
        BY <1>1, <3>1 DEF LogInv, Behind
      <4> QED
        BY <1>2, <1>3, <1>4, <4>1
    <3>2. CASE ~ Passed(e)
      <4>1. e \in Entry /\ counted'[e] >= 1
        BY <1>1, <2>1, <3>2 DEF Passed
      <4>2. counted'[e] # counted[e]
        BY <3>2, <4>1 DEF Passed
      <4>3. PICK k : k \in Whole(e)
        BY <1>8, <4>1, <4>2
      <4>4. /\ k \in 1..Len(data) /\ k + 1 \in 1..Len(data)
            /\ log[offset + k] = <<e, 1>> /\ log[offset + k + 1] = <<e, 2>>
            /\ offset + k \in 1..Len(log) /\ offset + k + 1 \in 1..Len(log)
        BY <1>6, <4>1, <4>3
      <4>5. log[i] = <<e, 1>> \/ log[i] = <<e, 2>>
        BY <1>4, PieceFacts
      <4>6. i = offset + k \/ i = offset + k + 1
        BY <1>5, <4>4, <4>5
      <4>7. i <= offset + Len(data) /\ Len(data) > 0
        BY <1>3, <1>4, <4>4, <4>6
      <4> QED
        BY <1>2, <1>3, <4>7
    <3> QED
      BY <3>1, <3>2
  <2> QED
    BY <1>1, <2>1 DEF Behind
<1> QED
  BY <1>9, <1>10, <1>11, <1>12, <1>13 DEF LogInv
-----------------------------------------------------------------------------
(* main(): the log is opened once, before anything is counted.              *)

OpenedOnce ==
    /\ pc = "log" => looping = FALSE
    /\ pc \in {"logstat", "logread"} => looping = TRUE
    /\ looping = FALSE => \A e \in Entry : counted[e] = 0

LEMMA LogStepKeeps == LogInv /\ OpenedOnce /\ [Next]_vars => LogInv'
<1> SUFFICES ASSUME LogInv, OpenedOnce, [Next]_vars PROVE LogInv'
  OBVIOUS
<1>1. CASE LogRotates \/ LogRemoved \/ LogCreated
  BY <1>1, NewFileKeeps DEF LogRotates, LogRemoved, LogCreated, cursorVars
<1>2. CASE LogWrites
  BY <1>2, WriteKeeps
<1>3. CASE EnterLoop
  BY <1>3, OpenKeeps DEF EnterLoop, OpenedOnce
<1>4. CASE LogStat
  BY <1>4, StatKeeps
<1>5. CASE LogRead
  BY <1>5, ReadKeeps
<1>6. CASE UNCHANGED logVars
  BY <1>6 DEF logVars, fileVars, cursorVars, LogInv, Numbers, Shape, CountedAreWritten, LogCountedOnce,
     Behind, Passed
<1>7. \/ LogRotates \/ LogRemoved \/ LogCreated \/ LogWrites \/ EnterLoop \/ LogStat \/ LogRead
      \/ UNCHANGED logVars
  BY DEF Next, System, LogMoves, Sampler, ReadArgv, ReadStat, ProcessesRead, ReadSockets, SocketsFail,
     Wake, SampleLog, LogMissing, WriteRow, vars
<1> QED
  BY <1>1, <1>2, <1>3, <1>4, <1>5, <1>6, <1>7

LEMMA OpenedOnceKeeps == OpenedOnce /\ [Next]_vars => OpenedOnce'
<1> SUFFICES ASSUME OpenedOnce, [Next]_vars PROVE OpenedOnce'
  OBVIOUS
<1>1. CASE EnterLoop
  BY <1>1 DEF EnterLoop, OpenedOnce
<1>2. CASE SampleLog
  BY <1>2 DEF SampleLog, OpenedOnce, rowVars
<1>3. CASE UNCHANGED <<looping, counted>> /\ (pc' = pc \/ pc' \notin {"log", "logstat", "logread"})
  BY <1>3 DEF OpenedOnce
<1>4. CASE UNCHANGED <<looping, counted>> /\ pc' = IF looping THEN "logstat" ELSE "log"
  BY <1>4 DEF OpenedOnce
<1>5. CASE System
  <2>1. UNCHANGED counted
    BY <1>5 DEF System, LogMoves, LogWrites, LogRotates, LogRemoved, LogCreated, logVars, cursorVars
  <2>2. UNCHANGED <<pc, looping>>
    BY <1>5 DEF System, snapshotVars
  <2> QED
    BY <1>3, <2>1, <2>2
<1>6. CASE ReadSockets \/ SocketsFail
  BY <1>4, <1>6 DEF ReadSockets, SocketsFail, SocketsRead, logVars, cursorVars
<1>7. CASE ReadArgv \/ ReadStat \/ ProcessesRead \/ Wake \/ WriteRow \/ UNCHANGED vars
  BY <1>3, <1>7 DEF ReadArgv, ReadStat, ProcessesRead, Wake, WriteRow, vars, snapshotVars, logVars, cursorVars
<1> QED
  BY <1>1, <1>2, <1>5, <1>6, <1>7 DEF Next, Sampler

LEMMA InitLog == Init => LogInv /\ OpenedOnce
<1> SUFFICES ASSUME Init PROVE LogInv /\ OpenedOnce
  OBVIOUS
<1>1. /\ entries \in {0, 1} /\ offset = 0 /\ earlier = 0 /\ counted = [e \in Entry |-> 0]
      /\ log \in {Missing, <<>>, Written(entries)}
      /\ pc = "argv" /\ looping = FALSE
  BY DEF Init, LogInit
<1>2. Numbers /\ CountedAreWritten /\ LogCountedOnce /\ OpenedOnce
  BY <1>1 DEF Numbers, CountedAreWritten, LogCountedOnce, OpenedOnce
<1>3. ASSUME log # Missing
      PROVE  log = <<>> \/ (entries = 1 /\ log = <<<<1, 1>>, <<1, 2>>>>)
  <2>1. CASE log = Written(0)
    BY <2>1 DEF Written
  <2>2. CASE log = Written(1) /\ entries = 1
    BY <2>2 DEF Written
  <2> QED
    BY <1>1, <1>3, <2>1, <2>2
<1>4. Shape
  <2>1. CASE log = <<>>
    BY <2>1 DEF Shape
  <2>2. CASE entries = 1 /\ log = <<<<1, 1>>, <<1, 2>>>>
    <3>1. <<1, 1>> \in LogPiece /\ <<1, 2>> \in LogPiece
      BY DEF LogPiece
    <3> QED
      BY <2>2, <3>1 DEF Shape, Rank
  <2> QED
    BY <1>3, <2>1, <2>2 DEF Shape
<1>5. Behind
  <2>1. ASSUME log # Missing, NEW i \in 1..Len(log) PROVE ~ Passed(log[i][1])
    <3>1. log[i][1] = 1
      BY <1>3, <2>1
    <3> QED
      BY <1>1, <3>1 DEF Passed
  <2> QED
    BY <2>1 DEF Behind
<1> QED
  BY <1>2, <1>4, <1>5 DEF LogInv

\* "Read only lines appended to an xrdp log after sampler startup": no entry is
\* counted twice or if it is older, for any log, rotations and reads of any size.
THEOREM LogOnce == Spec => []LogCountedOnce
<1>1. LogInv => LogCountedOnce
  BY DEF LogInv
<1> QED
  BY <1>1, InitLog, LogStepKeeps, OpenedOnceKeeps, PTL DEF Spec
-----------------------------------------------------------------------------
(* What the cursor has passed.                                              *)

\* The two pieces of an entry are next to each other.
Adjacent ==
    log # Missing =>
        \A i \in 1..Len(log) :
            /\ log[i][1] \in Entry
            /\ log[i][2] = 1 => i + 1 \in 1..Len(log) /\ log[i + 1] = <<log[i][1], 2>>
            /\ log[i][2] = 2 => i - 1 \in 1..Len(log) /\ log[i - 1] = <<log[i][1], 1>>

\* A file the cursor follows is read from the end of an entry on.
Following ==
    /\ from \in Nat
    /\ followed /\ log = Missing => offset = 0 /\ from = 0
    /\ followed /\ log # Missing =>
          /\ from <= offset /\ offset <= Len(log)
          /\ from = 0 \/ log[from][2] = 2

CountedOrCut(e) == counted[e] = 1 \/ e \in cut

Read == followed /\ log # Missing => \A i \in from + 1..offset : CountedOrCut(log[i][1])

CursorInv == Adjacent /\ Following /\ Read

LEMMA NewFileKeepsCursor ==
    ASSUME CursorInv, log' \in {Missing, <<>>}, UNCHANGED <<offset, counted, cut>>,
           \/ Unfollowed
           \/ log = Missing /\ UNCHANGED <<from, followed>>
    PROVE  CursorInv'
<1>1. Adjacent'
  <2>1. CASE log' = Missing
    BY <2>1 DEF Adjacent
  <2>2. CASE log' = <<>>
    BY <2>2 DEF Adjacent
  <2> QED
    BY <2>1, <2>2
<1>2. from' \in Nat /\ (followed' => offset' = 0 /\ from' = 0)
  <2>1. CASE Unfollowed
    <3>1. from' = 0 /\ (followed' => offset = 0)
      BY <2>1, Zenon DEF Unfollowed
    <3> QED
      BY <3>1
  <2>2. CASE log = Missing /\ UNCHANGED <<from, followed>>
    <3>1. from \in Nat /\ (followed => offset = 0 /\ from = 0)
      BY <2>2, Zenon DEF CursorInv, Following
    <3> QED
      BY <2>2, <3>1
  <2> QED
    BY <2>1, <2>2
<1>3. followed' /\ log' # Missing => log' = <<>>
  OBVIOUS
<1>4. Following'
  BY <1>2, <1>3 DEF Following
<1>5. Read'
  BY <1>2, <1>3 DEF Read
<1> QED
  BY <1>1, <1>4, <1>5 DEF CursorInv

LEMMA WriteKeepsCursor ==
    ASSUME LogInv, CursorInv, LogWrites
    PROVE  CursorInv'
<1>1. /\ log # Missing /\ entries' = entries + 1 /\ entries \in Nat /\ entries < MaxEntries
      /\ UNCHANGED <<offset, counted, from, followed, cut>>
  BY DEF LogWrites, cursorVars, LogInv, Numbers
<1>2. log' = log \o <<<<entries', 1>>, <<entries', 2>>>>
  BY DEF LogWrites
<1>3. log \in Seq(LogPiece) /\ Len(log) \in Nat
  BY <1>1 DEF LogInv, Shape
<1>4. <<entries', 1>> \in LogPiece /\ <<entries', 2>> \in LogPiece
  BY <1>1 DEF LogPiece
<1>5. /\ Len(log') = Len(log) + 2
      /\ \A i \in 1..Len(log) : log'[i] = log[i]
      /\ log'[Len(log) + 1] = <<entries', 1>> /\ log'[Len(log) + 2] = <<entries', 2>>
  BY <1>2, <1>3, <1>4, TwoMore
<1>6. entries' \in Entry
  BY <1>1, LogSizesAreNat DEF Entry
<1>7. ASSUME NEW i \in 1..Len(log')
      PROVE  /\ log'[i][1] \in Entry
             /\ log'[i][2] = 1 => i + 1 \in 1..Len(log') /\ log'[i + 1] = <<log'[i][1], 2>>
             /\ log'[i][2] = 2 => i - 1 \in 1..Len(log') /\ log'[i - 1] = <<log'[i][1], 1>>
  <2>1. CASE i \in 1..Len(log)
    <3>1. /\ log'[i] = log[i] /\ log[i][1] \in Entry
          /\ log[i][2] = 1 => i + 1 \in 1..Len(log) /\ log[i + 1] = <<log[i][1], 2>>
          /\ log[i][2] = 2 => i - 1 \in 1..Len(log) /\ log[i - 1] = <<log[i][1], 1>>
      BY <1>1, <1>5, <2>1 DEF CursorInv, Adjacent
    <3>2. i + 1 \in 1..Len(log) => i + 1 \in 1..Len(log') /\ log'[i + 1] = log[i + 1]
      BY <1>3, <1>5
    <3>3. i - 1 \in 1..Len(log) => i - 1 \in 1..Len(log') /\ log'[i - 1] = log[i - 1]
      BY <1>3, <1>5
    <3> QED
      BY <3>1, <3>2, <3>3
  <2>2. CASE i = Len(log) + 1
    <3>1. i + 1 = Len(log) + 2 /\ i + 1 \in 1..Len(log')
      BY <1>3, <1>5, <2>2
    <3>2. log'[i] = <<entries', 1>> /\ log'[i + 1] = <<entries', 2>>
      BY <1>5, <2>2, <3>1
    <3> QED
      BY <1>6, <3>1, <3>2
  <2>3. CASE i = Len(log) + 2
    <3>1. i - 1 = Len(log) + 1 /\ i - 1 \in 1..Len(log')
      BY <1>3, <1>5, <2>3
    <3>2. log'[i] = <<entries', 2>> /\ log'[i - 1] = <<entries', 1>>
      BY <1>5, <2>3, <3>1
    <3> QED
      BY <1>6, <3>1, <3>2
  <2>4. i \in 1..Len(log) \/ i = Len(log) + 1 \/ i = Len(log) + 2
    BY <1>3, <1>5
  <2> QED
    BY <2>1, <2>2, <2>3, <2>4
<1>8. Adjacent'
  BY <1>7 DEF Adjacent
<1>9. ASSUME followed PROVE from \in Nat /\ from <= offset /\ offset <= Len(log) /\ offset \in Nat
  BY <1>1, <1>9 DEF CursorInv, Following, LogInv, Numbers
<1>10. ASSUME followed, log' # Missing
       PROVE  /\ from <= offset /\ offset <= Len(log')
              /\ from = 0 \/ log'[from][2] = 2
  <2>1. from \in 1..Len(log) => log'[from] = log[from]
    BY <1>5
  <2>2. from = 0 \/ log[from][2] = 2
    BY <1>1, <1>10 DEF CursorInv, Following
  <2>3. from = 0 \/ from \in 1..Len(log)
    BY <1>3, <1>9, <1>10
  <2>4. offset <= Len(log')
    BY <1>3, <1>5, <1>9, <1>10
  <2> QED
    BY <1>9, <1>10, <2>1, <2>2, <2>3, <2>4
<1>11. Following'
  <2>1. ~ (followed' /\ log' = Missing) \/ (offset' = 0 /\ from' = 0)
    <3>1. log' \in Seq(LogPiece)
      BY <1>2, <1>3, <1>4, ConcatProperties
    <3> QED
      BY <3>1, MissingIsNoFile DEF LogPiece
  <2> QED
    BY <1>1, <1>10, <2>1 DEF CursorInv, Following
<1>12. Read'
  <2>1. ASSUME followed, NEW i \in from + 1..offset PROVE CountedOrCut(log'[i][1])
    <3>1. i \in 1..Len(log)
      BY <1>3, <1>9, <2>1
    <3>2. log'[i] = log[i]
      BY <1>5, <3>1
    <3> QED
      BY <1>1, <2>1, <3>2 DEF CursorInv, Read
  <2> QED
    BY <1>1, <2>1 DEF Read, CountedOrCut
<1> QED
  BY <1>8, <1>11, <1>12 DEF CursorInv

LEMMA OpenKeepsCursor ==
    ASSUME LogInv, CursorInv, LogOpen
    PROVE  CursorInv'
<1>1. /\ UNCHANGED <<log, entries, counted, cut>>
      /\ offset' = IF log = Missing THEN 0 ELSE Len(log)
      /\ from' = offset' /\ followed' = TRUE
  BY DEF LogOpen, fileVars
<1>2. log # Missing => Len(log) \in Nat
  BY DEF LogInv, Shape
<1>3. Adjacent'
  BY <1>1 DEF CursorInv, Adjacent
<1>4. ASSUME log # Missing PROVE Len(log) = 0 \/ log[Len(log)][2] = 2
  <2>1. CASE Len(log) # 0
    <3>1. Len(log) \in 1..Len(log) /\ Len(log) + 1 \notin 1..Len(log)
      BY <1>2, <1>4, <2>1
    <3>2. log[Len(log)] \in LogPiece
      BY <1>4, <3>1 DEF LogInv, Shape
    <3>3. log[Len(log)][2] # 1
      BY <1>4, <3>1 DEF CursorInv, Adjacent
    <3> QED
      BY <3>2, <3>3, PieceFacts
  <2> QED
    BY <2>1
<1>5. Following'
  BY <1>1, <1>2, <1>4 DEF Following
<1>6. Read'
  <2>1. from' \in Int /\ ~ \E i : i \in from' + 1..offset'
    BY <1>1, <1>2
  <2> QED
    BY <1>1, <2>1 DEF Read
<1> QED
  BY <1>3, <1>5, <1>6 DEF CursorInv

LEMMA StatKeepsCursor ==
    ASSUME LogInv, CursorInv, LogStat
    PROVE  CursorInv'
<1>1. UNCHANGED <<log, entries, counted, cut>> /\ log # Missing
  BY DEF LogStat, fileVars
<1>2. Len(log) \in Nat /\ offset \in Nat
  BY <1>1 DEF LogInv, Shape, Numbers
<1>3. Adjacent'
  BY <1>1 DEF CursorInv, Adjacent
<1>4. CASE Len(log) < offset
  <2>1. offset' = 0 /\ from' = 0 /\ followed' = TRUE
    BY <1>4 DEF LogStat, Resume
  <2>2. Following' /\ Read'
    BY <1>1, <1>2, <2>1 DEF Following, Read
  <2> QED
    BY <1>3, <2>2 DEF CursorInv
<1>5. CASE ~ (Len(log) < offset)
  <2>1. UNCHANGED <<offset, from, followed>>
    BY <1>5 DEF LogStat, Resume
  <2>2. Following' /\ Read'
    BY <1>1, <2>1 DEF CursorInv, Following, Read, CountedOrCut
  <2> QED
    BY <1>3, <2>2 DEF CursorInv
<1> QED
  BY <1>4, <1>5

LEMMA ReadKeepsCursor ==
    ASSUME LogInv, LogInv', CursorInv, LogRead
    PROVE  CursorInv'
<1>1. log # Missing /\ UNCHANGED <<log, entries, earlier, from, followed>>
  BY DEF LogRead, fileVars
<1> DEFINE data == SubSeq(log, offset + 1, Least(offset + ReadSize, Len(log)))
           Whole(e) == {i \in 1..Len(data) - 1 : data[i] = <<e, 1>> /\ data[i + 1] = <<e, 2>>}
<1>2. /\ offset' = offset + Len(data)
      /\ counted' = [e \in Entry |-> counted[e] + Cardinality(Whole(e))]
      /\ cut' = cut \cup {e \in Entry : data # <<>> /\ data[Len(data)] = <<e, 1>>}
  BY DEF LogRead
<1>3. /\ Len(data) \in Nat
      /\ Len(data) > 0 => offset + Len(data) <= Len(log)
      /\ \A i \in 1..Len(data) : data[i] = log[offset + i] /\ offset + i \in 1..Len(log)
  BY <1>1, DataFacts DEF LogInv
<1>4. /\ offset \in Nat /\ from \in Nat /\ Len(log) \in Nat
      /\ counted \in [Entry -> Nat] /\ counted' \in [Entry -> Nat]
      /\ \A i \in 1..Len(log) : log[i] \in LogPiece /\ log[i][1] \in Entry
  BY <1>1 DEF LogInv, CursorInv, Numbers, Shape, Adjacent, Following
<1> HIDE DEF data
<1>5. data = <<>> => Len(data) = 0
  OBVIOUS
<1>6. \A e \in Entry : IsFiniteSet(Whole(e))
  <2>1. Len(data) - 1 \in Int
    BY <1>3
  <2>2. IsFiniteSet(1..Len(data) - 1)
    BY <2>1, FS_Interval
  <2> QED
    BY <2>2, FS_Subset
\* A count never falls, and an entry read whole is counted: its count is 1 then.
<1>7. ASSUME NEW e \in Entry
      PROVE  /\ counted[e] = 1 => counted'[e] = 1
             /\ Whole(e) # {} => counted'[e] = 1
  <2>1. /\ counted'[e] = counted[e] + Cardinality(Whole(e))
        /\ counted[e] \in Nat /\ counted'[e] \in Nat
    BY <1>2, <1>4
  <2>2. Cardinality(Whole(e)) \in Nat
    BY <1>6, FS_CardinalityType
  <2>3. Whole(e) # {} => Cardinality(Whole(e)) # 0
    BY <1>6, FS_EmptySet
  <2>4. counted'[e] <= 1
    <3>1. counted'[e] <= IF e > earlier' THEN 1 ELSE 0
      BY DEF LogInv, LogCountedOnce
    <3> QED
      BY <2>1, <3>1
  <2> HIDE DEF Whole
  <2> QED
    BY <2>1, <2>2, <2>3, <2>4
<1>8. ASSUME NEW e \in Entry, NEW i \in Int, i \in 1..Len(data), i + 1 \in 1..Len(data),
             data[i] = <<e, 1>>, data[i + 1] = <<e, 2>>
      PROVE  counted'[e] = 1
  <2>1. i \in 1..Len(data) - 1
    BY <1>3, <1>8
  <2>2. i \in Whole(e)
    BY <1>8, <2>1
  <2> QED
    BY <1>7, <2>2
<1>9. \A e \in Entry : e \in cut => e \in cut'
  BY <1>2
<1> HIDE DEF Whole
<1>10. ASSUME NEW e \in Entry, CountedOrCut(e) PROVE CountedOrCut(e)'
  BY <1>7, <1>9, <1>10 DEF CountedOrCut
<1>11. Adjacent'
  BY <1>1 DEF CursorInv, Adjacent
<1>12. ASSUME followed
       PROVE  /\ from <= offset /\ offset <= Len(log) /\ (from = 0 \/ log[from][2] = 2)
              /\ from <= offset' /\ offset' <= Len(log)
  <2>1. from <= offset /\ offset <= Len(log) /\ (from = 0 \/ log[from][2] = 2)
    BY <1>1, <1>12 DEF CursorInv, Following
  <2> QED
    BY <1>2, <1>3, <1>4, <2>1
<1>13. Following'
  BY <1>1, <1>4, <1>12 DEF Following
<1>14. ASSUME followed, NEW i \in from + 1..offset' PROVE CountedOrCut(log[i][1])'
  <2> DEFINE e == log[i][1]
             k == i - offset
  <2>1. i \in Int /\ i \in 1..Len(log) /\ e \in Entry /\ from + 1 <= i
    BY <1>2, <1>3, <1>4, <1>12, <1>14
  <2>2. CASE i <= offset
    <3>1. i \in from + 1..offset
      BY <1>4, <2>1, <2>2
    <3>2. CountedOrCut(e)
      BY <1>1, <1>14, <3>1 DEF CursorInv, Read
    <3> QED
      BY <1>1, <1>10, <2>1, <3>2
  <2>3. CASE i > offset
    <3>1. k \in 1..Len(data) /\ k \in Int /\ offset + k = i
      BY <1>2, <1>3, <1>4, <1>14, <2>1, <2>3
    <3>2. data[k] = log[i] /\ log[i] \in LogPiece
      BY <1>3, <1>4, <2>1, <3>1
    <3>3. log[i] = <<e, 1>> \/ log[i] = <<e, 2>>
      BY <3>2, PieceFacts
    <3>4. CASE log[i] = <<e, 1>> /\ k = Len(data)
      <4>1. data # <<>> /\ data[Len(data)] = <<e, 1>>
        BY <1>5, <3>1, <3>2, <3>4
      <4>2. e \in cut'
        BY <1>2, <2>1, <4>1
      <4> QED
        BY <1>1, <4>2 DEF CountedOrCut
    <3>5. CASE log[i] = <<e, 1>> /\ k # Len(data)
      <4>1. k + 1 \in 1..Len(data) /\ offset + (k + 1) = i + 1
        <5>1. Len(data) \in Nat /\ offset \in Nat
          BY <1>3, <1>4
        <5> HIDE DEF k
        <5> QED
          BY <3>1, <3>5, <5>1
      <4>2. data[k + 1] = log[i + 1]
        BY <1>3, <4>1
      <4>3. log[i + 1] = <<e, 2>>
        <5>1. log[i][2] = 1
          BY <3>5
        <5> QED
          BY <1>1, <2>1, <5>1 DEF CursorInv, Adjacent
      <4>4. counted'[e] = 1
        BY <1>8, <2>1, <3>1, <3>2, <3>5, <4>1, <4>2, <4>3
      <4> QED
        BY <1>1, <4>4 DEF CountedOrCut
    <3>6. CASE log[i] = <<e, 2>>
      <4>1. i - 1 \in 1..Len(log) /\ log[i - 1] = <<e, 1>>
        <5>1. log[i][2] = 2
          BY <3>6
        <5> QED
          BY <1>1, <2>1, <5>1 DEF CursorInv, Adjacent
      <4>2. CASE k # 1
        <5>1. k - 1 \in 1..Len(data) /\ k - 1 \in Int /\ offset + (k - 1) = i - 1 /\ k - 1 + 1 = k
          BY <1>3, <1>4, <2>1, <3>1, <4>2
        <5>2. data[k - 1] = log[i - 1]
          BY <1>3, <5>1
        <5>3. counted'[e] = 1
          BY <1>8, <2>1, <3>1, <3>2, <3>6, <4>1, <5>1, <5>2
        <5> QED
          BY <1>1, <5>3 DEF CountedOrCut
      <4>3. CASE k = 1
        <5>1. i - 1 = offset
          BY <1>4, <2>1, <4>3
        <5>2. log[offset][2] = 1 /\ log[offset][1] = e /\ offset >= 1
          BY <1>4, <4>1, <5>1
        <5>3. offset # from
          BY <1>4, <1>12, <1>14, <5>2
        <5>4. offset \in from + 1..offset
          BY <1>4, <1>12, <1>14, <5>3
        <5>5. CountedOrCut(e)
          BY <1>1, <1>14, <5>2, <5>4 DEF CursorInv, Read
        <5> QED
          BY <1>1, <1>10, <2>1, <5>5
      <4> QED
        BY <4>2, <4>3
    <3> QED
      BY <3>3, <3>4, <3>5, <3>6
  <2> QED
    BY <1>4, <2>1, <2>2, <2>3
<1>15. Read'
  BY <1>1, <1>14 DEF Read
<1> QED
  BY <1>11, <1>13, <1>15 DEF CursorInv

LEMMA CursorStepKeeps == LogInv /\ OpenedOnce /\ CursorInv /\ [Next]_vars => CursorInv'
<1> SUFFICES ASSUME LogInv, OpenedOnce, CursorInv, [Next]_vars PROVE CursorInv'
  OBVIOUS
<1>1. CASE LogRotates \/ LogRemoved \/ LogCreated
  BY <1>1, NewFileKeepsCursor DEF LogRotates, LogRemoved, LogCreated, cursorVars
<1>2. CASE LogWrites
  BY <1>2, WriteKeepsCursor
<1>3. CASE LogOpen
  BY <1>3, OpenKeepsCursor
<1>4. CASE LogStat
  BY <1>4, StatKeepsCursor
<1>5. CASE LogRead
  BY <1>5, LogStepKeeps, ReadKeepsCursor
<1>6. CASE UNCHANGED logVars
  BY <1>6 DEF logVars, fileVars, cursorVars, CursorInv, Adjacent, Following, Read, CountedOrCut
<1>7. \/ LogRotates \/ LogRemoved \/ LogCreated \/ LogWrites \/ LogOpen \/ LogStat \/ LogRead
      \/ UNCHANGED logVars
  BY DEF Next, System, LogMoves, Sampler, ReadArgv, ReadStat, ProcessesRead, ReadSockets, SocketsFail,
     EnterLoop, Wake, SampleLog, LogMissing, WriteRow, vars
<1> QED
  BY <1>1, <1>2, <1>3, <1>4, <1>5, <1>6, <1>7

\* What the cursor has passed in a file it follows was counted or cut by the end
\* of a read, for any log, rotations and reads of any size.
THEOREM LogComplete == Spec => []LogMissesNothing
<1>1. ASSUME Init PROVE CursorInv
  <2>1. offset = 0 /\ from = 0 /\ log \in {Missing, <<>>, Written(entries)} /\ entries \in {0, 1}
    BY <1>1 DEF Init, LogInit
  <2>2. ASSUME log # Missing
        PROVE  log = <<>> \/ log = <<<<1, 1>>, <<1, 2>>>>
    <3>1. CASE log = Written(0)
      BY <3>1 DEF Written
    <3>2. CASE log = Written(1)
      BY <3>2 DEF Written
    <3> QED
      BY <2>1, <2>2, <3>1, <3>2
  <2>3. 1 \in Entry
    BY LogSizesAreNat DEF Entry
  <2>4. Adjacent
    <3>1. CASE log = <<>>
      BY <3>1 DEF Adjacent
    <3>2. CASE log = <<<<1, 1>>, <<1, 2>>>>
      BY <2>3, <3>2 DEF Adjacent
    <3> QED
      BY <2>2, <3>1, <3>2 DEF Adjacent
  <2>5. log # Missing => Len(log) >= 0
    BY <2>2
  <2>6. Following /\ Read
    BY <2>1, <2>5 DEF Following, Read
  <2> QED
    BY <2>4, <2>6 DEF CursorInv
<1>2. LogInv /\ CursorInv => LogMissesNothing
  <2> SUFFICES ASSUME LogInv, CursorInv, followed, log # Missing,
                      NEW i \in from + 1..Least(offset, Len(log))
               PROVE  counted[log[i][1]] = 1 \/ log[i][1] \in cut
    BY DEF LogMissesNothing
  <2>1. from \in Nat /\ offset \in Nat /\ Len(log) \in Nat
    BY DEF LogInv, CursorInv, Numbers, Shape, Following
  <2>2. i \in from + 1..offset
    BY <2>1 DEF Least
  <2> QED
    BY <2>2 DEF CursorInv, Read, CountedOrCut
<1>3. Init => LogInv /\ OpenedOnce
  BY InitLog
<1> QED
  BY <1>1, <1>2, <1>3, LogStepKeeps, OpenedOnceKeeps, CursorStepKeeps, PTL DEF Spec
-----------------------------------------------------------------------------
(* Sums over finite sets.  A recursive function is what CHOOSE makes of it   *)
(* once there is one: existence and uniqueness by a smallest set at fault.   *)

\* The element a sum over s takes out first, and the function from the parts of
\* S to their sums.
Some(s) == CHOOSE x \in s : TRUE
Tabulates(g, f, S) ==
  g = [s \in SUBSET S |-> IF s = {} THEN 0 ELSE f[Some(s)] + g[s \ {Some(s)}]]

LEMMA SumIsTabulated ==
    ASSUME NEW f, NEW S
    PROVE  SumFunctionOnSet(f, S) = (CHOOSE g : Tabulates(g, f, S))[S]
BY DEF SumFunctionOnSet, FoldFunctionOnSet, MapThenFoldSet, Tabulates, Some

LEMMA SomeIsIn == ASSUME NEW s, s # {} PROVE Some(s) \in s
BY DEF Some

\* Of any sets at fault there is one none of whose parts is.
LEMMA SmallestSet ==
    ASSUME NEW S, IsFiniteSet(S), NEW Bad, Bad \subseteq SUBSET S, Bad # {}
    PROVE  \E T \in Bad : \A U \in Bad : ~ (U \subseteq T /\ U # T)
<1>1. IsWellFoundedOn(StrictSubsetOrdering(S), FiniteSubsetsOf(S))
  BY FS_StrictSubsetOrderingWellFounded
<1>2. Bad \subseteq FiniteSubsetsOf(S)
  BY FS_Subset DEF FiniteSubsetsOf
<1>3. \E T \in Bad : \A U \in Bad : ~ (<<U, T>> \in StrictSubsetOrdering(S))
  BY <1>1, <1>2, WFMin
<1> QED
  BY <1>3 DEF StrictSubsetOrdering

LEMMA TabulationAt ==
    ASSUME NEW f, NEW S, NEW g, Tabulates(g, f, S)
    PROVE  /\ g[{}] = 0
           /\ \A T \in SUBSET S : T # {} => g[T] = f[Some(T)] + g[T \ {Some(T)}]
BY DEF Tabulates

\* Two tabulations agree where both are defined ...
LEMMA TabulationsAgree ==
    ASSUME NEW f, NEW S, NEW R, NEW g, NEW h, Tabulates(g, f, S), Tabulates(h, f, R),
           NEW T, T \subseteq S, T \subseteq R, IsFiniteSet(T)
    PROVE  g[T] = h[T]
<1> DEFINE Bad == {U \in SUBSET T : g[U] # h[U]}
<1>1. SUFFICES ASSUME Bad # {} PROVE FALSE
  OBVIOUS
<1>2. PICK U \in Bad : \A V \in Bad : ~ (V \subseteq U /\ V # U)
  <2>1. Bad \subseteq SUBSET T
    OBVIOUS
  <2> HIDE DEF Bad
  <2> QED
    BY <1>1, <2>1, SmallestSet
<1>3. U # {}
  <2>1. g[{}] = 0 /\ h[{}] = 0
    BY DEF Tabulates
  <2> QED
    BY <2>1
<1> DEFINE W == U \ {Some(U)}
<1>4. W \notin Bad /\ W \subseteq T
  BY <1>2, <1>3, SomeIsIn
<1>5. g[W] = h[W]
  BY <1>4
<1>6. g[U] = f[Some(U)] + g[W] /\ h[U] = f[Some(U)] + h[W]
  BY <1>3 DEF Tabulates
<1> QED
  BY <1>5, <1>6

\* ... and there is one for every finite set.
LEMMA TabulationExists ==
    ASSUME NEW f, NEW S, IsFiniteSet(S)
    PROVE  \E g : Tabulates(g, f, S)
<1> DEFINE Bad == {T \in SUBSET S : ~ \E g : Tabulates(g, f, T)}
<1>1. SUFFICES ASSUME Bad # {} PROVE FALSE
  OBVIOUS
<1>2. PICK T \in Bad : \A U \in Bad : ~ (U \subseteq T /\ U # T)
  <2>1. Bad \subseteq SUBSET S
    OBVIOUS
  <2> HIDE DEF Bad
  <2> QED
    BY <1>1, <2>1, SmallestSet
<1> DEFINE Of(U) == CHOOSE g : Tabulates(g, f, U)
           G == [U \in SUBSET T |-> IF U = {} THEN 0
                                    ELSE f[Some(U)] + Of(U \ {Some(U)})[U \ {Some(U)}]]
<1>3. ASSUME NEW U \in SUBSET T, U # T
      PROVE  Tabulates(Of(U), f, U)
  BY <1>2, <1>3
<1>4. ASSUME NEW U \in SUBSET T, U # T
      PROVE  G[U] = Of(U)[U]
  <2>0. Tabulates(Of(U), f, U)
    BY <1>3, <1>4
  <2>1. CASE U = {}
    <3>1. G[U] = 0
      BY <2>1
    <3> HIDE DEF Of, G
    <3> QED
      BY <2>0, <2>1, <3>1, TabulationAt
  <2>2. CASE U # {}
    <3> DEFINE W == U \ {Some(U)}
    <3>1. W \subseteq U /\ W \subseteq T /\ W # T /\ W # U
      BY <2>2, SomeIsIn
    <3>2. Of(U)[U] = f[Some(U)] + Of(U)[W]
      <4> HIDE DEF Of
      <4> QED
        BY <2>0, <2>2, TabulationAt
    <3>3. IsFiniteSet(W)
      BY <3>1, FS_Subset
    <3>4. Of(U)[W] = Of(W)[W]
      <4>1. Tabulates(Of(U), f, U) /\ Tabulates(Of(W), f, W)
        BY <1>3, <1>4, <3>1
      <4> HIDE DEF Of, W
      <4> QED
        BY <4>1, <3>1, <3>3, TabulationsAgree
    <3>5. G[U] = f[Some(U)] + Of(W)[W]
      BY <2>2
    <3> QED
      BY <3>2, <3>4, <3>5
  <2> HIDE DEF Of, G
  <2> QED
    BY <2>1, <2>2
<1>5. Tabulates(G, f, T)
  <2>1. ASSUME NEW U \in SUBSET T, U # {}
        PROVE  G[U] = f[Some(U)] + G[U \ {Some(U)}]
    <3>1. U \ {Some(U)} \subseteq T /\ U \ {Some(U)} # T
      BY <2>1, SomeIsIn
    <3>2. G[U \ {Some(U)}] = Of(U \ {Some(U)})[U \ {Some(U)}]
      BY <3>1, <1>4
    <3> QED
      BY <3>2, <2>1
  <2>2. G[{}] = 0
    OBVIOUS
  <2>3. G = [U \in SUBSET T |-> G[U]]
    OBVIOUS
  <2> HIDE DEF G
  <2>4. G = [U \in SUBSET T |-> IF U = {} THEN 0 ELSE f[Some(U)] + G[U \ {Some(U)}]]
    BY <2>1, <2>2, <2>3
  <2> QED
    BY <2>4 DEF Tabulates
<1> QED
  BY <1>2, <1>5

LEMMA SumByTabulation ==
    ASSUME NEW f, NEW S, IsFiniteSet(S), NEW T, T \subseteq S, NEW g, Tabulates(g, f, S)
    PROVE  SumFunctionOnSet(f, T) = g[T]
<1>1. IsFiniteSet(T)
  BY FS_Subset
<1>2. Tabulates(CHOOSE h : Tabulates(h, f, T), f, T)
  BY <1>1, TabulationExists
<1>3. (CHOOSE h : Tabulates(h, f, T))[T] = g[T]
  BY <1>1, <1>2, TabulationsAgree
<1> QED
  BY <1>3, SumIsTabulated

LEMMA SumOfNone ==
    ASSUME NEW f
    PROVE  SumFunctionOnSet(f, {}) = 0
<1>1. PICK g : Tabulates(g, f, {})
  BY TabulationExists, FS_EmptySet
<1>2. g[{}] = 0
  BY <1>1 DEF Tabulates
<1> QED
  BY <1>1, <1>2, SumByTabulation, FS_EmptySet

LEMMA SumTakesSome ==
    ASSUME NEW f, NEW S, IsFiniteSet(S), S # {}
    PROVE  SumFunctionOnSet(f, S) = f[Some(S)] + SumFunctionOnSet(f, S \ {Some(S)})
<1>1. PICK g : Tabulates(g, f, S)
  BY TabulationExists
<1>2. SumFunctionOnSet(f, S) = g[S]
  BY <1>1, SumByTabulation
<1>3. SumFunctionOnSet(f, S \ {Some(S)}) = g[S \ {Some(S)}]
  BY <1>1, SumByTabulation
<1>4. g[S] = f[Some(S)] + g[S \ {Some(S)}]
  BY <1>1 DEF Tabulates
<1> QED
  BY <1>2, <1>3, <1>4

LEMMA SumIsInt ==
    ASSUME NEW S, IsFiniteSet(S), NEW f, \A x \in S : f[x] \in Int
    PROVE  SumFunctionOnSet(f, S) \in Int
<1> DEFINE Bad == {T \in SUBSET S : SumFunctionOnSet(f, T) \notin Int}
<1>1. SUFFICES ASSUME Bad # {} PROVE FALSE
  OBVIOUS
<1>2. PICK T \in Bad : \A U \in Bad : ~ (U \subseteq T /\ U # T)
  <2>1. Bad \subseteq SUBSET S
    OBVIOUS
  <2> HIDE DEF Bad
  <2> QED
    BY <1>1, <2>1, SmallestSet
<1>3. T # {}
  BY SumOfNone
<1>4. Some(T) \in T /\ IsFiniteSet(T)
  BY <1>3, SomeIsIn, FS_Subset
<1>5. SumFunctionOnSet(f, T \ {Some(T)}) \in Int
  BY <1>2, <1>4
<1> QED
  BY <1>3, <1>4, <1>5, SumTakesSome

\* The order does not matter: any element can be taken out.
LEMMA SumTakesOut ==
    ASSUME NEW S, IsFiniteSet(S), NEW f, \A x \in S : f[x] \in Int, NEW x \in S
    PROVE  SumFunctionOnSet(f, S) = f[x] + SumFunctionOnSet(f, S \ {x})
<1> DEFINE Bad == {T \in SUBSET S : \E y \in T :
                     SumFunctionOnSet(f, T) # f[y] + SumFunctionOnSet(f, T \ {y})}
<1>1. SUFFICES ASSUME Bad # {} PROVE FALSE
  OBVIOUS
<1>2. PICK T \in Bad : \A U \in Bad : ~ (U \subseteq T /\ U # T)
  <2>1. Bad \subseteq SUBSET S
    OBVIOUS
  <2> HIDE DEF Bad
  <2> QED
    BY <1>1, <2>1, SmallestSet
<1>3. PICK y \in T : SumFunctionOnSet(f, T) # f[y] + SumFunctionOnSet(f, T \ {y})
  OBVIOUS
<1> DEFINE c == Some(T)
           rest == T \ {c, y}
<1>4. c \in T /\ IsFiniteSet(T) /\ IsFiniteSet(rest)
  BY <1>3, SomeIsIn, FS_Subset
<1>5. SumFunctionOnSet(f, T) = f[c] + SumFunctionOnSet(f, T \ {c})
  BY <1>3, <1>4, SumTakesSome
<1>6. c # y
  BY <1>3, <1>5
<1>7. SumFunctionOnSet(f, T \ {c}) = f[y] + SumFunctionOnSet(f, rest)
  <2>1. T \ {c} \notin Bad
    BY <1>2, <1>4
  <2>2. y \in T \ {c} /\ T \ {c} \in SUBSET S /\ (T \ {c}) \ {y} = rest
    BY <1>6
  <2> QED
    BY <2>1, <2>2
<1>8. SumFunctionOnSet(f, T \ {y}) = f[c] + SumFunctionOnSet(f, rest)
  <2>1. T \ {y} \notin Bad
    BY <1>2, <1>4
  <2>2. c \in T \ {y} /\ T \ {y} \in SUBSET S /\ (T \ {y}) \ {c} = rest
    BY <1>6, <1>4
  <2> QED
    BY <2>1, <2>2
<1>9. SumFunctionOnSet(f, rest) \in Int /\ f[c] \in Int /\ f[y] \in Int
  BY <1>4, SumIsInt
<1> QED
  BY <1>3, <1>5, <1>7, <1>8, <1>9

\* Only the values on the set matter.
LEMMA SumSame ==
    ASSUME NEW S, IsFiniteSet(S), NEW f, NEW h, \A x \in S : f[x] = h[x]
    PROVE  SumFunctionOnSet(f, S) = SumFunctionOnSet(h, S)
<1> DEFINE Bad == {T \in SUBSET S : SumFunctionOnSet(f, T) # SumFunctionOnSet(h, T)}
<1>1. SUFFICES ASSUME Bad # {} PROVE FALSE
  OBVIOUS
<1>2. PICK T \in Bad : \A U \in Bad : ~ (U \subseteq T /\ U # T)
  <2>1. Bad \subseteq SUBSET S
    OBVIOUS
  <2> HIDE DEF Bad
  <2> QED
    BY <1>1, <2>1, SmallestSet
<1>3. T # {}
  BY SumOfNone
<1>4. Some(T) \in T /\ IsFiniteSet(T)
  BY <1>3, SomeIsIn, FS_Subset
<1>5. SumFunctionOnSet(f, T \ {Some(T)}) = SumFunctionOnSet(h, T \ {Some(T)})
  BY <1>2, <1>4
<1> QED
  BY <1>3, <1>4, <1>5, SumTakesSome

\* The sum follows a change at one element.
LEMMA SumChangesAt ==
    ASSUME NEW S, IsFiniteSet(S), NEW f, NEW h, NEW c \in S,
           \A x \in S : f[x] \in Int /\ h[x] \in Int,
           \A x \in S \ {c} : h[x] = f[x]
    PROVE  SumFunctionOnSet(h, S) = SumFunctionOnSet(f, S) - f[c] + h[c]
<1>1. IsFiniteSet(S \ {c})
  BY FS_Subset
<1>2. SumFunctionOnSet(f, S \ {c}) = SumFunctionOnSet(h, S \ {c})
  BY <1>1, SumSame
<1>3. SumFunctionOnSet(f, S \ {c}) \in Int
  BY <1>1, SumIsInt
<1>4. SumFunctionOnSet(f, S) = f[c] + SumFunctionOnSet(f, S \ {c})
  BY SumTakesOut
<1>5. SumFunctionOnSet(h, S) = h[c] + SumFunctionOnSet(h, S \ {c})
  BY SumTakesOut
<1> QED
  BY <1>2, <1>3, <1>4, <1>5

\* The sum of two functions, element by element.
LEMMA SumAdds ==
    ASSUME NEW S, IsFiniteSet(S), NEW f, NEW h, NEW k,
           \A x \in S : f[x] \in Int /\ h[x] \in Int /\ k[x] = f[x] + h[x]
    PROVE  SumFunctionOnSet(k, S) = SumFunctionOnSet(f, S) + SumFunctionOnSet(h, S)
<1> DEFINE Bad == {T \in SUBSET S : SumFunctionOnSet(k, T)
                                      # SumFunctionOnSet(f, T) + SumFunctionOnSet(h, T)}
<1>1. SUFFICES ASSUME Bad # {} PROVE FALSE
  OBVIOUS
<1>2. PICK T \in Bad : \A U \in Bad : ~ (U \subseteq T /\ U # T)
  <2>1. Bad \subseteq SUBSET S
    OBVIOUS
  <2> HIDE DEF Bad
  <2> QED
    BY <1>1, <2>1, SmallestSet
<1>3. T # {}
  <2>1. \A U : U = {} => /\ SumFunctionOnSet(f, U) = 0 /\ SumFunctionOnSet(h, U) = 0
                        /\ SumFunctionOnSet(k, U) = 0
    BY SumOfNone
  <2>2. 0 + 0 = 0
    OBVIOUS
  <2> QED
    BY <2>1, <2>2
<1> DEFINE c == Some(T)
           U == T \ {c}
<1>4. c \in T /\ c \in S /\ IsFiniteSet(T) /\ IsFiniteSet(U) /\ U \subseteq S
  BY <1>3, SomeIsIn, FS_Subset
<1>5. SumFunctionOnSet(k, U) = SumFunctionOnSet(f, U) + SumFunctionOnSet(h, U)
  BY <1>2, <1>4
<1>6. /\ SumFunctionOnSet(k, T) = k[c] + SumFunctionOnSet(k, U)
      /\ SumFunctionOnSet(f, T) = f[c] + SumFunctionOnSet(f, U)
      /\ SumFunctionOnSet(h, T) = h[c] + SumFunctionOnSet(h, U)
  BY <1>3, <1>4, SumTakesSome
<1>7. SumFunctionOnSet(f, U) \in Int /\ SumFunctionOnSet(h, U) \in Int
  BY <1>4, SumIsInt
<1>8. f[c] \in Int /\ h[c] \in Int /\ k[c] = f[c] + h[c]
  BY <1>4
<1>9. SumFunctionOnSet(k, T) # SumFunctionOnSet(f, T) + SumFunctionOnSet(h, T)
  OBVIOUS
<1> HIDE DEF U, c
<1> QED
  BY <1>5, <1>6, <1>7, <1>8, <1>9

LEMMA SumIsNat ==
    ASSUME NEW S, IsFiniteSet(S), NEW f, \A x \in S : f[x] \in Nat
    PROVE  SumFunctionOnSet(f, S) \in Nat
<1> DEFINE Bad == {T \in SUBSET S : SumFunctionOnSet(f, T) \notin Nat}
<1>1. SUFFICES ASSUME Bad # {} PROVE FALSE
  OBVIOUS
<1>2. PICK T \in Bad : \A U \in Bad : ~ (U \subseteq T /\ U # T)
  <2>1. Bad \subseteq SUBSET S
    OBVIOUS
  <2> HIDE DEF Bad
  <2> QED
    BY <1>1, <2>1, SmallestSet
<1>3. T # {}
  BY SumOfNone
<1>4. Some(T) \in T /\ IsFiniteSet(T)
  BY <1>3, SomeIsIn, FS_Subset
<1>5. SumFunctionOnSet(f, T \ {Some(T)}) \in Nat
  BY <1>2, <1>4
<1> QED
  BY <1>3, <1>4, <1>5, SumTakesSome

LEMMA SumIsMonotone ==
    ASSUME NEW S, IsFiniteSet(S), NEW f, NEW h,
           \A x \in S : f[x] \in Int /\ h[x] \in Int /\ f[x] <= h[x]
    PROVE  SumFunctionOnSet(f, S) <= SumFunctionOnSet(h, S)
<1> DEFINE k == [x \in S |-> h[x] - f[x]]
<1>1. \A x \in S : k[x] \in Nat /\ h[x] = f[x] + k[x]
  OBVIOUS
<1> HIDE DEF k
<1>2. SumFunctionOnSet(h, S) = SumFunctionOnSet(f, S) + SumFunctionOnSet(k, S)
  BY <1>1, SumAdds
<1>3. SumFunctionOnSet(k, S) \in Nat
  BY <1>1, SumIsNat
<1>4. SumFunctionOnSet(f, S) \in Int
  BY SumIsInt
<1> QED
  BY <1>2, <1>3, <1>4

\* What is zero outside a part adds up to its sum over that part.
LEMMA SumOverPart ==
    ASSUME NEW S, IsFiniteSet(S), NEW f, \A x \in S : f[x] \in Int,
           NEW T, T \subseteq S, \A x \in S \ T : f[x] = 0
    PROVE  SumFunctionOnSet(f, S) = SumFunctionOnSet(f, T)
<1> DEFINE Bad == {U \in SUBSET S : SumFunctionOnSet(f, U) # SumFunctionOnSet(f, U \cap T)}
<1>1. SUFFICES ASSUME Bad # {} PROVE FALSE
  <2>1. S \notin Bad
    OBVIOUS
  <2>2. S \cap T = T
    OBVIOUS
  <2> QED
    BY <2>1, <2>2
<1>2. PICK U \in Bad : \A V \in Bad : ~ (V \subseteq U /\ V # U)
  <2>1. Bad \subseteq SUBSET S
    OBVIOUS
  <2> HIDE DEF Bad
  <2> QED
    BY <1>1, <2>1, SmallestSet
<1>3. U # {}
  <2>1. {} \cap T = {}
    OBVIOUS
  <2> QED
    BY <2>1, SumOfNone
<1> DEFINE c == Some(U)
           V == U \ {c}
<1>4. c \in U /\ c \in S /\ IsFiniteSet(U) /\ IsFiniteSet(V) /\ V \subseteq S /\ IsFiniteSet(U \cap T)
  BY <1>3, SomeIsIn, FS_Subset
<1>5. SumFunctionOnSet(f, V) = SumFunctionOnSet(f, V \cap T)
  BY <1>2, <1>4
<1>6. SumFunctionOnSet(f, U) = f[c] + SumFunctionOnSet(f, V)
  BY <1>3, <1>4, SumTakesSome
<1>7. CASE c \in T
  <2>1. V \cap T = (U \cap T) \ {c} /\ c \in U \cap T
    BY <1>4, <1>7
  <2>2. \A x \in U \cap T : f[x] \in Int
    OBVIOUS
  <2>3. SumFunctionOnSet(f, U \cap T) = f[c] + SumFunctionOnSet(f, (U \cap T) \ {c})
    BY <1>4, <2>1, <2>2, SumTakesOut
  <2> QED
    BY <1>5, <1>6, <2>1, <2>3
<1>8. CASE c \notin T
  <2>1. V \cap T = U \cap T /\ f[c] = 0
    BY <1>4, <1>8
  <2>2. SumFunctionOnSet(f, V) \in Int
    BY <1>4, SumIsInt
  <2>3. SumFunctionOnSet(f, U) = SumFunctionOnSet(f, V)
    <3> HIDE DEF V, c, Bad
    <3> QED
      BY <1>6, <2>1, <2>2
  <2>4. SumFunctionOnSet(f, V) = SumFunctionOnSet(f, U \cap T)
    BY <1>5, <2>1
  <2> QED
    BY <2>3, <2>4
<1> QED
  BY <1>7, <1>8

LEMMA SumOfPartIsLess ==
    ASSUME NEW S, IsFiniteSet(S), NEW f, \A x \in S : f[x] \in Nat, NEW T, T \subseteq S
    PROVE  SumFunctionOnSet(f, T) <= SumFunctionOnSet(f, S)
<1> DEFINE h == [x \in S |-> IF x \in T THEN f[x] ELSE 0]
<1>1. /\ \A x \in S : h[x] \in Int /\ f[x] \in Int /\ h[x] <= f[x]
      /\ \A x \in S \ T : h[x] = 0
      /\ \A x \in T : h[x] = f[x]
  OBVIOUS
<1> HIDE DEF h
<1>2. SumFunctionOnSet(h, S) = SumFunctionOnSet(h, T)
  BY <1>1, SumOverPart
<1>3. IsFiniteSet(T)
  BY FS_Subset
<1>4. SumFunctionOnSet(h, T) = SumFunctionOnSet(f, T)
  BY <1>1, <1>3, SumSame
<1>5. SumFunctionOnSet(h, S) <= SumFunctionOnSet(f, S)
  BY <1>1, SumIsMonotone
<1> QED
  BY <1>2, <1>4, <1>5

LEMMA SumOfTwoParts ==
    ASSUME NEW S, IsFiniteSet(S), NEW f, \A x \in S : f[x] \in Int,
           NEW A, NEW B, A \cup B = S, A \cap B = {}
    PROVE  SumFunctionOnSet(f, S) = SumFunctionOnSet(f, A) + SumFunctionOnSet(f, B)
<1> DEFINE fA == [x \in S |-> IF x \in A THEN f[x] ELSE 0]
           fB == [x \in S |-> IF x \in B THEN f[x] ELSE 0]
<1>0. A \subseteq S /\ B \subseteq S
  OBVIOUS
<1>1. /\ \A x \in S : fA[x] \in Int /\ fB[x] \in Int /\ f[x] = fA[x] + fB[x]
      /\ \A x \in S \ A : fA[x] = 0
      /\ \A x \in S \ B : fB[x] = 0
      /\ \A x \in A : fA[x] = f[x]
      /\ \A x \in B : fB[x] = f[x]
  OBVIOUS
<1> HIDE DEF fA, fB
<1>2. SumFunctionOnSet(f, S) = SumFunctionOnSet(fA, S) + SumFunctionOnSet(fB, S)
  BY <1>1, SumAdds
<1>3. IsFiniteSet(A) /\ IsFiniteSet(B)
  BY <1>0, FS_Subset
<1>4. SumFunctionOnSet(fA, S) = SumFunctionOnSet(fA, A)
  BY <1>0, <1>1, SumOverPart
<1>5. SumFunctionOnSet(fB, S) = SumFunctionOnSet(fB, B)
  BY <1>0, <1>1, SumOverPart
<1>6. SumFunctionOnSet(fA, A) = SumFunctionOnSet(f, A) /\ SumFunctionOnSet(fB, B) = SumFunctionOnSet(f, B)
  BY <1>1, <1>3, SumSame
<1> QED
  BY <1>2, <1>4, <1>5, <1>6

\* The elements of a set in one group, and in some of them.
InGroup(S, of, g) == {x \in S : of[x] = g}
InGroups(S, of, G) == {x \in S : of[x] \in G}

\* Added up group by group, or all at once.
LEMMA SumByGroup ==
    ASSUME NEW S, IsFiniteSet(S), NEW f, \A x \in S : f[x] \in Int,
           NEW of, NEW G, IsFiniteSet(G), NEW k,
           \A g \in G : k[g] = SumFunctionOnSet(f, InGroup(S, of, g))
    PROVE  SumFunctionOnSet(k, G) = SumFunctionOnSet(f, InGroups(S, of, G))
<1> DEFINE In(H) == InGroups(S, of, H)
           Bad == {H \in SUBSET G : SumFunctionOnSet(k, H) # SumFunctionOnSet(f, In(H))}
<1>1. SUFFICES ASSUME Bad # {} PROVE FALSE
  OBVIOUS
<1>2. PICK H \in Bad : \A K \in Bad : ~ (K \subseteq H /\ K # H)
  <2>1. Bad \subseteq SUBSET G
    OBVIOUS
  <2> HIDE DEF Bad
  <2> QED
    BY <1>1, <2>1, SmallestSet
<1>3. H # {}
  <2>1. In({}) = {}
    BY DEF InGroups
  <2> QED
    BY <2>1, SumOfNone
<1> DEFINE c == Some(H)
           K == H \ {c}
           Only == InGroup(S, of, c)
<1>4. c \in H /\ c \in G /\ IsFiniteSet(H) /\ K \subseteq G
  BY <1>3, SomeIsIn, FS_Subset
<1>5. SumFunctionOnSet(k, K) = SumFunctionOnSet(f, In(K))
  BY <1>2, <1>4
<1>6. SumFunctionOnSet(k, H) = k[c] + SumFunctionOnSet(k, K)
  BY <1>3, <1>4, SumTakesSome
<1>7. /\ Only \cup In(K) = In(H) /\ Only \cap In(K) = {}
      /\ IsFiniteSet(In(H)) /\ \A x \in In(H) : f[x] \in Int
  <2>1. Only \cup In(K) = In(H) /\ Only \cap In(K) = {}
    BY <1>4 DEF InGroup, InGroups
  <2>2. In(H) \subseteq S
    BY DEF InGroups
  <2> QED
    BY <2>1, <2>2, FS_Subset
<1>8. SumFunctionOnSet(f, In(H)) = SumFunctionOnSet(f, Only) + SumFunctionOnSet(f, In(K))
  <2> HIDE DEF Only, In, K, Bad
  <2> QED
    BY <1>7, SumOfTwoParts
<1>9. k[c] = SumFunctionOnSet(f, Only)
  BY <1>4
<1> QED
  BY <1>5, <1>6, <1>8, <1>9
-----------------------------------------------------------------------------
(* Types.                                                                   *)

Processes ==
    /\ procs \in [Pids -> Process \cup {Gone}]
    /\ spent \in [Named -> Nat]
    /\ steady \subseteq Pids /\ renamed \in BOOLEAN

Connections ==
    /\ conns \in [Sockets -> Socket \cup {Gone}]
    /\ sent \in Nat
    /\ undone \subseteq {"closed", "ss", "mixed"}

\* Where the loop is, and what that says of the snapshots.
Place ==
    /\ moving \in Parts /\ moves \in 0..MaxMoves[moving]
    /\ pc \in {"argv", "stat", "socket", "log", "sleep", "logstat", "logread",
               "row", "done"}
    /\ pid \in Pids \cup {MaxPid + 1}
    /\ looping \in BOOLEAN /\ argv \in Named
    /\ pc = "stat" => pid \in Pids /\ argv \in Groups
    /\ pc \notin {"argv", "stat"} => pid = MaxPid + 1
    /\ pc = "log" => ~ looping
    /\ pc \in {"sleep", "logstat", "logread", "row", "done"} => looping
    /\ rows \in 0..MaxRows
    /\ pc # "done" => rows < MaxRows

IsSnapshot(taken) == DOMAIN taken \subseteq Pids /\ taken \in Snapshot(DOMAIN taken)

Snapshots ==
    /\ IsSnapshot(current) /\ IsSnapshot(before) /\ IsSnapshot(first.procs)
    /\ DOMAIN current \subseteq 1..pid - 1
    /\ pc \in {"sleep", "done"} => current = before
    /\ ~ looping => before = Nobody /\ first.procs = Nobody

SocketTotals ==
    /\ sock \in Totals /\ beforeSock \in Totals /\ first.sock \in Totals
    /\ looping /\ pc \in {"sleep", "argv", "stat", "socket", "done"} => sock = beforeSock
    /\ ~ looping => beforeSock.sent = 0 /\ first.sock.sent = 0

Reports ==
    /\ reported \in [Groups -> Nat] /\ bytes \in Nat
    /\ ~ looping => reported = [g \in Groups |-> 0] /\ bytes = 0

LEMMA ProcessesInductive ==
    ASSUME Processes, [Next]_vars
    PROVE  Processes'
<1>1. CASE UNCHANGED processVars
  BY <1>1 DEF Processes, processVars
<1>2. ASSUME NEW p \in Pids, Spawn(p)
      PROVE  Processes'
  BY <1>2 DEF Processes, Spawn, Process
<1>3. ASSUME NEW p \in Pids, Work(p)
      PROVE  Processes'
  <2>1. procs[p] \in Process
    BY <1>3 DEF Work, Processes
  <2>2. procs[p].group \in Named /\ [procs[p] EXCEPT !.ticks = @ + 1] \in Process
    BY <2>1 DEF Process
  <2>3. procs' = [procs EXCEPT ![p] = [procs[p] EXCEPT !.ticks = @ + 1]]
    BY <1>3 DEF Work
  <2>4. procs' \in [Pids -> Process \cup {Gone}]
    BY <2>2, <2>3 DEF Processes
  <2>5. spent' \in [Named -> Nat]
    BY <1>3, <2>2 DEF Work, Processes
  <2> QED
    BY <1>3, <2>4, <2>5 DEF Work, Processes
<1>4. ASSUME NEW p \in Pids, Rename(p)
      PROVE  Processes'
  <2>1. procs[p] \in Process
    BY <1>4 DEF Rename, Processes
  <2>2. PICK g \in Named : procs' = [procs EXCEPT ![p].group = g]
    BY <1>4 DEF Rename
  <2>3. [procs[p] EXCEPT !.group = g] \in Process
    BY <2>1 DEF Process
  <2>4. procs' \in [Pids -> Process \cup {Gone}]
    BY <2>2, <2>3 DEF Processes
  <2> QED
    BY <1>4, <2>4 DEF Rename, Processes
<1>5. ASSUME NEW p \in Pids, Exit(p)
      PROVE  Processes'
  BY <1>5 DEF Processes, Exit
<1>6. \/ UNCHANGED processVars
      \/ \E p \in Pids : Spawn(p) \/ Work(p) \/ Rename(p) \/ Exit(p)
  BY DEF Next, System, Sampler, ReadArgv, ReadStat, ProcessesRead, ReadSockets, SocketsFail,
         EnterLoop, Wake, SampleLog, WriteRow, outside, vars
<1> QED
  BY <1>1, <1>2, <1>3, <1>4, <1>5, <1>6

\* What the sampler does leaves the connections alone.
Watches ==
    /\ UNCHANGED connVars
    /\ \/ undone' = undone
       \/ undone' = undone \cup {"ss"}
       \/ undone' = undone \cup {"mixed"}

LEMMA ConnectionSteps ==
    ASSUME [Next]_vars
    PROVE  Watches \/ \E s \in Sockets : Connect(s) \/ Transmit(s) \/ Disconnect(s)
<1>1. CASE System
  BY <1>1 DEF System, Watches, connVars
<1>2. CASE ReadSockets
  <2>1. undone' = undone \/ undone' = undone \cup {"mixed"}
    BY <1>2 DEF ReadSockets
  <2> QED
    BY <1>2, <2>1 DEF ReadSockets, Watches, outside, connVars
<1> QED
  BY <1>1, <1>2
     DEF Next, Watches, Sampler, ReadArgv, ReadStat, ProcessesRead, SocketsFail,
         EnterLoop, Wake, SampleLog, WriteRow, outside, vars, connVars

\* A socket after each of the steps the system makes with it.
LEMMA SocketAfter ==
    ASSUME conns \in [Sockets -> Socket \cup {Gone}],
           NEW s \in Sockets, Connect(s) \/ Transmit(s) \/ Disconnect(s)
    PROVE  /\ conns'[s] \in Socket \cup {Gone}
           /\ conns' = [conns EXCEPT ![s] = conns'[s]]
           /\ Transmit(s) =>
                 /\ conns[s] \in Socket /\ conns'[s] \in Socket
                 /\ conns'[s].sent = conns[s].sent + 1 /\ conns'[s].state = conns[s].state
           /\ Connect(s) => conns[s] = Gone /\ conns'[s].sent = 0
           /\ Disconnect(s) => conns'[s] = Gone \/ conns'[s].state = "closing"
<1>1. CASE Connect(s)
  <2>1. [sent |-> 0, state |-> "estab"] \in Socket
    BY DEF Socket
  <2>2. conns'[s] = [sent |-> 0, state |-> "estab"]
    BY <1>1 DEF Connect
  <2>3. conns[s] = Gone
    BY <1>1 DEF Connect
  <2>4. ~ Transmit(s) /\ ~ Disconnect(s)
    BY <2>3 DEF Transmit, Disconnect
  <2> QED
    BY <1>1, <2>1, <2>2, <2>3, <2>4 DEF Connect
<1>2. CASE Transmit(s)
  <2>1. conns[s] \in Socket /\ conns[s] # Gone
    BY <1>2 DEF Transmit
  <2>2. conns'[s] = [conns[s] EXCEPT !.sent = @ + 1]
    BY <1>2, <2>1 DEF Transmit
  <2>3. conns'[s] \in Socket /\ conns'[s].sent = conns[s].sent + 1 /\ conns'[s].state = conns[s].state
    BY <2>1, <2>2 DEF Socket
  <2>4. ~ Connect(s)
    BY <2>1 DEF Connect
  <2>5. ~ Disconnect(s)
    <3>1. SUFFICES ASSUME Disconnect(s) PROVE FALSE
      OBVIOUS
    <3>2. conns'[s] # Gone
      BY <2>3, GoneIsNobody
    <3>3. conns'[s] = [conns[s] EXCEPT !.state = "closing"]
      BY <2>1, <3>1, <3>2 DEF Disconnect
    <3>4. conns'[s].sent = conns[s].sent
      BY <2>1, <3>3 DEF Socket
    <3>5. conns[s].sent \in Nat
      BY <2>1 DEF Socket
    <3> QED
      BY <2>3, <3>4, <3>5
  <2>6. conns' = [conns EXCEPT ![s] = conns'[s]]
    BY <1>2, <2>2 DEF Transmit
  <2> QED
    BY <2>1, <2>3, <2>4, <2>5, <2>6
<1>3. CASE Disconnect(s)
  <2>1. conns[s] \in Socket /\ conns[s] # Gone
    BY <1>3 DEF Disconnect
  <2>2. CASE conns' = [conns EXCEPT ![s] = Gone]
    <3>1. conns'[s] = Gone
      BY <2>2
    <3>2. ~ Transmit(s)
      <4>1. Transmit(s) => conns'[s] = [conns[s] EXCEPT !.sent = @ + 1]
        BY DEF Transmit
      <4>2. [conns[s] EXCEPT !.sent = @ + 1] \in Socket
        BY <2>1 DEF Socket
      <4> QED
        BY <3>1, <4>1, <4>2, GoneIsNobody
    <3> QED
      BY <2>1, <2>2, <3>1, <3>2 DEF Connect
  <2>3. CASE conns' = [conns EXCEPT ![s].state = "closing"]
    <3>1. conns'[s] = [conns[s] EXCEPT !.state = "closing"]
      BY <2>1, <2>3
    <3>2. conns'[s] \in Socket /\ conns'[s].state = "closing" /\ conns'[s].sent = conns[s].sent
      BY <2>1, <3>1 DEF Socket
    <3>3. conns[s].sent \in Nat
      BY <2>1 DEF Socket
    <3>4. ~ Transmit(s)
      <4>1. SUFFICES ASSUME Transmit(s) PROVE FALSE
        OBVIOUS
      <4>2. conns'[s] = [conns[s] EXCEPT !.sent = @ + 1]
        BY <4>1 DEF Transmit
      <4>3. conns'[s].sent = conns[s].sent + 1
        BY <2>1, <4>2 DEF Socket
      <4> QED
        BY <3>2, <3>3, <4>3
    <3>5. conns' = [conns EXCEPT ![s] = conns'[s]]
      BY <2>3, <3>1
    <3> QED
      BY <2>1, <3>2, <3>4, <3>5 DEF Connect
  <2> QED
    BY <1>3, <2>2, <2>3 DEF Disconnect
<1> QED
  BY <1>1, <1>2, <1>3

LEMMA ConnectionsInductive ==
    ASSUME Connections, [Next]_vars
    PROVE  Connections'
<1>1. CASE Watches
  BY <1>1 DEF Connections, Watches, connVars
<1>2. ASSUME NEW s \in Sockets, Connect(s) \/ Transmit(s) \/ Disconnect(s)
      PROVE  Connections'
  <2>1. conns' \in [Sockets -> Socket \cup {Gone}]
    <3>1. conns'[s] \in Socket \cup {Gone} /\ conns' = [conns EXCEPT ![s] = conns'[s]]
      BY <1>2, SocketAfter DEF Connections
    <3> QED
      BY <3>1 DEF Connections
  <2>2. sent' \in Nat
    BY <1>2 DEF Connections, Connect, Transmit, Disconnect
  <2>3. undone' \subseteq {"closed", "ss", "mixed"}
    BY <1>2 DEF Connections, Connect, Transmit, Disconnect
  <2> QED
    BY <2>1, <2>2, <2>3 DEF Connections
<1> QED
  BY <1>1, <1>2, ConnectionSteps

PlaceVars == <<moving, moves, pc, pid, looping, argv, rows>>

LEMMA PlaceInductive ==
    ASSUME Processes, Place, [Next]_vars
    PROVE  Place'
<1> USE SamplerBounds DEF Pids
<1>1. CASE UNCHANGED PlaceVars
  BY <1>1 DEF Place, PlaceVars
<1>2. CASE System
  BY <1>2 DEF Place, System, snapshotVars, rowVars
<1>3. CASE ReadArgv
  <2>1. pid \in Pids /\ (procs[pid] # Gone => procs[pid] \in Process)
    BY <1>3 DEF ReadArgv, Processes
  <2>2. procs[pid] # Gone /\ procs[pid].group # Other => procs[pid].group \in Groups
    BY <2>1 DEF Process, Named
  <2>3. Groups \subseteq Named
    BY DEF Named
  <2> QED
    BY <1>3, <2>1, <2>2, <2>3 DEF Place, ReadArgv, outside, rowVars
<1>4. CASE ReadStat
  BY <1>4 DEF Place, ReadStat, outside, rowVars, Named
<1>5. CASE ProcessesRead
  BY <1>5 DEF Place, ProcessesRead, outside, rowVars
<1>6. CASE ReadSockets \/ SocketsFail
  BY <1>6 DEF Place, ReadSockets, SocketsFail, SocketsRead, outside, rowVars
<1>7. CASE EnterLoop
  BY <1>7 DEF Place, EnterLoop, outside
<1>8. CASE Wake
  BY <1>8 DEF Place, Wake, outside, rowVars
<1>9. CASE SampleLog
  BY <1>9 DEF Place, SampleLog, outside, rowVars
<1>10. CASE WriteRow
  BY <1>10 DEF Place, WriteRow, outside
<1>11. CASE UNCHANGED vars
  BY <1>11, <1>1 DEF vars, PlaceVars, snapshotVars, rowVars
<1> QED
  BY <1>2, <1>3, <1>4, <1>5, <1>6, <1>7, <1>8, <1>9, <1>10, <1>11 DEF Next, Sampler

\* The snapshots change in four steps.
LEMMA SnapshotSteps ==
    ASSUME [Next]_vars
    PROVE  \/ ReadStat \/ EnterLoop \/ Wake \/ WriteRow
           \/ /\ UNCHANGED <<current, before, first, looping>>
              /\ \/ UNCHANGED <<pc, pid>>
                 \/ pid' \in {pid, pid + 1} /\ pc' \notin {"sleep", "done"}
BY DEF Next, System, Sampler, ReadArgv, ProcessesRead, ReadSockets, SocketsFail, SocketsRead,
       SampleLog, snapshotVars, rowVars, vars

LEMMA SnapshotsInductive ==
    ASSUME Processes, Place, Snapshots, [Next]_vars
    PROVE  Snapshots'
<1> USE SamplerBounds DEF Pids
<1>1. CASE UNCHANGED <<current, before, first, looping>> /\ UNCHANGED <<pc, pid>>
  BY <1>1 DEF Snapshots, IsSnapshot, Snapshot
<1>2. CASE /\ UNCHANGED <<current, before, first, looping>>
           /\ pid' \in {pid, pid + 1} /\ pc' \notin {"sleep", "done"}
  <2>1. pid \in Int
    BY DEF Place
  <2>2. ASSUME NEW n \in {pid, pid + 1} PROVE 1..pid - 1 \subseteq 1..n - 1
    BY <2>1
  <2> QED
    BY <1>2, <2>2 DEF Snapshots, IsSnapshot, Snapshot
<1>3. CASE ReadStat
  <2>1. pid \in Pids /\ argv \in Groups
    BY <1>3 DEF ReadStat, Place
  <2>2. pid' = pid + 1 /\ pc' = "argv" /\ UNCHANGED <<before, first, looping>>
    BY <1>3 DEF ReadStat, rowVars
  <2>3. IsSnapshot(current') /\ DOMAIN current' \subseteq 1..pid
    <3>1. CASE procs[pid] = Gone
      <4>1. current' = current
        BY <1>3, <3>1 DEF ReadStat
      <4> QED
        BY <2>1, <4>1 DEF Snapshots
    <3>2. CASE procs[pid] # Gone
      <4>1. procs[pid] \in Process
        BY <2>1, <3>2 DEF Processes
      <4>2. [group |-> argv, ticks |-> procs[pid].ticks] \in [group : Groups, ticks : Nat]
        BY <2>1, <4>1 DEF Process
      <4>3. current' = [p \in DOMAIN current \cup {pid} |->
                          IF p = pid THEN [group |-> argv, ticks |-> procs[pid].ticks]
                                     ELSE current[p]]
        BY <1>3, <3>2 DEF ReadStat
      <4>4. current \in [DOMAIN current -> [group : Groups, ticks : Nat]]
            /\ DOMAIN current \subseteq 1..pid - 1
        BY DEF Snapshots, IsSnapshot, Snapshot
      <4>5. DOMAIN current' = DOMAIN current \cup {pid}
        BY <4>3
      <4>6. current' \in [DOMAIN current' -> [group : Groups, ticks : Nat]]
        BY <4>2, <4>3, <4>4, <4>5
      <4> QED
        BY <2>1, <4>4, <4>5, <4>6 DEF IsSnapshot, Snapshot
    <3> QED
      BY <3>1, <3>2
  <2>4. pid' - 1 = pid
    BY <2>1, <2>2
  <2> QED
    BY <2>2, <2>3, <2>4 DEF Snapshots, IsSnapshot, Snapshot
<1>4. CASE EnterLoop
  BY <1>4 DEF Snapshots, IsSnapshot, Snapshot, EnterLoop
<1>5. CASE Wake
  <2>1. IsSnapshot(Nobody)
    BY DEF IsSnapshot, Snapshot, Nobody
  <2>2. DOMAIN current' = {}
    BY <1>5 DEF Wake, Nobody
  <2> QED
    BY <1>5, <2>1, <2>2 DEF Snapshots, IsSnapshot, Snapshot, Wake, rowVars
<1>6. CASE WriteRow
  BY <1>6 DEF Snapshots, IsSnapshot, Snapshot, WriteRow, Kept, Place
<1> QED
  BY <1>1, <1>2, <1>3, <1>4, <1>5, <1>6, SnapshotSteps

LEMMA GrowthIsNat ==
    ASSUME NEW a \in Nat, NEW b \in Nat
    PROVE  Growth(a, b) \in Nat
BY DEF Growth

LEMMA AddedIsTotals ==
    ASSUME Connections, NEW info \in Infos
    PROVE  Added(info) \in Totals
<1>1. IsFiniteSet(Conns) /\ Listed \subseteq Conns
  BY SamplerBounds DEF Listed
<1>2. IsFiniteSet(Listed) /\ Cardinality(Listed) <= Cardinality(Conns)
  BY <1>1, FS_Subset
<1>3. Cardinality(Listed) \in 0..Cardinality(Conns)
  BY <1>1, <1>2, FS_CardinalityType
<1>4. ASSUME NEW c \in Listed PROVE conns[info[c]].sent \in Nat
  <2>1. info[c] \in Sockets /\ (info[c] = c \/ info[c] \in Unfinished)
    BY DEF Infos
  <2>2. conns[info[c]] # Gone
    BY <1>4, <2>1 DEF Listed, Unfinished
  <2> QED
    BY <2>1, <2>2 DEF Connections, Socket
<1>5. SumFunctionOnSet([c \in Listed |-> conns[info[c]].sent], Listed) \in Nat
  <2>1. \A c \in Listed : [d \in Listed |-> conns[info[d]].sent][c] \in Nat
    BY <1>4
  <2> QED
    BY <1>2, <2>1, SumIsNat
<1> QED
  BY <1>3, <1>5 DEF Added, Totals

LEMMA NoConnectionsIsTotals == NoConnections \in Totals
<1>1. Cardinality(Conns) \in Nat
  BY SamplerBounds, FS_CardinalityType
<1> QED
  BY <1>1 DEF NoConnections, Totals

LEMMA SocketTotalsInductive ==
    ASSUME Connections, Place, SocketTotals, [Next]_vars
    PROVE  SocketTotals'
<1>1. CASE /\ UNCHANGED <<sock, beforeSock, first, looping>>
           /\ pc' \in {"sleep", "argv", "stat", "socket", "done"}
                => pc \in {"sleep", "argv", "stat", "socket", "done"}
  BY <1>1 DEF SocketTotals
<1>2. CASE ReadSockets
  <2>1. sock' \in Totals
    BY <1>2, AddedIsTotals DEF ReadSockets
  <2> QED
    BY <1>2, <2>1 DEF SocketTotals, ReadSockets, SocketsRead, rowVars
<1>3. CASE SocketsFail
  BY <1>3, NoConnectionsIsTotals DEF SocketTotals, SocketsFail, SocketsRead, rowVars
<1>4. CASE EnterLoop
  BY <1>4 DEF SocketTotals, EnterLoop
<1>5. CASE WriteRow
  BY <1>5 DEF SocketTotals, WriteRow, Place
<1> QED
  BY <1>1, <1>2, <1>3, <1>4, <1>5
     DEF Next, System, Sampler, ReadArgv, ReadStat, ProcessesRead, Wake, SampleLog, snapshotVars,
         rowVars, vars

LEMMA DueIsNat ==
    ASSUME IsSnapshot(current), IsSnapshot(before), NEW p \in DOMAIN current
    PROVE  Growth(current[p].ticks, TicksBefore(p)) \in Nat
<1>1. current[p] \in [group : Groups, ticks : Nat]
  BY DEF IsSnapshot, Snapshot
<1>2. p \in DOMAIN before => before[p] \in [group : Groups, ticks : Nat]
  BY DEF IsSnapshot, Snapshot
<1>3. TicksBefore(p) \in Nat
  BY <1>1, <1>2 DEF TicksBefore
<1> QED
  BY <1>1, <1>3, GrowthIsNat

LEMMA PidsAreFinite == IsFiniteSet(Pids)
BY SamplerBounds, FS_Interval DEF Pids

LEMMA TicksIsNat ==
    ASSUME IsSnapshot(current), IsSnapshot(before), NEW g
    PROVE  Ticks(g) \in Nat
<1> DEFINE D == {p \in DOMAIN current : current[p].group = g}
           f == [p \in DOMAIN current |-> Growth(current[p].ticks, TicksBefore(p))]
<1>1. D \subseteq Pids /\ IsFiniteSet(D)
  BY PidsAreFinite, FS_Subset DEF IsSnapshot
<1>2. \A p \in D : f[p] \in Nat
  BY DueIsNat
<1> HIDE DEF D, f
<1>3. SumFunctionOnSet(f, D) \in Nat
  BY <1>1, <1>2, SumIsNat
<1> QED
  BY <1>3 DEF Ticks, D, f

LEMMA ReportsInductive ==
    ASSUME Snapshots, SocketTotals, Place, Reports, [Next]_vars
    PROVE  Reports'
<1>1. CASE UNCHANGED <<reported, bytes>> /\ looping' \in {looping, TRUE}
  BY <1>1 DEF Reports, Place
<1>2. CASE WriteRow
  <2>1. \A g \in Groups : Ticks(g) \in Nat
    BY TicksIsNat DEF Snapshots
  <2>2. \A g \in Groups : reported[g] + Ticks(g) \in Nat
    BY <2>1 DEF Reports
  <2>3. reported' = [g \in Groups |-> reported[g] + Ticks(g)]
    BY <1>2 DEF WriteRow
  <2>4. reported' \in [Groups -> Nat]
    BY <2>2, <2>3
  <2>5. Growth(sock.sent, beforeSock.sent) \in Nat
    BY GrowthIsNat DEF SocketTotals, Totals
  <2>6. bytes' \in Nat
    BY <1>2, <2>5 DEF WriteRow, Reports
  <2>7. looping' 
    BY <1>2 DEF WriteRow, Place
  <2> QED
    BY <2>4, <2>6, <2>7 DEF Reports
<1> QED
  BY <1>1, <1>2
     DEF Next, System, Sampler, ReadArgv, ReadStat, ProcessesRead, ReadSockets, SocketsFail, EnterLoop,
         Wake, SampleLog, snapshotVars, rowVars, vars
-----------------------------------------------------------------------------
\* LogTypeOK, with what LogInv says of the counts.
LEMMA LogTypeKept ==
    ASSUME LogTypeOK, LogInv, LogInv', [Next]_vars
    PROVE  LogTypeOK'
<1>1. CASE LogRotates \/ LogRemoved \/ LogCreated
  <2>1. log' \in Seq(Piece) \cup {Missing} /\ from' \in Nat /\ followed' \in BOOLEAN
    <3>1. log' \in {<<>>, Missing}
      BY <1>1 DEF LogRotates, LogRemoved, LogCreated
    <3>2. <<>> \in Seq(Piece)
      OBVIOUS
    <3>3. CASE UNCHANGED cursorVars
      BY <3>1, <3>2, <3>3 DEF LogTypeOK, cursorVars
    <3>4. CASE Unfollowed
      <4>1. from' = 0 /\ followed' = (offset = 0)
        BY <3>4 DEF Unfollowed
      <4> QED
        BY <3>1, <3>2, <4>1
    <3> QED
      BY <1>1, <3>3, <3>4 DEF LogRotates, LogRemoved, LogCreated
  <2>2. UNCHANGED <<entries, offset, counted, earlier, cut>>
    BY <1>1 DEF LogRotates, LogRemoved, LogCreated, cursorVars
  <2> QED
    BY <2>1, <2>2 DEF LogTypeOK
<1>2. CASE LogWrites
  <2>1. log \in Seq(Piece) /\ entries' \in Entry /\ entries' \in 0..MaxEntries
    BY <1>2, LogSizesAreNat DEF LogTypeOK, LogWrites, Entry
  <2>2. <<entries', 1>> \in Piece /\ <<entries', 2>> \in Piece
    BY <2>1 DEF Piece
  <2>3. log' = log \o <<<<entries', 1>>, <<entries', 2>>>>
    BY <1>2 DEF LogWrites
  <2>4. log' \in Seq(Piece)
    BY <2>1, <2>2, <2>3, TwoMore
  <2> QED
    BY <1>2, <2>1, <2>4 DEF LogTypeOK, LogWrites, cursorVars
<1>3. CASE LogOpen
  BY <1>3 DEF LogTypeOK, LogOpen, fileVars
<1>4. CASE LogStat
  <2>1. /\ offset' \in {0, offset} /\ from' \in {0, from}
        /\ UNCHANGED <<log, entries, counted, earlier, cut>>
    BY <1>4 DEF LogStat, Resume, fileVars
  <2>2. offset' \in Nat /\ from' \in Nat
    BY <2>1 DEF LogTypeOK
  <2>3. followed' \in BOOLEAN
    <3>1. CASE followed' = followed
      BY <3>1 DEF LogTypeOK
    <3>2. CASE followed' = TRUE
      BY <3>2
    <3> QED
      BY <1>4, <3>1, <3>2 DEF LogStat
  <2> QED
    BY <2>1, <2>2, <2>3 DEF LogTypeOK
<1>5. CASE LogRead
  <2> DEFINE data == SubSeq(log, offset + 1, Least(offset + ReadSize, Len(log)))
  <2>1. Len(data) \in Nat
    BY <1>5, DataFacts DEF LogRead, LogInv
  <2>2. offset' = offset + Len(data)
    BY <1>5 DEF LogRead
  <2> HIDE DEF data
  <2>3. offset' \in Nat
    BY <2>1, <2>2 DEF LogTypeOK
  <2>4. counted' \in [Entry -> Nat]
    BY DEF LogInv, Numbers
  <2>5. cut' \subseteq Entry
    BY <1>5 DEF LogRead, LogTypeOK
  <2>6. UNCHANGED <<log, entries, earlier, from, followed>>
    BY <1>5 DEF LogRead, fileVars
  <2> QED
    BY <2>3, <2>4, <2>5, <2>6 DEF LogTypeOK
<1>6. CASE UNCHANGED logVars
  BY <1>6 DEF logVars, fileVars, cursorVars, LogTypeOK
<1> QED
  BY <1>1, <1>2, <1>3, <1>4, <1>5, <1>6
     DEF Next, System, LogMoves, Sampler, ReadArgv, ReadStat, ProcessesRead, ReadSockets, SocketsFail,
     EnterLoop, Wake, SampleLog, LogMissing, WriteRow, vars

\* The inductive invariant of the types.
SamplerInv ==
    /\ LogInv /\ OpenedOnce /\ LogTypeOK
    /\ Processes /\ Connections /\ Place /\ Snapshots /\ SocketTotals /\ Reports

LEMMA SamplerInvImpliesTypes == SamplerInv => TypeOK
<1>1. \A taken \in {current, before, first.procs} : IsSnapshot(taken) <=>
          DOMAIN taken \subseteq Pids /\ taken \in Snapshot(DOMAIN taken)
  BY DEF IsSnapshot
<1> QED
  BY <1>1 DEF SamplerInv, TypeOK, Processes, Connections, Place, Snapshots, SocketTotals, Reports

LEMMA InitTypes == Init => SamplerInv
<1> SUFFICES ASSUME Init PROVE SamplerInv
  OBVIOUS
<1>1. LogInv /\ OpenedOnce
  BY InitLog
<1>2. LogTypeOK
  <2>1. entries \in {0, 1} /\ log \in {Missing, <<>>, Written(entries)}
    BY DEF Init, LogInit
  <2>2. log \in Seq(Piece) \cup {Missing}
    <3>1. CASE log = Written(0)
      <4>1. log = <<>>
        BY <3>1 DEF Written
      <4> QED
        BY <4>1
    <3>2. CASE log = Written(1)
      <4>1. log = <<<<1, 1>>, <<1, 2>>>>
        BY <3>2 DEF Written
      <4>2. <<1, 1>> \in Piece /\ <<1, 2>> \in Piece
        BY LogSizesAreNat DEF Piece, Entry
      <4> QED
        BY <4>1, <4>2
    <3>3. log \in {Missing, <<>>, Written(0), Written(1)}
      BY <2>1
    <3>4. <<>> \in Seq(Piece)
      OBVIOUS
    <3> QED
      BY <3>1, <3>2, <3>3, <3>4
  <2> QED
    BY <2>1, <2>2, LogSizesAreNat DEF Init, LogInit, LogTypeOK
<1>3. Processes
  <2>1. ASSUME NEW p \in Pids PROVE procs[p] \in Process \cup {Gone}
    <3>1. procs[p] \in [group : Named, ticks : {q - 1 : q \in Pids}] \cup {Gone}
      BY DEF Init
    <3>2. {q - 1 : q \in Pids} \subseteq Nat
      BY SamplerBounds DEF Pids
    <3> QED
      BY <3>1, <3>2 DEF Process
  <2>2. procs = [p \in Pids |-> procs[p]]
    BY DEF Init
  <2>3. procs \in [Pids -> Process \cup {Gone}]
    BY <2>1, <2>2
  <2> QED
    BY <2>3 DEF Init, Processes
<1>4. Connections
  <2>1. [sent : {1}, state : {"estab"}] \subseteq Socket
    BY DEF Socket
  <2>2. conns \in [Sockets -> Socket \cup {Gone}]
    BY <2>1 DEF Init
  <2> QED
    BY <2>2 DEF Init, Connections
<1>5. Place
  <2>1. /\ moving \in Parts /\ moves = 0 /\ pc = "argv" /\ pid = 1 /\ argv = Other
        /\ looping = FALSE /\ rows = 0
    BY DEF Init
  <2>2. 1 \in Pids \cup {MaxPid + 1}
    BY SamplerBounds DEF Pids
  <2>3. 0 \in 0..MaxMoves[moving] /\ 0 < MaxRows /\ 0 \in 0..MaxRows
    BY <2>1, SamplerBounds
  <2> QED
    BY <2>1, <2>2, <2>3 DEF Place, Named
<1>6. IsSnapshot(Nobody) /\ DOMAIN Nobody = {}
  BY DEF IsSnapshot, Snapshot, Nobody
<1>7. Snapshots
  BY <1>6 DEF Init, Snapshots
<1>8. SocketTotals
  BY NoConnectionsIsTotals DEF Init, SocketTotals, NoConnections
<1>9. Reports
  BY DEF Init, Reports
<1> QED
  BY <1>1, <1>2, <1>3, <1>4, <1>5, <1>7, <1>8, <1>9 DEF SamplerInv

LEMMA SamplerInvKept == SamplerInv /\ [Next]_vars => SamplerInv'
BY LogStepKeeps, OpenedOnceKeeps, LogTypeKept, ProcessesInductive, ConnectionsInductive, PlaceInductive,
   SnapshotsInductive, SocketTotalsInductive, ReportsInductive DEF SamplerInv

\* The types of EpisodeSampler, for any number of processes, connections and rows.
THEOREM SamplerTypes == Spec => []TypeOK
BY InitTypes, SamplerInvKept, SamplerInvImpliesTypes, PTL DEF Spec
-----------------------------------------------------------------------------
(* The bytes of the connections.                                            *)

\* What the connections to the RDP port that are listed have sent.
Total == SumFunctionOnSet([c \in Listed |-> conns[c].sent], Listed)

Established(k) == {c \in Conns : k[c] # Gone /\ k[c].state = "estab"}

\* The counter of each connection of k, zero for one that is not listed.
Counters(k) == [c \in Conns |-> IF c \in Established(k) THEN k[c].sent ELSE 0]

LEMMA TotalOf ==
    ASSUME NEW k \in [Sockets -> Socket \cup {Gone}], NEW L, L = Established(k)
    PROVE  /\ SumFunctionOnSet([c \in L |-> k[c].sent], L) = SumFunctionOnSet(Counters(k), Conns)
           /\ \A c \in Conns : Counters(k)[c] \in Nat
<1>1. IsFiniteSet(Conns) /\ L \subseteq Conns /\ IsFiniteSet(L)
  BY SamplerBounds, FS_Subset DEF Established
<1>2. ASSUME NEW c \in L PROVE k[c].sent \in Nat
  BY <1>2 DEF Established, Sockets, Socket
<1>3. /\ \A c \in Conns : Counters(k)[c] \in Int /\ Counters(k)[c] \in Nat
      /\ \A c \in Conns \ L : Counters(k)[c] = 0
      /\ \A c \in L : Counters(k)[c] = [d \in L |-> k[d].sent][c]
  BY <1>1, <1>2 DEF Counters
<1>4. SumFunctionOnSet(Counters(k), Conns) = SumFunctionOnSet(Counters(k), L)
  BY <1>1, <1>3, SumOverPart
<1>5. SumFunctionOnSet(Counters(k), L) = SumFunctionOnSet([c \in L |-> k[c].sent], L)
  BY <1>1, <1>3, SumSame
<1> QED
  BY <1>3, <1>4, <1>5

LEMMA TotalIsSum ==
    ASSUME Connections
    PROVE  Total = SumFunctionOnSet(Counters(conns), Conns) /\ Total \in Nat
<1>1. Listed = Established(conns)
  BY DEF Listed, Established
<1>2. Total = SumFunctionOnSet(Counters(conns), Conns)
  BY <1>1, TotalOf DEF Connections, Total
<1>3. SumFunctionOnSet(Counters(conns), Conns) \in Nat
  BY <1>1, TotalOf, SamplerBounds, SumIsNat DEF Connections
<1> QED
  BY <1>2, <1>3

\* With no closing socket listed behind a connection, the total is read.
LEMMA UnmixedIsTotal ==
    ASSUME NEW info \in Infos, \A c \in Listed : info[c] = c
    PROVE  Added(info).sent = Total
<1>1. [c \in Listed |-> conns[info[c]].sent] = [c \in Listed |-> conns[c].sent]
  OBVIOUS
<1> QED
  BY <1>1 DEF Added, Total

\* What a step does to the total of the connections.
LEMMA TotalSteps ==
    ASSUME Connections, Connections', [Next]_vars
    PROVE  /\ Total' \in Nat
           /\ \/ /\ Total' = Total /\ UNCHANGED sent
                 /\ \/ undone' = undone
                    \/ undone' = undone \cup {"ss"}
                    \/ undone' = undone \cup {"mixed"}
              \/ Total' \in {Total, Total + 1} /\ sent' = sent + 1 /\ UNCHANGED undone
              \/ Total' <= Total /\ UNCHANGED sent /\ undone' = undone \cup {"closed"}
<1> DEFINE f == Counters(conns)
           h == Counters(conns')
<1>1. Total = SumFunctionOnSet(f, Conns) /\ \A c \in Conns : f[c] \in Nat
  BY TotalIsSum, TotalOf DEF Connections
<1>2. Total' = SumFunctionOnSet(h, Conns) /\ \A c \in Conns : h[c] \in Nat
  <2>1. Total' = SumFunctionOnSet([c \in Listed' |-> conns'[c].sent], Listed')
    BY DEF Total
  <2>2. Listed' = Established(conns') /\ conns' \in [Sockets -> Socket \cup {Gone}]
    BY DEF Listed, Established, Connections
  <2> QED
    BY <2>1, <2>2, TotalOf
<1>3. Total \in Nat
  BY TotalIsSum
<1>4. Total' \in Nat
  <2> HIDE DEF h
  <2> QED
    BY <1>2, SumIsNat, SamplerBounds
<1>5. CASE Watches
  <2>1. Total' = Total
    BY <1>1, <1>2, <1>5 DEF Watches, connVars
  <2> QED
    BY <1>4, <1>5, <2>1 DEF Watches, connVars
<1>6. ASSUME NEW s \in Sockets, Connect(s) \/ Transmit(s) \/ Disconnect(s)
      PROVE  \/ Total' = Total /\ UNCHANGED <<sent, undone>>
             \/ Total' \in {Total, Total + 1} /\ sent' = sent + 1 /\ UNCHANGED undone
             \/ Total' <= Total /\ UNCHANGED sent /\ undone' = undone \cup {"closed"}
  <2>1. conns' = [conns EXCEPT ![s] = conns'[s]] /\ conns \in [Sockets -> Socket \cup {Gone}]
    BY <1>6, SocketAfter DEF Connections
  <2>2. CASE s \notin Conns
    <3>1. \A c \in Conns : conns'[c] = conns[c]
      BY <2>1, <2>2 DEF Sockets
    <3>2. \A c \in Conns : h[c] = f[c]
      BY <3>1 DEF Counters, Established
    <3>3. Total' = Total
      <4> HIDE DEF f, h
      <4> QED
        BY <1>1, <1>2, <3>2, SumSame, SamplerBounds
    <3> QED
      BY <1>6, <2>2, <3>3 DEF Connect, Transmit, Disconnect
  <2>3. CASE s \in Conns
    <3>1. \A d \in Conns \ {s} : conns'[d] = conns[d]
      BY <2>1 DEF Sockets
    <3>2. \A d \in Conns \ {s} : h[d] = f[d]
      BY <3>1 DEF Counters, Established
    <3>3. Total' = Total - f[s] + h[s] /\ f[s] \in Nat /\ h[s] \in Nat
      <4>1. \A d \in Conns : f[d] \in Int /\ h[d] \in Int
        BY <1>1, <1>2
      <4> HIDE DEF f, h
      <4> QED
        BY <1>1, <1>2, <2>3, <3>2, <4>1, SumChangesAt, SamplerBounds
    <3>4. /\ f[s] = IF conns[s] # Gone /\ conns[s].state = "estab" THEN conns[s].sent ELSE 0
          /\ h[s] = IF conns'[s] # Gone /\ conns'[s].state = "estab" THEN conns'[s].sent ELSE 0
      BY <2>3 DEF Counters, Established
    <3>5. CASE Connect(s)
      <4>1. f[s] = 0 /\ h[s] = 0
        BY <1>6, <2>1, <3>4, <3>5, SocketAfter
      <4> HIDE DEF f, h
      <4> QED
        BY <1>3, <3>3, <3>5, <4>1 DEF Connect
    <3>6. CASE Transmit(s)
      <4>1. /\ conns[s] \in Socket /\ conns'[s] \in Socket
            /\ conns'[s].sent = conns[s].sent + 1 /\ conns'[s].state = conns[s].state
        BY <2>1, <3>6, SocketAfter
      <4>2. conns[s] # Gone /\ conns'[s] # Gone
        BY <4>1, GoneIsNobody
      <4>3. h[s] \in {f[s], f[s] + 1}
        BY <3>4, <4>1, <4>2
      <4> HIDE DEF f, h
      <4> QED
        BY <1>3, <2>3, <3>3, <3>6, <4>3 DEF Transmit
    <3>7. CASE Disconnect(s)
      <4>1. h[s] = 0
        BY <2>1, <3>4, <3>7, SocketAfter
      <4> HIDE DEF f, h
      <4> QED
        BY <1>3, <2>3, <3>3, <3>7, <4>1 DEF Disconnect
    <3> QED
      BY <1>6, <3>5, <3>6, <3>7
  <2> QED
    BY <2>2, <2>3
<1> QED
  BY <1>4, <1>5, <1>6, ConnectionSteps

\* What is sent covers the rows, the row to come and what the connections have
\* sent since the last snapshot.
BytesInv ==
    "ss" \notin undone /\ "mixed" \notin undone =>
        /\ looping => bytes + Growth(sock.sent, beforeSock.sent) + Growth(Total, sock.sent) <= sent
        /\ pc = "log" => Growth(Total, sock.sent) <= sent
        /\ "closed" \notin undone =>
            /\ looping => beforeSock.sent <= sock.sent /\ bytes = beforeSock.sent - first.sock.sent
            /\ looping \/ pc = "log" => sock.sent <= Total

LEMMA BytesNumbers ==
    ASSUME SamplerInv
    PROVE  /\ sock.sent \in Nat /\ beforeSock.sent \in Nat /\ first.sock.sent \in Nat
           /\ bytes \in Nat /\ sent \in Nat /\ Total \in Nat
BY TotalIsSum DEF SamplerInv, SocketTotals, Totals, Reports, Connections

LEMMA BytesInvKept ==
    ASSUME SamplerInv, SamplerInv', BytesInv, [Next]_vars
    PROVE  BytesInv'
<1>1. /\ sock.sent \in Nat /\ beforeSock.sent \in Nat /\ first.sock.sent \in Nat
      /\ bytes \in Nat /\ sent \in Nat /\ Total \in Nat
  BY BytesNumbers
<1>2. Total' \in Nat
  BY TotalSteps DEF SamplerInv
<1> USE DEF Growth
<1>3. SUFFICES ASSUME "ss" \notin undone', "mixed" \notin undone' PROVE BytesInv'
  BY DEF BytesInv
<1>4. CASE UNCHANGED <<sock, beforeSock, first, bytes, looping>> /\ (pc' = "log" => pc = "log")
  <2>1. \/ Total' = Total /\ UNCHANGED sent /\ undone' = undone
        \/ Total' \in {Total, Total + 1} /\ sent' = sent + 1 /\ UNCHANGED undone
        \/ Total' <= Total /\ UNCHANGED sent /\ undone' = undone \cup {"closed"}
    BY <1>3, TotalSteps DEF SamplerInv
  <2>2. CASE Total' = Total /\ UNCHANGED sent /\ undone' = undone
    BY <1>3, <1>4, <2>2 DEF BytesInv
  <2>3. CASE Total' \in {Total, Total + 1} /\ sent' = sent + 1 /\ UNCHANGED undone
    BY <1>1, <1>3, <1>4, <2>3 DEF BytesInv
  <2>4. CASE Total' <= Total /\ UNCHANGED sent /\ undone' = undone \cup {"closed"}
    BY <1>1, <1>2, <1>3, <1>4, <2>4 DEF BytesInv
  <2> QED
    BY <2>1, <2>2, <2>3, <2>4
<1>5. CASE ReadSockets
  <2>1. /\ sock'.sent = Total /\ Total' = Total /\ pc = "socket"
        /\ UNCHANGED <<beforeSock, first, bytes, sent, looping, undone>>
        /\ pc' = IF looping THEN "logstat" ELSE "log"
    <3>1. PICK info \in Infos :
            /\ sock' = Added(info)
            /\ undone' = IF \A c \in Listed : info[c] = c THEN undone ELSE undone \cup {"mixed"}
      BY <1>5 DEF ReadSockets
    <3>2. \A c \in Listed : info[c] = c
      BY <1>3, <3>1
    <3>3. sock'.sent = Total /\ undone' = undone
      BY <3>1, <3>2, UnmixedIsTotal
    <3> QED
      BY <1>5, <3>3 DEF ReadSockets, SocketsRead, Total, Listed, outside, connVars, rowVars
  <2>2. looping => sock = beforeSock
    BY <2>1 DEF SamplerInv, SocketTotals
  <2> QED
    BY <1>1, <1>3, <2>1, <2>2 DEF BytesInv
<1>6. CASE EnterLoop
  <2>1. /\ beforeSock' = sock /\ first'.sock = sock /\ sock' = sock /\ Total' = Total /\ pc = "log"
        /\ pc' = "sleep" /\ UNCHANGED <<bytes, sent, undone>>
    BY <1>6 DEF EnterLoop, Total, Listed, outside, connVars
  <2>2. bytes = 0
    BY <2>1 DEF SamplerInv, Place, Reports
  <2> QED
    BY <1>1, <1>3, <2>1, <2>2 DEF BytesInv
<1>7. CASE WriteRow
  <2>1. /\ bytes' = bytes + Growth(sock.sent, beforeSock.sent)
        /\ beforeSock' = sock /\ sock' = sock /\ first' = first /\ Total' = Total /\ looping
        /\ pc' # "log" /\ UNCHANGED <<sent, undone, looping>>
    BY <1>7 DEF WriteRow, Total, Listed, outside, connVars, SamplerInv, Place
  <2> QED
    BY <1>1, <1>3, <2>1 DEF BytesInv
<1>8. ~ SocketsFail
  BY <1>3 DEF SocketsFail
<1> QED
  BY <1>4, <1>5, <1>6, <1>7, <1>8
     DEF Next, System, Sampler, ReadArgv, ReadStat, ProcessesRead, Wake, SampleLog, snapshotVars,
         rowVars, vars

\* The bytes reported were sent while the sampler ran, for any number of
\* connections that come and go, as long as each ss call answered and listed no
\* closing socket behind a connection.
THEOREM BytesAreSent == Spec => []BytesWereSent
<1>1. Init => BytesInv
  BY DEF Init, BytesInv
<1>2. ASSUME SamplerInv, BytesInv PROVE BytesWereSent
  <2>1. CASE looping
    BY <1>2, <2>1, BytesNumbers DEF BytesInv, BytesWereSent, Growth
  <2>2. CASE ~ looping
    <3>1. bytes = 0 /\ beforeSock.sent = 0 /\ first.sock.sent = 0
      BY <1>2, <2>2 DEF SamplerInv, Reports, SocketTotals
    <3> QED
      BY <1>2, <3>1, BytesNumbers DEF BytesWereSent
  <2> QED
    BY <2>1, <2>2
<1> QED
  BY <1>1, <1>2, InitTypes, SamplerInvKept, BytesInvKept, PTL DEF Spec
-----------------------------------------------------------------------------
(* The processes that stay.                                                 *)

\* A process that has neither exited nor changed its name is in every snapshot
\* that has come past its pid, under its group, with ticks that only grow.
Stays(p) ==
    /\ procs[p] # Gone
    /\ pc = "stat" /\ p = pid => argv = procs[p].group
    /\ procs[p].group \in Groups /\ p < pid => p \in DOMAIN current
    /\ procs[p].group \in Groups /\ looping => p \in DOMAIN before
    /\ p \in DOMAIN current =>
          current[p].group = procs[p].group /\ current[p].ticks <= procs[p].ticks
    /\ p \in DOMAIN before =>
          before[p].group = procs[p].group /\ before[p].ticks <= procs[p].ticks
    /\ p \in DOMAIN before \cap DOMAIN current => before[p].ticks <= current[p].ticks
    /\ p \in DOMAIN first.procs =>
          /\ first.procs[p].group = procs[p].group
          /\ p \in DOMAIN before /\ first.procs[p].ticks <= before[p].ticks

SteadyInv == \A p \in steady : Stays(p)

\* A steady process keeps its group and works.
LEMMA SteadyStep ==
    ASSUME SamplerInv, [Next]_vars, NEW p \in steady', p \in steady => procs[p] # Gone
    PROVE  /\ p \in steady /\ p \in Pids
           /\ procs'[p] # Gone /\ procs'[p].group = procs[p].group
           /\ procs[p].ticks \in Nat /\ procs'[p].ticks \in Nat /\ procs[p].ticks <= procs'[p].ticks
<1>1. /\ procs \in [Pids -> Process \cup {Gone}] /\ steady \subseteq Pids
  BY DEF SamplerInv, Processes
<1>2. /\ steady' \subseteq steady
      /\ \/ procs'[p] = procs[p]
         \/ procs'[p] = [procs[p] EXCEPT !.ticks = @ + 1]
  <2>1. CASE UNCHANGED processVars
    BY <2>1 DEF processVars
  <2>2. ASSUME NEW q \in Pids, Spawn(q)
        PROVE  steady' = steady /\ (p = q \/ procs'[p] = procs[p]) /\ procs[q] = Gone
    BY <1>1, <2>2 DEF Spawn
  <2>3. ASSUME NEW q \in Pids, Work(q)
        PROVE  steady' = steady /\ (procs'[p] = procs[p] \/ procs'[p] = [procs[p] EXCEPT !.ticks = @ + 1])
    BY <1>1, <2>3 DEF Work
  <2>4. ASSUME NEW q \in Pids, Rename(q) \/ Exit(q)
        PROVE  steady' = steady \ {q} /\ (p = q \/ procs'[p] = procs[p])
    BY <1>1, <2>4 DEF Rename, Exit
  <2>5. \/ UNCHANGED processVars
        \/ \E q \in Pids : Spawn(q) \/ Work(q) \/ Rename(q) \/ Exit(q)
    BY DEF Next, System, Sampler, ReadArgv, ReadStat, ProcessesRead, ReadSockets, SocketsFail,
           EnterLoop, Wake, SampleLog, WriteRow, outside, vars
  <2> QED
    BY <2>1, <2>2, <2>3, <2>4, <2>5
<1>3. p \in steady /\ p \in Pids /\ procs[p] \in Process
  BY <1>1, <1>2
<1>4. procs'[p] \in Process /\ procs'[p].group = procs[p].group
      /\ procs'[p].ticks \in {procs[p].ticks, procs[p].ticks + 1}
  BY <1>2, <1>3 DEF Process
<1>5. procs'[p] # Gone
  BY <1>4, GoneIsNobody DEF Process, Named
<1>6. procs[p].ticks \in Nat
  BY <1>3 DEF Process
<1> QED
  BY <1>3, <1>4, <1>5, <1>6

LEMMA SteadyInvKept ==
    ASSUME SamplerInv, SamplerInv', SteadyInv, [Next]_vars
    PROVE  SteadyInv'
<1> SUFFICES ASSUME NEW p \in steady' PROVE Stays(p)'
  BY DEF SteadyInv
<1>1. /\ p \in steady /\ p \in Pids
      /\ procs'[p] # Gone /\ procs'[p].group = procs[p].group
      /\ procs[p].ticks \in Nat /\ procs'[p].ticks \in Nat /\ procs[p].ticks <= procs'[p].ticks
  BY SteadyStep DEF SteadyInv, Stays
<1>2. Stays(p)
  BY <1>1 DEF SteadyInv
<1>3. /\ p \in DOMAIN current => current[p].ticks \in Nat
      /\ p \in DOMAIN before => before[p].ticks \in Nat
      /\ p \in DOMAIN first.procs => first.procs[p].ticks \in Nat /\ first.procs[p].group \in Groups
      /\ pid \in Int /\ p \in Int /\ p >= 1 /\ p < MaxPid + 1
  BY <1>1, SamplerBounds DEF SamplerInv, Snapshots, IsSnapshot, Snapshot, Place, Pids
<1>4. CASE UNCHANGED <<current, before, first, looping, pid>> /\ (UNCHANGED <<pc, argv>> \/ pc' # "stat")
  BY <1>1, <1>2, <1>3, <1>4 DEF Stays
<1>5. CASE ReadArgv
  <2>1. UNCHANGED <<procs, current, before, first, looping>>
    BY <1>5 DEF ReadArgv, outside, processVars, rowVars
  <2>2. CASE procs[pid] = Gone \/ procs[pid].group = Other
    <3>1. pid' = pid + 1 /\ pc' = "argv"
      BY <1>5, <2>2 DEF ReadArgv
    <3>2. p = pid => procs[p].group \notin Groups
      BY <1>2, <2>2, SamplerBounds DEF Stays
    <3>3. p < pid + 1 => p < pid \/ p = pid
      BY <1>3
    <3> QED
      BY <1>2, <2>1, <3>1, <3>2, <3>3 DEF Stays
  <2>3. CASE ~ (procs[pid] = Gone \/ procs[pid].group = Other)
    <3>1. pid' = pid /\ argv' = procs[pid].group
      BY <1>5, <2>3 DEF ReadArgv
    <3> QED
      BY <1>2, <2>1, <3>1 DEF Stays
  <2> QED
    BY <2>2, <2>3
<1>6. CASE ReadStat
  <2>1. /\ UNCHANGED <<procs, before, first, looping>> /\ pc = "stat"
        /\ pid' = pid + 1 /\ pc' = "argv"
    BY <1>6 DEF ReadStat, outside, processVars, rowVars
  <2>2. CASE p = pid
    <3>1. current' = [q \in DOMAIN current \cup {pid} |->
                          IF q = pid THEN [group |-> argv, ticks |-> procs[pid].ticks]
                                     ELSE current[q]]
      BY <1>2, <1>6, <2>2 DEF ReadStat, Stays
    <3>2. /\ p \in DOMAIN current' /\ current'[p].group = procs[p].group
          /\ current'[p].ticks = procs[p].ticks
      BY <1>2, <2>1, <2>2, <3>1 DEF Stays
    <3> QED
      BY <1>1, <1>2, <2>1, <2>2, <3>2 DEF Stays
  <2>3. CASE p # pid
    <3>1. /\ p \in DOMAIN current' <=> p \in DOMAIN current
          /\ p \in DOMAIN current => current'[p] = current[p]
      BY <1>6, <2>3 DEF ReadStat
    <3>2. p < pid + 1 => p < pid
      BY <1>3, <2>3
    <3> QED
      BY <1>2, <2>1, <3>1, <3>2 DEF Stays
  <2> QED
    BY <2>2, <2>3
<1>7. CASE EnterLoop
  <2>1. /\ UNCHANGED <<procs, current, pid>> /\ pc = "log" /\ pc' = "sleep"
        /\ before' = current /\ first'.procs = current
    BY <1>7 DEF EnterLoop, outside, processVars
  <2>2. p < pid
    BY <1>3, <2>1 DEF SamplerInv, Place
  <2> QED
    BY <1>2, <1>3, <2>1, <2>2 DEF Stays
<1>8. CASE Wake
  <2>1. /\ UNCHANGED <<procs, before, first, looping>>
        /\ current' = Nobody /\ pid' = 1 /\ pc' = "argv"
    BY <1>8 DEF Wake, outside, processVars, rowVars
  <2>2. DOMAIN current' = {} /\ ~ (p < 1)
    BY <1>3, <2>1 DEF Nobody
  <2> QED
    BY <1>2, <2>1, <2>2 DEF Stays
<1>9. CASE WriteRow
  <2>1. /\ UNCHANGED <<procs, current, first, looping, pid>> /\ pc = "row" /\ pc' # "stat"
        /\ before' = current
    BY <1>9 DEF WriteRow, Kept, outside, processVars
  <2>2. p < pid
    BY <1>3, <2>1 DEF SamplerInv, Place
  <2>3. p \in DOMAIN first.procs => p \in DOMAIN current /\ first.procs[p].ticks <= current[p].ticks
    BY <1>2, <1>3, <2>2 DEF Stays
  <2> QED
    BY <1>2, <1>3, <2>1, <2>2, <2>3 DEF Stays
<1> QED
  BY <1>4, <1>5, <1>6, <1>7, <1>8, <1>9
     DEF Next, System, Sampler, ProcessesRead, ReadSockets, SocketsFail, SocketsRead, SampleLog,
         snapshotVars, rowVars, vars
Staying(g) == {p \in steady \cap DOMAIN first.procs : first.procs[p].group = g}

\* What a process that stays has spent up to the last row.
Gained == [p \in Pids |-> before[p].ticks - first.procs[p].ticks]

\* SteadyProcessesCounted for one group.
CountedIn(g) == SumFunctionOnSet(Gained, Staying(g)) <= reported[g]

LEMMA CountedIsCounted ==
    ASSUME SamplerInv
    PROVE  SteadyProcessesCounted <=> \A g \in Groups : CountedIn(g)
<1> SUFFICES ASSUME NEW g \in Groups
             PROVE  SumFunction([p \in Staying(g) |-> before[p].ticks - first.procs[p].ticks])
                      = SumFunctionOnSet(Gained, Staying(g))
  BY DEF SteadyProcessesCounted, CountedIn, Staying
<1> DEFINE f == [p \in Staying(g) |-> before[p].ticks - first.procs[p].ticks]
<1>1. Staying(g) \subseteq Pids /\ IsFiniteSet(Staying(g))
  BY PidsAreFinite, FS_Subset DEF Staying, SamplerInv, Processes
<1>2. DOMAIN f = Staying(g) /\ \A p \in Staying(g) : f[p] = Gained[p]
  BY <1>1 DEF Gained
<1> HIDE DEF f
<1>3. SumFunction(f) = SumFunctionOnSet(Gained, Staying(g))
  BY <1>1, <1>2, SumSame DEF SumFunction
<1> QED
  BY <1>3 DEF f

LEMMA StayingFacts ==
    ASSUME SamplerInv, SteadyInv, NEW g \in Groups
    PROVE  /\ IsFiniteSet(Staying(g))
           /\ \A p \in Staying(g) :
                 /\ p \in Pids /\ p \in DOMAIN before /\ Gained[p] \in Nat
                 /\ Gained[p] = before[p].ticks - first.procs[p].ticks
                 /\ before[p].ticks \in Nat /\ first.procs[p].ticks \in Nat
                 /\ before[p].group = g /\ procs[p].group = g
<1>1. Staying(g) \subseteq Pids /\ IsFiniteSet(Staying(g))
  BY PidsAreFinite, FS_Subset DEF Staying, SamplerInv, Processes
<1>2. ASSUME NEW p \in Staying(g)
      PROVE  /\ p \in Pids /\ p \in DOMAIN before /\ Gained[p] \in Nat
             /\ Gained[p] = before[p].ticks - first.procs[p].ticks
             /\ before[p].ticks \in Nat /\ first.procs[p].ticks \in Nat
             /\ before[p].group = g /\ procs[p].group = g
  <2>1. Stays(p) /\ p \in DOMAIN first.procs /\ first.procs[p].group = g /\ p \in Pids
    BY <1>1 DEF Staying, SteadyInv
  <2>2. /\ p \in DOMAIN before /\ first.procs[p].ticks <= before[p].ticks
        /\ procs[p].group = g /\ before[p].group = g
    BY <2>1 DEF Stays
  <2>3. before[p].ticks \in Nat /\ first.procs[p].ticks \in Nat
    BY <2>1, <2>2 DEF SamplerInv, Snapshots, IsSnapshot, Snapshot
  <2>4. Gained[p] = before[p].ticks - first.procs[p].ticks
    BY <2>1 DEF Gained
  <2> QED
    BY <2>1, <2>2, <2>3, <2>4
<1> QED
  BY <1>1, <1>2

LEMMA CountedKept ==
    ASSUME SamplerInv, SamplerInv', SteadyInv, SteadyInv', [Next]_vars,
           NEW g \in Groups, CountedIn(g)
    PROVE  CountedIn(g)'
<1>1. reported[g] \in Nat /\ SumFunctionOnSet(Gained, Staying(g)) \in Nat
  BY StayingFacts, SumIsNat DEF SamplerInv, Reports
<1>2. IsFiniteSet(Staying(g)) /\ IsFiniteSet(Staying(g)')
  BY PidsAreFinite, FS_Subset DEF Staying, SamplerInv, Processes
<1>3. steady' \subseteq steady
  BY SteadyStep DEF SteadyInv, Stays
<1>4. CASE UNCHANGED <<before, first, reported>>
  <2>1. Staying(g)' \subseteq Staying(g) /\ Gained' = Gained
    BY <1>3, <1>4 DEF Staying, Gained
  <2>2. \A p \in Staying(g) : Gained[p] \in Nat
    BY StayingFacts
  <2>3. SumFunctionOnSet(Gained, Staying(g)') <= SumFunctionOnSet(Gained, Staying(g))
    BY <1>2, <2>1, <2>2, SumOfPartIsLess
  <2>4. SumFunctionOnSet(Gained, Staying(g)') \in Nat
    BY <1>2, <2>1, <2>2, SumIsNat
  <2> QED
    BY <1>1, <1>4, <2>1, <2>3, <2>4 DEF CountedIn
<1>5. CASE EnterLoop
  <2>1. first'.procs = before' /\ reported' = reported
    BY <1>5 DEF EnterLoop
  <2>2. \A p \in Staying(g)' : p \in Pids /\ before'[p].ticks \in Nat
    BY <2>1 DEF Staying, SamplerInv, Snapshots, IsSnapshot, Snapshot
  <2>3. \A p \in Staying(g)' : Gained'[p] = 0
    BY <2>1, <2>2 DEF Gained
  <2> DEFINE S == Staying(g)'
  <2>4. IsFiniteSet(S) /\ (\A p \in S : Gained'[p] = 0 /\ Gained'[p] \in Int) /\ {} \subseteq S
    BY <1>2, <2>3
  <2> HIDE DEF S
  <2>5. SumFunctionOnSet(Gained', S) = SumFunctionOnSet(Gained', {})
    BY <2>4, SumOverPart
  <2>6. SumFunctionOnSet(Gained', S) = 0
    BY <2>5, SumOfNone
  <2> QED
    BY <1>1, <2>1, <2>6 DEF CountedIn, S
<1>6. CASE WriteRow
  <2>1. /\ before' = current /\ UNCHANGED <<first, steady, procs, current, pid, looping>> /\ pid = MaxPid + 1
        /\ reported'[g] = reported[g] + Ticks(g)
    BY <1>6 DEF WriteRow, Kept, outside, processVars, SamplerInv, Place
  <2> DEFINE S == Staying(g)
             D == {p \in DOMAIN current : current[p].group = g}
             due == [p \in DOMAIN current |-> Growth(current[p].ticks, TicksBefore(p))]
  <2>2. Staying(g)' = S
    BY <2>1 DEF Staying
  <2>3. ASSUME NEW p \in S
        PROVE  /\ p \in D /\ due[p] \in Nat /\ Gained[p] \in Nat /\ Gained'[p] = Gained[p] + due[p]
    <3>1. /\ p \in Pids /\ p \in DOMAIN before /\ procs[p].group = g /\ Gained[p] \in Nat
          /\ before[p].ticks \in Nat /\ first.procs[p].ticks \in Nat /\ before[p].group = g
          /\ Gained[p] = before[p].ticks - first.procs[p].ticks
      BY StayingFacts
    <3>2. Stays(p) /\ p < pid
      BY <2>1, <3>1, SamplerBounds DEF Staying, SteadyInv, Pids
    <3>3. /\ p \in DOMAIN current /\ current[p].group = g /\ before[p].ticks <= current[p].ticks
      BY <3>1, <3>2 DEF Stays
    <3>4. current[p].ticks \in Nat
      BY <3>3 DEF SamplerInv, Snapshots, IsSnapshot, Snapshot
    <3>5. due[p] = current[p].ticks - before[p].ticks
      BY <3>1, <3>3, <3>4 DEF TicksBefore, Growth
    <3>6. Gained'[p] = current[p].ticks - first.procs[p].ticks
      BY <2>1, <3>1 DEF Gained
    <3> HIDE DEF due
    <3> QED
      BY <3>1, <3>3, <3>4, <3>5, <3>6
  <2>4. \A p \in D : due[p] \in Nat
    BY DueIsNat DEF SamplerInv, Snapshots
  <2>5. IsFiniteSet(D) /\ S \subseteq D
    BY <2>3, PidsAreFinite, FS_Subset DEF SamplerInv, Snapshots, IsSnapshot
  <2>6. Ticks(g) = SumFunctionOnSet(due, D)
    BY DEF Ticks
  <2> HIDE DEF due, D, S
  <2>7. SumFunctionOnSet(Gained', S) = SumFunctionOnSet(Gained, S) + SumFunctionOnSet(due, S)
    BY <1>2, <2>3, SumAdds DEF S
  <2>8. SumFunctionOnSet(due, S) <= SumFunctionOnSet(due, D)
    BY <2>4, <2>5, SumOfPartIsLess
  <2>9. SumFunctionOnSet(due, S) \in Nat /\ SumFunctionOnSet(due, D) \in Nat
    BY <1>2, <2>3, <2>4, <2>5, SumIsNat DEF S
  <2> QED
    BY <1>1, <2>1, <2>2, <2>6, <2>7, <2>8, <2>9 DEF CountedIn, S
<1> QED
  BY <1>4, <1>5, <1>6
     DEF Next, System, Sampler, ReadArgv, ReadStat, ProcessesRead, ReadSockets, SocketsFail, Wake,
         SampleLog, snapshotVars, rowVars, vars

\* What a process that stays has spent from the first to the last snapshot is in
\* the rows of its group, for any number of processes and rows.
THEOREM SteadyAreCounted == Spec => []SteadyProcessesCounted
<1> DEFINE Counted == \A g \in Groups : CountedIn(g)
<1>1. ASSUME Init PROVE SteadyInv /\ Counted
  <2>1. /\ DOMAIN current = {} /\ DOMAIN before = {} /\ DOMAIN first.procs = {}
        /\ pid = 1 /\ looping = FALSE /\ pc = "argv" /\ steady = {p \in Pids : procs[p] # Gone}
        /\ reported = [g \in Groups |-> 0]
    BY <1>1 DEF Init, Nobody
  <2>2. SteadyInv
    <3>1. \A p \in Pids : ~ (p < 1)
      BY SamplerBounds DEF Pids
    <3> QED
      BY <2>1, <3>1 DEF SteadyInv, Stays
  <2>3. ASSUME NEW g \in Groups PROVE CountedIn(g)
    <3>1. Staying(g) = {} /\ reported[g] = 0
      BY <2>1 DEF Staying
    <3>2. SumFunctionOnSet(Gained, Staying(g)) = 0
      BY <3>1, SumOfNone
    <3> QED
      BY <3>1, <3>2 DEF CountedIn
  <2> QED
    BY <2>2, <2>3
<1>2. SamplerInv /\ SamplerInv' /\ SteadyInv /\ Counted /\ [Next]_vars => SteadyInv' /\ Counted'
  <2>1. SamplerInv /\ SamplerInv' /\ SteadyInv /\ [Next]_vars => SteadyInv'
    BY SteadyInvKept
  <2> QED
    BY <2>1, CountedKept
<1>3. SamplerInv /\ Counted => SteadyProcessesCounted
  BY CountedIsCounted
<1> HIDE DEF Counted
<1> QED
  BY <1>1, <1>2, <1>3, InitTypes, SamplerInvKept, PTL DEF Spec
-----------------------------------------------------------------------------
(* The account of the ticks.                                                *)

\* Ticks that the next row reports, of processes recorded under a group of A.
Due(A) ==
    [p \in Pids |-> IF p \in DOMAIN current /\ current[p].group \in A
                    THEN Growth(current[p].ticks, TicksBefore(p)) ELSE 0]

\* Ticks a row after that can report: those since the last record of the pid.
Since(p) ==
    IF p \in DOMAIN current THEN Growth(procs[p].ticks, current[p].ticks)
    ELSE IF p >= pid /\ p \in DOMAIN before THEN Growth(procs[p].ticks, before[p].ticks)
    ELSE 0

Ahead(A) ==
    [p \in Pids |-> IF procs[p] # Gone /\ procs[p].group \in A THEN Since(p) ELSE 0]

Owed(A) == [p \in Pids |-> Due(A)[p] + Ahead(A)[p]]

\* What is reported, due or still to be due of the groups of A was spent by them.
Account(A) ==
    SumFunctionOnSet(reported, A \cap Groups) + SumFunctionOnSet(Owed(A), Pids)
      <= SumFunctionOnSet(spent, A)

\* Between its two files, a process is the one whose command line was read.
ReadAsNamed ==
    pc = "stat" /\ procs[pid] # Gone /\ ~ renamed => procs[pid].group = argv

OwedTyped ==
    \A A \in SUBSET Named : \A p \in Pids :
        Due(A)[p] \in Nat /\ Ahead(A)[p] \in Nat /\ Owed(A)[p] \in Nat
        /\ Owed(A)[p] = Due(A)[p] + Ahead(A)[p]

LEMMA OwedIsNat == SamplerInv => OwedTyped
<1> SUFFICES ASSUME SamplerInv, NEW A \in SUBSET Named, NEW p \in Pids
             PROVE  Due(A)[p] \in Nat /\ Ahead(A)[p] \in Nat
  BY DEF OwedTyped, Owed
<1>1. Due(A)[p] \in Nat
  BY DueIsNat DEF Due, SamplerInv, Snapshots
<1>2. /\ p \in DOMAIN current => current[p].ticks \in Nat
      /\ p \in DOMAIN before => before[p].ticks \in Nat
      /\ procs[p] # Gone => procs[p].ticks \in Nat
  BY DEF SamplerInv, Snapshots, IsSnapshot, Snapshot, Processes, Process
<1>3. Ahead(A)[p] \in Nat
  BY <1>2 DEF Ahead, Since, Growth
<1> QED
  BY <1>1, <1>3

LEMMA NamedIsFinite == IsFiniteSet(Named) /\ IsFiniteSet(Groups)
BY SamplerBounds, FS_AddElement DEF Named

LEMMA AccountNumbers ==
    ASSUME SamplerInv, NEW A \in SUBSET Named
    PROVE  /\ IsFiniteSet(A) /\ IsFiniteSet(A \cap Groups)
           /\ SumFunctionOnSet(reported, A \cap Groups) \in Nat
           /\ SumFunctionOnSet(Owed(A), Pids) \in Nat
           /\ SumFunctionOnSet(spent, A) \in Nat
<1>1. IsFiniteSet(A) /\ IsFiniteSet(A \cap Groups)
  BY NamedIsFinite, FS_Subset
<1>2. \A g \in A \cap Groups : reported[g] \in Nat
  BY DEF SamplerInv, Reports
<1>3. \A g \in A : spent[g] \in Nat
  BY DEF SamplerInv, Processes
<1>4. \A p \in Pids : Owed(A)[p] \in Nat
  BY OwedIsNat DEF OwedTyped
<1> QED
  BY <1>1, <1>2, <1>3, <1>4, PidsAreFinite, SumIsNat

LEMMA ReadAsNamedKept ==
    ASSUME SamplerInv, ReadAsNamed, [Next]_vars
    PROVE  ReadAsNamed'
<1>0. procs \in [Pids -> Process \cup {Gone}] /\ (pc = "stat" => pid \in Pids)
  BY DEF SamplerInv, Processes, Place
<1>1. CASE UNCHANGED processVars /\ (UNCHANGED <<pc, pid, argv>> \/ pc' # "stat")
  BY <1>1 DEF ReadAsNamed, processVars
<1>2. CASE ReadArgv
  BY <1>2 DEF ReadArgv, ReadAsNamed, outside, processVars
<1>3. ASSUME UNCHANGED <<pc, pid, argv>>, NEW p \in Pids, Spawn(p) PROVE ReadAsNamed'
  BY <1>0, <1>3 DEF Spawn, ReadAsNamed
<1>4. ASSUME UNCHANGED <<pc, pid, argv>>, NEW p \in Pids, Work(p) PROVE ReadAsNamed'
  <2>1. \A q \in Pids : procs[q] # Gone => procs'[q].group = procs[q].group
    <3>1. procs[p] \in Process
      BY <1>0, <1>4 DEF Work
    <3>2. [procs[p] EXCEPT !.ticks = @ + 1].group = procs[p].group
      BY <3>1 DEF Process
    <3> QED
      BY <1>0, <1>4, <3>2 DEF Work
  <2>2. \A q \in Pids : procs'[q] # Gone => procs[q] # Gone
    BY <1>0, <1>4 DEF Work
  <2> QED
    BY <1>0, <1>4, <2>1, <2>2 DEF Work, ReadAsNamed
<1>5. ASSUME NEW p \in Pids, Rename(p) PROVE ReadAsNamed'
  BY <1>5 DEF Rename, ReadAsNamed
<1>6. ASSUME UNCHANGED <<pc, pid, argv>>, NEW p \in Pids, Exit(p) PROVE ReadAsNamed'
  BY <1>0, <1>6 DEF Exit, ReadAsNamed
<1> QED
  BY <1>1, <1>2, <1>3, <1>4, <1>5, <1>6
     DEF Next, System, Sampler, ReadStat, ProcessesRead, ReadSockets, SocketsFail, SocketsRead,
         EnterLoop, Wake, SampleLog, WriteRow, outside, vars, snapshotVars

\* Only what one pid is owed changes.
LEMMA OnePid ==
    ASSUME SamplerInv, SamplerInv', NEW A \in SUBSET Named, Account(A),
           reported' = reported, NEW c \in Pids,
           \A p \in Pids \ {c} : Owed(A)'[p] = Owed(A)[p],
           NEW n \in Nat, SumFunctionOnSet(spent', A) = SumFunctionOnSet(spent, A) + n,
           Owed(A)'[c] <= Owed(A)[c] + n
    PROVE  Account(A)'
<1>1. (SamplerInv => OwedTyped)'
  BY OwedIsNat, PTL
<1>2. \A p \in Pids : Owed(A)[p] \in Nat /\ Owed(A)'[p] \in Nat
  BY <1>1, OwedIsNat DEF OwedTyped
<1> DEFINE f == Owed(A)
           h == Owed(A)'
<1>3. \A p \in Pids : f[p] \in Nat /\ h[p] \in Nat /\ f[p] \in Int /\ h[p] \in Int
  BY <1>2
<1>4. (\A p \in Pids \ {c} : h[p] = f[p]) /\ h[c] <= f[c] + n
  OBVIOUS
<1>5. SumFunctionOnSet(reported, A \cap Groups) \in Nat /\ SumFunctionOnSet(f, Pids) \in Nat
      /\ SumFunctionOnSet(spent, A) \in Nat
  BY AccountNumbers
<1>6. SumFunctionOnSet(reported, A \cap Groups) + SumFunctionOnSet(f, Pids)
        <= SumFunctionOnSet(spent, A)
  BY DEF Account
<1>7. SUFFICES SumFunctionOnSet(reported, A \cap Groups) + SumFunctionOnSet(h, Pids)
                 <= SumFunctionOnSet(spent', A)
  BY DEF Account
<1> HIDE DEF f, h
<1>8. SumFunctionOnSet(h, Pids) = SumFunctionOnSet(f, Pids) - f[c] + h[c]
  BY <1>3, <1>4, PidsAreFinite, SumChangesAt
<1> QED
  BY <1>3, <1>4, <1>5, <1>6, <1>8

\* The processes move.
LEMMA AccountWhenProcessesMove ==
    ASSUME SamplerInv, SamplerInv', NEW A \in SUBSET Named, A = Named \/ ~ renamed', Account(A),
           UNCHANGED <<snapshotVars, rowVars>>,
           NEW c \in Pids, Spawn(c) \/ Work(c) \/ Rename(c) \/ Exit(c)
    PROVE  Account(A)'
<1>1. /\ UNCHANGED <<reported, current, before, pid>>
      /\ procs \in [Pids -> Process \cup {Gone}] /\ spent \in [Named -> Nat]
      /\ \A p \in Pids : procs'[p] # Gone => procs'[p] \in Process
  BY DEF snapshotVars, rowVars, SamplerInv, Processes
<1>2. \A p \in Pids \ {c} : procs'[p] = procs[p]
  BY <1>1 DEF Spawn, Work, Rename, Exit
<1>3. Due(A)' = Due(A)
  BY <1>1 DEF Due, TicksBefore
<1>4. \A p \in Pids \ {c} : Ahead(A)'[p] = Ahead(A)[p]
  BY <1>1, <1>2 DEF Ahead, Since
<1>5. (SamplerInv => OwedTyped)'
  BY OwedIsNat, PTL
<1>6. /\ \A p \in Pids : Owed(A)'[p] = Due(A)'[p] + Ahead(A)'[p]
      /\ \A p \in Pids : Owed(A)[p] = Due(A)[p] + Ahead(A)[p]
      /\ Due(A)[c] \in Nat /\ Ahead(A)[c] \in Nat /\ Ahead(A)'[c] \in Nat
  BY <1>5, OwedIsNat DEF OwedTyped
<1>7. \A p \in Pids \ {c} : Owed(A)'[p] = Owed(A)[p]
  BY <1>3, <1>4, <1>6
<1>8. SumFunctionOnSet(spent, A) \in Nat /\ IsFiniteSet(A)
  BY AccountNumbers
\* Work reaches the account when the process is in a group of A.
<1>9. ASSUME NEW n \in Nat, SumFunctionOnSet(spent', A) = SumFunctionOnSet(spent, A) + n,
             Ahead(A)'[c] <= Ahead(A)[c] + n
      PROVE  Account(A)'
  <2>1. Owed(A)'[c] <= Owed(A)[c] + n
    BY <1>3, <1>6, <1>9
  <2> QED
    BY <1>1, <1>7, <1>9, <2>1, OnePid
<1>10. ASSUME UNCHANGED spent, Ahead(A)'[c] <= Ahead(A)[c]
       PROVE  Account(A)'
  <2>1. SumFunctionOnSet(spent', A) = SumFunctionOnSet(spent, A) + 0
    BY <1>8, <1>10
  <2>2. Ahead(A)'[c] <= Ahead(A)[c] + 0
    BY <1>6, <1>10
  <2> QED
    BY <1>9, <2>1, <2>2
<1>11. /\ c \in DOMAIN current => current[c].ticks \in Nat
       /\ c \in DOMAIN before => before[c].ticks \in Nat
  BY DEF SamplerInv, Snapshots, IsSnapshot, Snapshot
<1>12. CASE Spawn(c)
  <2>1. procs'[c].ticks = 0 /\ UNCHANGED spent
    BY <1>1, <1>12 DEF Spawn
  <2>2. Ahead(A)'[c] = 0
    BY <1>1, <1>11, <2>1 DEF Ahead, Since, Growth
  <2> QED
    BY <1>6, <1>10, <2>1, <2>2
<1>13. CASE Exit(c)
  <2>1. procs'[c] = Gone /\ UNCHANGED spent
    BY <1>1, <1>13 DEF Exit
  <2>2. Ahead(A)'[c] = 0
    BY <2>1 DEF Ahead
  <2> QED
    BY <1>6, <1>10, <2>1, <2>2
<1>14. CASE Rename(c)
  <2>1. renamed' = TRUE /\ UNCHANGED spent /\ procs[c] # Gone
    BY <1>14 DEF Rename
  <2>2. A = Named
    BY <2>1
  <2>3. procs[c] \in Process
    BY <1>1, <2>1
  <2>4. PICK g \in Named : procs' = [procs EXCEPT ![c].group = g]
    BY <1>14 DEF Rename
  <2>5. procs'[c] = [procs[c] EXCEPT !.group = g]
    BY <1>1, <2>4
  <2>6. procs'[c] \in Process /\ procs'[c].ticks = procs[c].ticks /\ procs[c].group \in Named
    BY <2>3, <2>5 DEF Process
  <2>7. procs'[c] # Gone /\ procs'[c].group \in Named
    BY <2>6, GoneIsNobody DEF Process, Named
  <2>8. Ahead(A)'[c] = Ahead(A)[c]
    BY <1>1, <2>1, <2>2, <2>6, <2>7 DEF Ahead, Since
  <2> QED
    BY <1>6, <1>10, <2>1, <2>8
<1>15. CASE Work(c)
  <2>1. procs[c] \in Process /\ procs[c] # Gone
    BY <1>1, <1>15 DEF Work
  <2>2. procs'[c] = [procs[c] EXCEPT !.ticks = @ + 1]
    BY <1>1, <1>15 DEF Work
  <2>3. /\ procs'[c].group = procs[c].group /\ procs'[c].ticks = procs[c].ticks + 1
        /\ procs[c].ticks \in Nat /\ procs[c].group \in Named
    BY <2>1, <2>2 DEF Process
  <2> DEFINE g == procs[c].group
  <2>4. spent' = [spent EXCEPT ![g] = @ + 1]
    BY <1>15 DEF Work
  <2>5. CASE g \in A
    <3>1. Since(c)' <= Since(c) + 1
      BY <1>1, <1>11, <2>3 DEF Since, Growth
    <3>2. Ahead(A)'[c] <= Ahead(A)[c] + 1
      <4>1. Ahead(A)[c] = Since(c) /\ Ahead(A)'[c] \in {0, Since(c)'}
        BY <2>1, <2>3, <2>5 DEF Ahead
      <4> QED
        BY <1>6, <3>1, <4>1
    <3>3. \A h \in A : spent[h] \in Int /\ spent'[h] \in Int
      BY <1>1, <2>4
    <3>4. spent'[g] = spent[g] + 1 /\ \A h \in A \ {g} : spent'[h] = spent[h]
      BY <1>1, <2>3, <2>4
    <3> HIDE DEF g
    <3>5. SumFunctionOnSet(spent', A) = SumFunctionOnSet(spent, A) - spent[g] + spent'[g]
      BY <1>8, <2>5, <3>3, <3>4, SumChangesAt
    <3>6. SumFunctionOnSet(spent', A) = SumFunctionOnSet(spent, A) + 1
      BY <1>8, <2>5, <3>3, <3>4, <3>5
    <3> QED
      BY <1>9, <3>2, <3>6
  <2>6. CASE g \notin A
    <3>1. \A h \in A : spent'[h] = spent[h]
      BY <1>1, <2>3, <2>4, <2>6
    <3>2. SumFunctionOnSet(spent', A) = SumFunctionOnSet(spent, A)
      BY <1>8, <3>1, SumSame
    <3>3. Ahead(A)'[c] = 0
      BY <2>3, <2>6 DEF Ahead
    <3>4. SumFunctionOnSet(spent', A) = SumFunctionOnSet(spent, A) + 0 /\ Ahead(A)'[c] <= Ahead(A)[c] + 0
      BY <1>6, <1>8, <3>2, <3>3
    <3> QED
      BY <1>9, <3>4
  <2> QED
    BY <2>5, <2>6
<1> QED
  BY <1>12, <1>13, <1>14, <1>15

\* A pid is passed over, or recorded: what could have been reported of it before
\* is due now.
LEMMA AccountWhenVisited ==
    ASSUME SamplerInv, SamplerInv', ReadAsNamed, NEW A \in SUBSET Named,
           A = Named \/ ~ renamed, Account(A), UNCHANGED <<procs, spent, reported, before>>,
           pid' = pid + 1, NEW c \in Pids, c = pid,
           ReadStat \/ UNCHANGED current
    PROVE  Account(A)'
<1>1. pid \notin DOMAIN current /\ pid \in Int
  BY SamplerBounds DEF SamplerInv, Snapshots, Place, Pids
<1>2. \A p \in Pids \ {pid} : Owed(A)'[p] = Owed(A)[p]
  <2> SUFFICES ASSUME NEW p \in Pids \ {pid} PROVE Owed(A)'[p] = Owed(A)[p]
    OBVIOUS
  <2>1. /\ p \in DOMAIN current' <=> p \in DOMAIN current
        /\ p \in DOMAIN current => current'[p] = current[p]
    BY DEF ReadStat
  <2>2. p \in Int /\ (p >= pid + 1 <=> p >= pid)
    BY <1>1 DEF Pids
  <2>3. Due(A)'[p] = Due(A)[p]
    BY <2>1 DEF Due, TicksBefore
  <2>4. Ahead(A)'[p] = Ahead(A)[p]
    BY <2>1, <2>2 DEF Ahead, Since
  <2> QED
    BY <2>3, <2>4 DEF Owed
<1>3. (SamplerInv => OwedTyped)'
  BY OwedIsNat, PTL
<1>4. /\ Owed(A)'[pid] = Due(A)'[pid] + Ahead(A)'[pid]
      /\ Owed(A)[pid] = Due(A)[pid] + Ahead(A)[pid]
      /\ Due(A)[pid] \in Nat /\ Ahead(A)[pid] \in Nat
  BY <1>3, OwedIsNat DEF OwedTyped
<1>5. Owed(A)'[pid] <= Owed(A)[pid]
  <2>1. CASE UNCHANGED current
    <3>1. Due(A)'[pid] = 0 /\ Ahead(A)'[pid] = 0
      BY <1>1, <2>1 DEF Due, Ahead, Since
    <3> QED
      BY <1>4, <3>1
  <2>2. CASE ReadStat /\ procs[pid] = Gone
    <3>1. UNCHANGED current
      BY <2>2 DEF ReadStat
    <3> QED
      BY <2>1, <3>1
  <2>3. CASE ReadStat /\ procs[pid] # Gone
    <3>1. /\ pid \in DOMAIN current' /\ current'[pid] = [group |-> argv, ticks |-> procs[pid].ticks]
          /\ pc = "stat"
      BY <2>3 DEF ReadStat
    <3>2. procs[pid].ticks \in Nat /\ (pid \in DOMAIN before => before[pid].ticks \in Nat)
      BY <2>3 DEF SamplerInv, Processes, Process, Snapshots, IsSnapshot, Snapshot
    <3>3. Ahead(A)'[pid] = 0
      BY <3>1, <3>2 DEF Ahead, Since, Growth
    <3>4. argv \in A => procs[pid].group \in A
      BY <2>3, <3>1 DEF ReadAsNamed, SamplerInv, Processes, Process
    <3>5. argv \in A => Ahead(A)[pid] = IF pid \in DOMAIN before
                                        THEN Growth(procs[pid].ticks, before[pid].ticks) ELSE 0
      BY <1>1, <2>3, <3>4 DEF Ahead, Since
    <3>6. argv \in A => Due(A)'[pid] = Growth(procs[pid].ticks, TicksBefore(c)')
      BY <3>1 DEF Due
    <3>7. TicksBefore(c)' = IF pid \in DOMAIN before /\ before[pid].group = argv
                              THEN before[pid].ticks ELSE procs[pid].ticks
      BY <3>1 DEF TicksBefore
    <3>8. argv \in A => Due(A)'[pid] <= Ahead(A)[pid]
      BY <3>2, <3>5, <3>6, <3>7 DEF Growth
    <3>9. argv \notin A => Due(A)'[pid] = 0
      BY <3>1 DEF Due
    <3>10. Due(A)'[pid] \in Nat
      BY <1>3 DEF OwedTyped
    <3> QED
      BY <1>4, <3>3, <3>8, <3>9, <3>10
  <2> QED
    BY <2>1, <2>2, <2>3
<1>6. SumFunctionOnSet(spent, A) \in Nat
  BY AccountNumbers
<1>7. SumFunctionOnSet(spent', A) = SumFunctionOnSet(spent, A) + 0
  BY <1>6
<1>8. Owed(A)'[pid] <= Owed(A)[pid] + 0
  BY <1>4, <1>5
<1> QED
  BY <1>2, <1>7, <1>8, OnePid
LEMMA AccountWhenOwedSame ==
    ASSUME NEW A, Account(A), UNCHANGED <<reported, spent>>, Owed(A)' = Owed(A)
    PROVE  Account(A)'
BY DEF Account

\* Entering the loop and waking up, the last snapshot is the one before.
LEMMA AccountAtLoopTop ==
    ASSUME SamplerInv, NEW A \in SUBSET Named, Account(A), EnterLoop \/ Wake
    PROVE  Account(A)'
<1>1. UNCHANGED <<procs, spent, reported>>
  BY DEF EnterLoop, Wake, outside, processVars, rowVars
<1>2. /\ \A p \in DOMAIN current : current[p].ticks \in Nat
      /\ \A p \in Pids : p < MaxPid + 1 /\ p >= 1
  BY SamplerBounds DEF SamplerInv, Snapshots, IsSnapshot, Snapshot, Pids
<1>3. ASSUME NEW p \in Pids PROVE Due(A)'[p] = 0 /\ Due(A)[p] = 0 /\ Ahead(A)'[p] = Ahead(A)[p]
  <2>1. CASE EnterLoop
    <3>1. /\ before = Nobody /\ before' = current /\ current' = current
          /\ pid = MaxPid + 1 /\ pid' = pid
      BY <2>1 DEF EnterLoop, SamplerInv, Snapshots, Place
    <3>2. p \notin DOMAIN before /\ ~ (p >= pid)
      BY <1>2, <3>1, SamplerBounds DEF Nobody, Pids
    <3>3. Due(A)[p] = 0 /\ Due(A)'[p] = 0
      BY <1>2, <3>1, <3>2 DEF Due, TicksBefore, Growth
    <3>4. Ahead(A)'[p] = Ahead(A)[p]
      BY <1>1, <3>1, <3>2 DEF Ahead, Since
    <3> QED
      BY <3>3, <3>4
  <2>2. CASE Wake
    <3>1. /\ current = before /\ before' = before /\ current' = Nobody
          /\ pid = MaxPid + 1 /\ pid' = 1
      BY <2>2 DEF Wake, SamplerInv, Snapshots, Place, rowVars
    <3>2. p \notin DOMAIN current' /\ ~ (p >= pid) /\ p >= 1
      BY <1>2, <3>1, SamplerBounds DEF Nobody, Pids
    <3>3. Due(A)[p] = 0 /\ Due(A)'[p] = 0
      BY <1>2, <3>1, <3>2 DEF Due, TicksBefore, Growth
    <3>4. Ahead(A)'[p] = Ahead(A)[p]
      BY <1>1, <3>1, <3>2 DEF Ahead, Since
    <3> QED
      BY <3>3, <3>4
  <2> QED
    BY <2>1, <2>2
<1>4. Owed(A)' = Owed(A)
  BY <1>3 DEF Owed
<1> QED
  BY <1>1, <1>4, AccountWhenOwedSame

\* The ticks of a row, group by group, are what was due.
LEMMA RowIsDue ==
    ASSUME SamplerInv, NEW A \in SUBSET Named
    PROVE  SumFunctionOnSet([g \in Groups |-> Ticks(g)], A \cap Groups) = SumFunctionOnSet(Due(A), Pids)
<1> DEFINE D == DOMAIN current
           f == [p \in DOMAIN current |-> Growth(current[p].ticks, TicksBefore(p))]
           of == [p \in DOMAIN current |-> current[p].group]
           k == [g \in Groups |-> Ticks(g)]
           G == A \cap Groups
           In == InGroups(D, of, G)
<1>1. D \subseteq Pids /\ IsFiniteSet(D) /\ IsFiniteSet(G) /\ In \subseteq Pids
  BY PidsAreFinite, AccountNumbers, FS_Subset DEF SamplerInv, Snapshots, IsSnapshot, InGroups
<1>2. \A p \in D : f[p] \in Nat /\ f[p] \in Int
  BY DueIsNat DEF SamplerInv, Snapshots
<1>3. \A g \in G : k[g] = SumFunctionOnSet(f, InGroup(D, of, g))
  <2> SUFFICES ASSUME NEW g \in G PROVE k[g] = SumFunctionOnSet(f, InGroup(D, of, g))
    OBVIOUS
  <2>1. {p \in DOMAIN current : current[p].group = g} = InGroup(D, of, g)
    BY DEF InGroup
  <2>2. k[g] = Ticks(g)
    OBVIOUS
  <2> QED
    BY <2>1, <2>2 DEF Ticks
<1>4. \A p \in In : f[p] = Due(A)[p]
  BY <1>1 DEF Due, InGroups
<1>5. \A p \in Pids \ In : Due(A)[p] = 0
  <2>1. \A p \in D : current[p].group \in Groups
    BY DEF SamplerInv, Snapshots, IsSnapshot, Snapshot
  <2> QED
    BY <2>1 DEF Due, InGroups
<1>6. \A p \in Pids : Due(A)[p] \in Int
  BY OwedIsNat DEF OwedTyped
<1>7. SumFunctionOnSet(k, G) = SumFunctionOnSet(f, In)
  <2> HIDE DEF D, f, of, k, G
  <2> QED
    BY <1>1, <1>2, <1>3, SumByGroup
<1> HIDE DEF f, In, k, G
<1>8. SumFunctionOnSet(f, In) = SumFunctionOnSet(Due(A), In)
  BY <1>1, <1>4, PidsAreFinite, FS_Subset, SumSame
<1>9. SumFunctionOnSet(Due(A), In) = SumFunctionOnSet(Due(A), Pids)
  BY <1>1, <1>5, <1>6, PidsAreFinite, SumOverPart
<1> QED
  BY <1>7, <1>8, <1>9 DEF k, G

LEMMA AccountWhenWritten ==
    ASSUME SamplerInv, SamplerInv', NEW A \in SUBSET Named, Account(A), WriteRow
    PROVE  Account(A)'
<1>1. /\ UNCHANGED <<procs, spent, current, pid>> /\ before' = current /\ pid = MaxPid + 1
      /\ reported' = [g \in Groups |-> reported[g] + Ticks(g)]
  BY DEF WriteRow, Kept, outside, processVars, SamplerInv, Place
<1>2. (SamplerInv => OwedTyped)'
  BY OwedIsNat, PTL
<1>3. /\ \A p \in DOMAIN current : current[p].ticks \in Nat
      /\ \A p \in Pids : ~ (p >= pid)
  BY <1>1, SamplerBounds DEF SamplerInv, Snapshots, IsSnapshot, Snapshot, Pids
<1>4. \A p \in Pids : Due(A)'[p] = 0
  BY <1>1, <1>3 DEF Due, TicksBefore, Growth
<1>5. \A p \in Pids : Ahead(A)'[p] = Ahead(A)[p]
  BY <1>1, <1>3 DEF Ahead, Since
<1>6. \A p \in Pids : /\ Due(A)[p] \in Int /\ Owed(A)'[p] \in Int /\ Owed(A)'[p] \in Nat
                      /\ Owed(A)[p] = Due(A)[p] + Owed(A)'[p]
  BY <1>2, <1>4, <1>5, OwedIsNat DEF OwedTyped
<1> DEFINE f == Due(A)
           h == Owed(A)'
           k == Owed(A)
           t == [g \in Groups |-> Ticks(g)]
           G == A \cap Groups
<1>7. SumFunctionOnSet(k, Pids) = SumFunctionOnSet(f, Pids) + SumFunctionOnSet(h, Pids)
  <2>1. \A p \in Pids : f[p] \in Int /\ h[p] \in Int /\ k[p] = f[p] + h[p]
    BY <1>6
  <2> HIDE DEF f, h, k
  <2> QED
    BY <2>1, PidsAreFinite, SumAdds
<1>8. \A g \in G : reported[g] \in Int /\ t[g] \in Int /\ t[g] \in Nat /\ reported'[g] = reported[g] + t[g]
  BY <1>1, TicksIsNat DEF SamplerInv, Reports, Snapshots
<1>9. IsFiniteSet(G) /\ SumFunctionOnSet(reported, G) \in Nat /\ SumFunctionOnSet(k, Pids) \in Nat
      /\ SumFunctionOnSet(spent, A) \in Nat
  BY AccountNumbers
<1>10. SumFunctionOnSet(t, G) = SumFunctionOnSet(f, Pids)
  BY RowIsDue
<1>11. SumFunctionOnSet(reported, G) + SumFunctionOnSet(k, Pids) <= SumFunctionOnSet(spent, A)
  BY DEF Account
<1>12. SUFFICES SumFunctionOnSet(reported', G) + SumFunctionOnSet(h, Pids) <= SumFunctionOnSet(spent, A)
  BY <1>1 DEF Account
<1>13. \A p \in Pids : h[p] \in Nat
  BY <1>6
<1> HIDE DEF f, h, k, t, G
<1>14. SumFunctionOnSet(reported', G) = SumFunctionOnSet(reported, G) + SumFunctionOnSet(t, G)
  BY <1>8, <1>9, SumAdds
<1>15. SumFunctionOnSet(h, Pids) \in Nat
  BY <1>13, PidsAreFinite, SumIsNat
<1>16. SumFunctionOnSet(t, G) \in Nat
  BY <1>8, <1>9, SumIsNat
<1> QED
  BY <1>7, <1>9, <1>10, <1>11, <1>14, <1>15, <1>16

LEMMA AccountKept ==
    ASSUME SamplerInv, SamplerInv', ReadAsNamed, [Next]_vars,
           NEW A \in SUBSET Named, A = Named \/ ~ renamed', Account(A)
    PROVE  Account(A)'
<1>1. CASE UNCHANGED <<procs, spent, reported, before, current, pid>>
  <2>1. Owed(A)' = Owed(A)
    BY <1>1 DEF Owed, Due, Ahead, Since, TicksBefore
  <2> QED
    BY <1>1, <2>1, AccountWhenOwedSame
<1>2. CASE System
  <2>1. CASE \E c \in Pids : Spawn(c) \/ Work(c) \/ Rename(c) \/ Exit(c)
    BY <1>2, <2>1, AccountWhenProcessesMove DEF System
  <2>2. CASE UNCHANGED processVars
    BY <1>1, <1>2, <2>2 DEF System, processVars, snapshotVars, rowVars
  <2> QED
    BY <1>2, <2>1, <2>2 DEF System
<1>3. CASE ReadArgv \/ ReadStat
  <2>1. UNCHANGED <<procs, spent, reported, before, renamed>> /\ pid \in Pids
    BY <1>3 DEF ReadArgv, ReadStat, outside, processVars, rowVars, SamplerInv, Place
  <2>2. CASE pid' = pid + 1 /\ (ReadStat \/ UNCHANGED current)
    BY <2>1, <2>2, AccountWhenVisited
  <2>3. CASE pid' = pid /\ UNCHANGED current
    BY <1>1, <2>1, <2>3
  <2> QED
    BY <1>3, <2>2, <2>3 DEF ReadArgv, ReadStat
<1>4. CASE EnterLoop \/ Wake
  BY <1>4, AccountAtLoopTop
<1>5. CASE WriteRow
  BY <1>5, AccountWhenWritten
<1> QED
  BY <1>1, <1>2, <1>3, <1>4, <1>5
     DEF Next, Sampler, ProcessesRead, ReadSockets, SocketsFail, SampleLog, outside, processVars,
         rowVars, vars, snapshotVars

\* All groups together, always; any of them alone until a process changes its name.
Accounts == \A A \in SUBSET Named : A = Named \/ ~ renamed => Account(A)

LEMMA InitAccounts == Init => Accounts
<1> SUFFICES ASSUME Init, NEW A \in SUBSET Named PROVE Account(A)
  BY DEF Accounts
<1>1. SamplerInv
  BY InitTypes
<1>2. /\ DOMAIN current = {} /\ DOMAIN before = {}
      /\ reported = [g \in Groups |-> 0]
  BY DEF Init, Nobody
<1>3. \A p \in Pids : Owed(A)[p] = 0
  BY <1>2 DEF Owed, Due, Ahead, Since
<1>4. SumFunctionOnSet(Owed(A), Pids) = 0
  <2>1. SumFunctionOnSet(Owed(A), Pids) = SumFunctionOnSet(Owed(A), {})
    BY <1>3, PidsAreFinite, SumOverPart
  <2> QED
    BY <2>1, SumOfNone
<1>5. SumFunctionOnSet(reported, A \cap Groups) = 0
  <2>1. \A g \in A \cap Groups : reported[g] = 0 /\ reported[g] \in Int
    BY <1>2
  <2>2. SumFunctionOnSet(reported, A \cap Groups) = SumFunctionOnSet(reported, {})
    BY <1>1, <2>1, AccountNumbers, SumOverPart
  <2> QED
    BY <2>2, SumOfNone
<1> QED
  BY <1>1, <1>4, <1>5, AccountNumbers DEF Account

LEMMA AccountsKept ==
    SamplerInv /\ SamplerInv' /\ ReadAsNamed /\ Accounts /\ [Next]_vars => ReadAsNamed' /\ Accounts'
<1> SUFFICES ASSUME SamplerInv, SamplerInv', ReadAsNamed, Accounts, [Next]_vars
             PROVE  ReadAsNamed' /\ Accounts'
  OBVIOUS
<1>1. renamed => renamed'
  BY DEF Next, System, Spawn, Work, Rename, Exit, Sampler, ReadArgv, ReadStat, ProcessesRead,
         ReadSockets, SocketsFail, EnterLoop, Wake, SampleLog, WriteRow, outside, processVars, vars
<1>2. ASSUME NEW A \in SUBSET Named, A = Named \/ ~ renamed' PROVE Account(A)'
  BY <1>1, <1>2, AccountKept DEF Accounts
<1>3. Accounts'
  BY <1>2 DEF Accounts
<1> QED
  BY <1>3, ReadAsNamedKept

LEMMA AccountsSuffice == SamplerInv /\ Accounts => TicksWereSpent
<1> SUFFICES ASSUME SamplerInv, Accounts PROVE TicksWereSpent
  OBVIOUS
<1>1. SumFunction(reported) <= SumFunction(spent)
  <2>1. Account(Named) /\ Named \in SUBSET Named /\ Named \cap Groups = Groups
    BY DEF Accounts, Named
  <2>2. DOMAIN reported = Groups /\ DOMAIN spent = Named
    BY DEF SamplerInv, Reports, Processes
  <2> QED
    BY <2>1, <2>2, AccountNumbers DEF Account, SumFunction
<1>2. ASSUME ~ renamed, NEW g \in Groups PROVE reported[g] <= spent[g]
  <2> DEFINE A == {g}
  <2>1. A \in SUBSET Named /\ Account(A) /\ A \cap Groups = A
    BY <1>2 DEF Accounts, Named
  <2>2. ASSUME NEW f, f[g] \in Int PROVE SumFunctionOnSet(f, A) = f[g]
    <3>1. IsFiniteSet(A) /\ A \ {g} = {}
      BY FS_Singleton
    <3>2. SumFunctionOnSet(f, A) = f[g] + SumFunctionOnSet(f, A \ {g})
      BY <2>2, <3>1, SumTakesOut
    <3> QED
      BY <2>2, <3>1, <3>2, SumOfNone
  <2>3. reported[g] \in Nat /\ spent[g] \in Nat
    BY DEF SamplerInv, Reports, Processes, Named
  <2>4. SumFunctionOnSet(reported, A) = reported[g] /\ SumFunctionOnSet(spent, A) = spent[g]
    BY <2>2, <2>3
  <2> HIDE DEF A
  <2> QED
    BY <2>1, <2>3, <2>4, AccountNumbers DEF Account
<1> QED
  BY <1>1, <1>2 DEF TicksWereSpent

\* A tick is reported once at most, if it was spent while the sampler ran, and
\* under the group that spent it unless a process changed its name: for any
\* number of processes and rows, although processes exit and pids are used again.
THEOREM TicksAreSpent == Spec => []TicksWereSpent
<1>1. Init => ReadAsNamed
  BY DEF Init, ReadAsNamed
<1> QED
  BY <1>1, InitAccounts, InitTypes, SamplerInvKept, AccountsKept, AccountsSuffice, PTL DEF Spec
=============================================================================
