------------------------ MODULE PrivateConfigProofs ------------------------
(***************************************************************************)
(* Proofs about PrivateConfig for all installed files: any number of lines, *)
(* sections in any order, keys repeated or missing, in any case except as   *)
(* the assumptions of that module say.                                      *)
(***************************************************************************)
EXTENDS PrivateConfig, FiniteSetTheorems, WellFoundedInduction, SequenceTheorems, TLAPS
-----------------------------------------------------------------------------
(* Places. The least and the greatest place of a set, and the places in     *)
(* order: a list kept at some of its places is the list thinned.            *)

LEMMA PlacesAreFinite ==
    ASSUME NEW N \in Nat, NEW S \in SUBSET (1..N)
    PROVE  IsFiniteSet(S) /\ Cardinality(S) \in Nat
<1>1. IsFiniteSet(1..N)
  BY FS_Interval
<1>2. IsFiniteSet(S)
  BY <1>1, FS_Subset
<1> QED
  BY <1>2, FS_CardinalityType

LEMMA LeastPlace ==
    ASSUME NEW N \in Nat, NEW S \in SUBSET (1..N), S # {}
    PROVE  Min(S) \in S /\ \A i \in S : Min(S) <= i
<1> DEFINE Segments == {1..i : i \in S}
<1>1. IsWellFoundedOn(StrictSubsetOrdering(1..N), FiniteSubsetsOf(1..N))
  BY FS_StrictSubsetOrderingWellFounded
<1>2. \A i \in S : 1..i \in SUBSET (1..N) /\ IsFiniteSet(1..i)
  <2> SUFFICES ASSUME NEW i \in S PROVE 1..i \in SUBSET (1..N) /\ IsFiniteSet(1..i)
    OBVIOUS
  <2>1. i \in 1..N
    OBVIOUS
  <2> QED
    BY <2>1, FS_Interval
<1>3. Segments \subseteq FiniteSubsetsOf(1..N) /\ Segments # {}
  BY <1>2 DEF FiniteSubsetsOf
<1>4. PICK M \in Segments : \A U \in Segments : ~ (<<U, M>> \in StrictSubsetOrdering(1..N))
  <2> HIDE DEF Segments
  <2> QED
    BY <1>1, <1>3, WFMin
<1>5. PICK m \in S : M = 1..m
  OBVIOUS
<1>6. \A i \in S : m <= i
  <2> SUFFICES ASSUME NEW i \in S, ~ (m <= i) PROVE FALSE
    OBVIOUS
  <2>1. i \in 1..N /\ m \in 1..N /\ i < m
    <3>1. i \in 1..N /\ m \in 1..N
      OBVIOUS
    <3> QED
      BY <3>1
  <2>2. 1..i \subseteq 1..m /\ m \in 1..m /\ m \notin 1..i
    BY <2>1
  <2>3. <<1..i, 1..m>> \in StrictSubsetOrdering(1..N)
    BY <1>2, <2>2 DEF StrictSubsetOrdering
  <2> QED
    BY <1>4, <1>5, <2>3
<1> QED
  BY <1>6 DEF Min

LEMMA GreatestPlace ==
    ASSUME NEW N \in Nat, NEW S \in SUBSET (1..N), S # {}
    PROVE  Max(S) \in S /\ \A i \in S : i <= Max(S)
<1> DEFINE T == {N + 1 - i : i \in S}
<1>1. T \subseteq 1..N /\ T # {}
  <2>1. \A i \in S : N + 1 - i \in 1..N
    OBVIOUS
  <2> QED
    BY <2>1
<1>2. Min(T) \in T /\ \A i \in T : Min(T) <= i
  <2> HIDE DEF T
  <2> QED
    BY <1>1, LeastPlace
<1>3. PICK m \in S : Min(T) = N + 1 - m
  BY <1>2
<1>4. \A i \in S : i <= m
  <2> SUFFICES ASSUME NEW i \in S PROVE i <= m
    OBVIOUS
  <2>1. N + 1 - i \in T
    OBVIOUS
  <2>2. N + 1 - m <= N + 1 - i
    BY <1>2, <1>3, <2>1
  <2> QED
    BY <2>2
<1> QED
  BY <1>4 DEF Max

\* How many places of S there are up to place i.
Rank(S, i) == Cardinality({j \in S : j <= i})

LEMMA RankRises ==
    ASSUME NEW N \in Nat, NEW S \in SUBSET (1..N), NEW i \in S, NEW k \in S
    PROVE  /\ Rank(S, i) \in 1..Cardinality(S)
           /\ i < k => Rank(S, i) < Rank(S, k)
<1> DEFINE Upto(n) == {j \in S : j <= n}
<1>1. /\ IsFiniteSet(S) /\ Cardinality(S) \in Nat
      /\ \A n : IsFiniteSet(Upto(n)) /\ Cardinality(Upto(n)) \in Nat
  <2>1. \A T : T \subseteq 1..N => IsFiniteSet(T) /\ Cardinality(T) \in Nat
    BY PlacesAreFinite
  <2> QED
    BY <2>1
<1>2. \A n : Cardinality(Upto(n)) <= Cardinality(S)
  BY <1>1, FS_Subset
<1>3. Cardinality(Upto(i)) # 0
  <2>1. i \in Upto(i)
    OBVIOUS
  <2> QED
    BY <1>1, <2>1, FS_EmptySet
<1>4. ASSUME i < k PROVE Cardinality(Upto(i)) < Cardinality(Upto(k))
  <2>1. Upto(i) \subseteq Upto(k) /\ k \in Upto(k) /\ k \notin Upto(i)
    <3>1. \A j \in S : j \in Nat /\ (j <= i => j <= k)
      BY <1>4
    <3>2. ~ (k <= i) /\ k <= k
      BY <1>4, <3>1
    <3> QED
      BY <3>1, <3>2
  <2>2. Cardinality(Upto(i)) <= Cardinality(Upto(k))
        /\ (Cardinality(Upto(k)) = Cardinality(Upto(i)) => Upto(k) = Upto(i))
    BY <1>1, <2>1, FS_Subset
  <2> QED
    BY <1>1, <2>1, <2>2
<1> QED
  BY <1>1, <1>2, <1>3, <1>4 DEF Rank

LEMMA NthPlace ==
    ASSUME NEW N \in Nat, NEW S \in SUBSET (1..N)
    PROVE  /\ \A n \in 1..Cardinality(S) : Nth(S, n) \in S /\ Rank(S, Nth(S, n)) = n
           /\ \A i \in S : Nth(S, Rank(S, i)) = i
           /\ \A n, m \in 1..Cardinality(S) : n < m => Nth(S, n) < Nth(S, m)
<1> DEFINE C == Cardinality(S)
           f == [i \in S |-> Rank(S, i)]
<1>1. IsFiniteSet(S) /\ C \in Nat
  BY PlacesAreFinite
<1>2. \A i, k \in S : /\ Rank(S, i) \in 1..C
                      /\ i < k => Rank(S, i) < Rank(S, k)
  BY RankRises
<1>3. \A i, k \in S : Rank(S, i) = Rank(S, k) => i = k
  <2> SUFFICES ASSUME NEW i \in S, NEW k \in S, Rank(S, i) = Rank(S, k), i # k PROVE FALSE
    OBVIOUS
  <2>1. i < k \/ k < i
    OBVIOUS
  <2> QED
    BY <1>2, <2>1
<1>4. f \in Injection(S, 1..C)
  BY <1>2, <1>3 DEF Injection, IsInjective
<1>5. IsFiniteSet(1..C) /\ Cardinality(1..C) = C
  BY <1>1, FS_Interval
<1>6. f \in Surjection(S, 1..C)
  BY <1>4, <1>5, FS_Injection
<1>7. \A n \in 1..C : \E i \in S : Rank(S, i) = n
  BY <1>6 DEF Surjection
<1>8. \A n \in 1..C : Nth(S, n) \in S /\ Rank(S, Nth(S, n)) = n
  BY <1>7 DEF Nth, Rank
<1>9. \A i \in S : Nth(S, Rank(S, i)) = i
  BY <1>2, <1>3, <1>8
<1>10. ASSUME NEW n \in 1..C, NEW m \in 1..C, n < m PROVE Nth(S, n) < Nth(S, m)
  <2> SUFFICES ASSUME ~ (Nth(S, n) < Nth(S, m)) PROVE FALSE
    OBVIOUS
  <2>1. /\ Nth(S, n) \in S /\ Nth(S, m) \in S
        /\ Rank(S, Nth(S, n)) = n /\ Rank(S, Nth(S, m)) = m
    BY <1>8
  <2>2. Nth(S, m) < Nth(S, n) \/ Nth(S, m) = Nth(S, n)
    <3>1. \A i \in S : i \in Nat
      OBVIOUS
    <3>2. Nth(S, n) \in Nat /\ Nth(S, m) \in Nat
      BY <2>1, <3>1
    <3> QED
      BY <3>2
  <2>3. m < n \/ m = n
    BY <1>2, <2>1, <2>2
  <2> QED
    BY <1>1, <1>10, <2>3
<1> QED
  BY <1>8, <1>9, <1>10

\* The places of a rising e, and their images, are counted alike.
Rising(e, n, N) ==
    /\ e \in [1..n -> 1..N]
    /\ \A i, j \in 1..n : i < j => e[i] < e[j]

\* The images of some places.
Mapped(e, S) == {e[i] : i \in S}

LEMMA ImagesCounted ==
    ASSUME NEW n \in Nat, NEW N \in Nat, NEW e, Rising(e, n, N), NEW S \in SUBSET (1..n)
    PROVE  /\ Mapped(e, S) \subseteq 1..N /\ Cardinality(Mapped(e, S)) = Cardinality(S)
           /\ \A i \in S : Rank(Mapped(e, S), e[i]) = Rank(S, i)
<1> DEFINE T == {e[i] : i \in S}
<1>1. e \in [1..n -> 1..N] /\ \A i, j \in 1..n : i < j => e[i] < e[j]
  BY DEF Rising
<1>2. \A i, j \in 1..n : (e[i] = e[j] => i = j) /\ (e[i] <= e[j] => i <= j)
  <2> SUFFICES ASSUME NEW i \in 1..n, NEW j \in 1..n
               PROVE  (e[i] = e[j] => i = j) /\ (e[i] <= e[j] => i <= j)
    OBVIOUS
  <2>1. i < j \/ i = j \/ j < i
    OBVIOUS
  <2>2. e[i] \in Nat /\ e[j] \in Nat
    BY <1>1
  <2> QED
    BY <1>1, <2>1, <2>2
<1>3. ASSUME NEW R, R \subseteq S PROVE Cardinality({e[i] : i \in R}) = Cardinality(R)
  <2> DEFINE I == {e[i] : i \in R}
             g == [i \in R |-> e[i]]
  <2>1. IsFiniteSet(R)
    BY <1>3, PlacesAreFinite
  <2>2. g \in Bijection(R, I)
    <3>1. g \in [R -> I]
      OBVIOUS
    <3>2. \A i, j \in R : g[i] = g[j] => i = j
      BY <1>2, <1>3
    <3>3. \A t \in I : \E i \in R : g[i] = t
      OBVIOUS
    <3> HIDE DEF g, I
    <3> QED
      BY <3>1, <3>2, <3>3 DEF Bijection, Injection, Surjection, IsInjective
  <2>3. ExistsBijection(R, I)
    BY <2>2 DEF ExistsBijection
  <2> QED
    BY <2>1, <2>3, FS_Bijection
<1>4. ASSUME NEW i \in S PROVE Rank(T, e[i]) = Rank(S, i)
  <2> DEFINE R == {j \in S : j <= i}
  <2>1. {t \in T : t <= e[i]} = {e[j] : j \in R}
    <3>1. \A j \in S : e[j] <= e[i] <=> j <= i
      <4> SUFFICES ASSUME NEW j \in S PROVE e[j] <= e[i] <=> j <= i
        OBVIOUS
      <4>1. i \in 1..n /\ j \in 1..n /\ e[i] \in Nat /\ e[j] \in Nat
        BY <1>1
      <4>2. j <= i => j < i \/ j = i
        BY <4>1
      <4> QED
        BY <1>1, <1>2, <4>1, <4>2
    <3> QED
      BY <3>1
  <2>2. R \subseteq S
    OBVIOUS
  <2> HIDE DEF T
  <2> QED
    BY <1>3, <2>1, <2>2 DEF Rank
<1>5. T \subseteq 1..N
  BY <1>1
<1>6. Cardinality(T) = Cardinality(S)
  BY <1>3
<1> QED
  BY <1>4, <1>5, <1>6 DEF Mapped

\* `short` is `long` without some of its lines; line n was line e[n].
Thinned(short, long, e) ==
    /\ Rising(e, Len(short), Len(long))
    /\ \A n \in 1..Len(short) : short[n] = long[e[n]]

LEMMA KeepThins ==
    ASSUME NEW L, NEW lines \in Seq(L), NEW S \in SUBSET (1..Len(lines))
    PROVE  /\ Keep(lines, S) \in Seq(L)
           /\ \E e : /\ Thinned(Keep(lines, S), lines, e)
                     /\ {e[n] : n \in 1..Len(Keep(lines, S))} = S
<1> DEFINE C == Cardinality(S)
           kept == Keep(lines, S)
           e == [n \in 1..C |-> Nth(S, n)]
<1>1. C \in Nat /\ Len(lines) \in Nat
  <2>1. Len(lines) \in Nat
    OBVIOUS
  <2> QED
    BY <2>1, PlacesAreFinite
<1>2. /\ \A n \in 1..C : Nth(S, n) \in S /\ Rank(S, Nth(S, n)) = n
      /\ \A i \in S : Nth(S, Rank(S, i)) = i /\ Rank(S, i) \in 1..C
      /\ \A n, m \in 1..C : n < m => Nth(S, n) < Nth(S, m)
  BY <1>1, NthPlace, RankRises
<1>3. kept = [n \in 1..C |-> lines[Nth(S, n)]]
  BY DEF Keep
<1> HIDE DEF kept, C
<1>4. kept \in Seq(L) /\ Len(kept) = C
  <2>1. \A n \in 1..C : lines[Nth(S, n)] \in L
    <3>1. \A i \in S : lines[i] \in L
      OBVIOUS
    <3> QED
      BY <1>2, <3>1
  <2>2. kept \in [1..C -> L]
    BY <1>3, <2>1
  <2> QED
    BY <1>1, <1>3, <2>2
<1>5. Rising(e, C, Len(lines))
  BY <1>2 DEF Rising
<1>6. Thinned(kept, lines, e)
  BY <1>3, <1>4, <1>5 DEF Thinned
<1>7. {e[n] : n \in 1..C} = S
  BY <1>2
<1> QED
  BY <1>4, <1>6, <1>7 DEF kept

LEMMA KeepOfThinned ==
    ASSUME NEW L, NEW short \in Seq(L), NEW long \in Seq(L), NEW e, Thinned(short, long, e),
           NEW S \in SUBSET (1..Len(short))
    PROVE  Keep(short, S) = Keep(long, Mapped(e, S))
<1> DEFINE T == Mapped(e, S)
           C == Cardinality(S)
<1>1. Len(short) \in Nat /\ Len(long) \in Nat /\ Rising(e, Len(short), Len(long))
  BY DEF Thinned
<1>2. /\ T \subseteq 1..Len(long) /\ Cardinality(T) = C
      /\ \A i \in S : Rank(T, e[i]) = Rank(S, i)
  BY <1>1, ImagesCounted
<1>3. ASSUME NEW n \in 1..C PROVE short[Nth(S, n)] = long[Nth(T, n)]
  <2>1. Nth(S, n) \in S /\ Rank(S, Nth(S, n)) = n
    BY <1>1, NthPlace
  <2>2. e[Nth(S, n)] \in T /\ Rank(T, e[Nth(S, n)]) = n
    BY <1>2, <2>1 DEF Mapped
  <2>3. Nth(T, n) = e[Nth(S, n)]
    <3> HIDE DEF T
    <3> QED
      BY <1>1, <1>2, <2>2, NthPlace
  <2> QED
    BY <2>1, <2>3 DEF Thinned
<1> HIDE DEF T, C
<1>4. Keep(short, S) = [n \in 1..C |-> short[Nth(S, n)]]
  BY DEF Keep, C
<1>5. Keep(long, T) = [n \in 1..C |-> long[Nth(T, n)]]
  BY <1>2 DEF Keep
<1> QED
  BY <1>3, <1>4, <1>5 DEF T
-----------------------------------------------------------------------------
(* Sections. Lines lost that are no headers leave the others in their       *)
(* sections, and with them the values xrdp finds and the lines no edit is   *)
(* about.                                                                   *)

LEMMA PlacesOfHeaders ==
    ASSUME NEW L, NEW lines \in Seq(L)
    PROVE  /\ Len(lines) \in Nat /\ DOMAIN lines = 1..Len(lines)
           /\ Headers(lines) \subseteq 1..Len(lines)
           /\ \A i \in 1..Len(lines) : i \in Headers(lines) <=> lines[i].kind = "header"
BY DEF Headers

\* A line's section is that of the last header up to it.
LEMMA SectionIs ==
    ASSUME NEW L, NEW lines \in Seq(L), NEW i, NEW h \in Headers(lines), h <= i,
           \A j \in Headers(lines) : j <= i => j <= h
    PROVE  SectionOf(lines, i) = lines[h].name
<1> DEFINE before == {j \in Headers(lines) : j <= i}
<1>1. before \subseteq 1..Len(lines) /\ h \in before /\ Len(lines) \in Nat
  BY PlacesOfHeaders
<1>2. Max(before) \in before /\ h <= Max(before)
  <2> HIDE DEF before
  <2> QED
    BY <1>1, GreatestPlace
<1>3. Max(before) = h
  BY <1>1, <1>2
<1>4. SectionOf(lines, i) = lines[Max(before)].name
  <2>1. before # {}
    BY <1>1
  <2> QED
    BY <2>1 DEF SectionOf
<1> QED
  BY <1>3, <1>4

LEMMA NoSection ==
    ASSUME NEW lines, NEW i, \A j \in Headers(lines) : ~ (j <= i)
    PROVE  SectionOf(lines, i) = ""
BY DEF SectionOf

LEMMA LastHeader ==
    ASSUME NEW L, NEW lines \in Seq(L), NEW i, NEW j \in Headers(lines), j <= i
    PROVE  \E h \in Headers(lines) :
               h <= i /\ \A k \in Headers(lines) : k <= i => k <= h
<1> DEFINE before == {k \in Headers(lines) : k <= i}
<1>1. before \subseteq 1..Len(lines) /\ j \in before /\ Len(lines) \in Nat
  BY PlacesOfHeaders
<1>2. Max(before) \in before /\ \A k \in before : k <= Max(before)
  <2> HIDE DEF before
  <2> QED
    BY <1>1, GreatestPlace
<1> QED
  BY <1>2

\* Lines lost that are no headers leave the others in their sections.
HeadersKept(short, long, e) ==
    Thinned(short, long, e) /\ Headers(long) \subseteq Mapped(e, 1..Len(short))

LEMMA ThinnedPlaces ==
    ASSUME NEW L, NEW short \in Seq(L), NEW long \in Seq(L), NEW e, Thinned(short, long, e)
    PROVE  /\ Len(short) \in Nat /\ Len(long) \in Nat
           /\ \A n \in 1..Len(short) : /\ e[n] \in 1..Len(long) /\ short[n] = long[e[n]]
                                       /\ n \in Headers(short) <=> e[n] \in Headers(long)
           /\ \A n, m \in 1..Len(short) : (n <= m <=> e[n] <= e[m])
<1>1. Len(short) \in Nat /\ Len(long) \in Nat
  OBVIOUS
<1>2. \A n \in 1..Len(short) : e[n] \in 1..Len(long) /\ short[n] = long[e[n]]
  BY DEF Thinned, Rising
<1>3. \A n \in 1..Len(short) : n \in Headers(short) <=> e[n] \in Headers(long)
  <2>1. \A n \in 1..Len(short) : n \in Headers(short) <=> short[n].kind = "header"
    BY PlacesOfHeaders
  <2>2. \A i \in 1..Len(long) : i \in Headers(long) <=> long[i].kind = "header"
    BY PlacesOfHeaders
  <2> QED
    BY <1>2, <2>1, <2>2
<1>4. ASSUME NEW n \in 1..Len(short), NEW m \in 1..Len(short) PROVE n <= m <=> e[n] <= e[m]
  <2>1. /\ n < m => e[n] < e[m]
        /\ m < n => e[m] < e[n]
    BY DEF Thinned, Rising
  <2>2. e[n] \in Nat /\ e[m] \in Nat
    BY <1>2
  <2>3. n < m \/ n = m \/ m < n
    OBVIOUS
  <2> QED
    BY <2>1, <2>2, <2>3
<1> QED
  BY <1>1, <1>2, <1>3, <1>4

LEMMA SectionsThinned ==
    ASSUME NEW L, NEW short \in Seq(L), NEW long \in Seq(L), NEW e, HeadersKept(short, long, e),
           NEW n \in 1..Len(short)
    PROVE  SectionOf(short, n) = SectionOf(long, e[n])
<1>1. Thinned(short, long, e)
  BY DEF HeadersKept
<1>2. /\ Len(short) \in Nat /\ Len(long) \in Nat
      /\ \A i \in 1..Len(short) : /\ e[i] \in 1..Len(long) /\ short[i] = long[e[i]]
                                  /\ i \in Headers(short) <=> e[i] \in Headers(long)
      /\ \A i, j \in 1..Len(short) : (i <= j <=> e[i] <= e[j])
  BY <1>1, ThinnedPlaces
<1>3. /\ Headers(short) \subseteq 1..Len(short)
      /\ \A k \in Headers(long) : \E j \in Headers(short) : k = e[j]
  <2>1. Headers(short) \subseteq 1..Len(short)
    BY PlacesOfHeaders
  <2>2. \A k \in Headers(long) : \E j \in 1..Len(short) : k = e[j]
    BY DEF HeadersKept, Mapped
  <2> QED
    BY <1>2, <2>1, <2>2
<1>4. CASE \E j \in Headers(short) : j <= n
  <2>1. PICK h \in Headers(short) :
               h <= n /\ \A k \in Headers(short) : k <= n => k <= h
    BY <1>4, LastHeader
  <2>2. SectionOf(short, n) = short[h].name
    BY <2>1, SectionIs
  <2>3. h \in 1..Len(short) /\ e[h] \in Headers(long) /\ e[h] <= e[n]
    BY <1>2, <1>3, <2>1
  <2>4. ASSUME NEW k \in Headers(long), k <= e[n] PROVE k <= e[h]
    <3>1. PICK j \in Headers(short) : k = e[j]
      BY <1>3
    <3>2. j \in 1..Len(short) /\ j <= n
      BY <1>2, <1>3, <2>4, <3>1
    <3> QED
      BY <1>2, <2>1, <2>3, <3>1, <3>2
  <2>5. SectionOf(long, e[n]) = long[e[h]].name
    BY <2>3, <2>4, SectionIs
  <2> QED
    BY <1>2, <2>2, <2>3, <2>5
<1>5. CASE \A j \in Headers(short) : ~ (j <= n)
  <2>1. SectionOf(short, n) = ""
    BY <1>5, NoSection
  <2>2. \A k \in Headers(long) : ~ (k <= e[n])
    <3> SUFFICES ASSUME NEW k \in Headers(long), k <= e[n] PROVE FALSE
      OBVIOUS
    <3>1. PICK j \in Headers(short) : k = e[j]
      BY <1>3
    <3> QED
      BY <1>2, <1>3, <1>5, <3>1
  <2> QED
    BY <2>1, <2>2, NoSection
<1> QED
  BY <1>4, <1>5

\* The places of a key in a section.
PlacesOf(lines, s, k) == {j \in DOMAIN lines : IsKey(lines[j], k) /\ SectionOf(lines, j) = s}

LEMMA ValuesAre ==
    ASSUME NEW lines, NEW s, NEW k
    PROVE  Values(lines, s, k) = {lines[i].value : i \in PlacesOf(lines, s, k)}
BY DEF Values, PlacesOf

LEMMA ValuesThinned ==
    ASSUME NEW L, NEW short \in Seq(L), NEW long \in Seq(L), NEW e, HeadersKept(short, long, e),
           NEW s, NEW k
    PROVE  Values(short, s, k) =
             {long[i].value : i \in PlacesOf(long, s, k) \cap Mapped(e, 1..Len(short))}
<1> DEFINE Left == PlacesOf(long, s, k) \cap Mapped(e, 1..Len(short))
<1>1. \A n \in 1..Len(short) : /\ e[n] \in 1..Len(long) /\ short[n] = long[e[n]]
                               /\ SectionOf(short, n) = SectionOf(long, e[n])
  <2>1. Thinned(short, long, e)
    BY DEF HeadersKept
  <2>2. \A n \in 1..Len(short) : e[n] \in 1..Len(long) /\ short[n] = long[e[n]]
    BY <2>1, ThinnedPlaces
  <2>3. \A n \in 1..Len(short) : SectionOf(short, n) = SectionOf(long, e[n])
    BY SectionsThinned
  <2> QED
    BY <2>2, <2>3
<1>2. \A n \in 1..Len(short) : n \in PlacesOf(short, s, k) <=> e[n] \in Left
  <2>1. DOMAIN short = 1..Len(short) /\ DOMAIN long = 1..Len(long)
    OBVIOUS
  <2> QED
    BY <1>1, <2>1 DEF PlacesOf, Mapped
<1>3. PlacesOf(short, s, k) \subseteq 1..Len(short)
  BY DEF PlacesOf
<1>4. \A i \in Left : \E n \in PlacesOf(short, s, k) : i = e[n]
  <2>1. \A i \in Left : \E n \in 1..Len(short) : i = e[n]
    BY DEF Mapped
  <2> HIDE DEF Left
  <2> QED
    BY <1>2, <2>1
<1> HIDE DEF Left
<1>5. {short[n].value : n \in PlacesOf(short, s, k)} = {long[i].value : i \in Left}
  BY <1>1, <1>2, <1>3, <1>4
<1> QED
  BY <1>5, ValuesAre DEF Left

LEMMA UntouchedThinned ==
    ASSUME NEW L, NEW short \in Seq(L), NEW long \in Seq(L), NEW e, HeadersKept(short, long, e),
           \A i \in 1..Len(long) : i \in Mapped(e, 1..Len(short)) \/ Edited(long, i)
    PROVE  Untouched(short) = Untouched(long)
<1> DEFINE S == {n \in DOMAIN short : ~ Edited(short, n)}
           T == {i \in DOMAIN long : ~ Edited(long, i)}
<1>1. /\ \A n \in 1..Len(short) : e[n] \in 1..Len(long)
      /\ \A n \in 1..Len(short) : Edited(short, n) <=> Edited(long, e[n])
  <2>1. \A n \in 1..Len(short) : /\ e[n] \in 1..Len(long) /\ short[n] = long[e[n]]
                                 /\ SectionOf(short, n) = SectionOf(long, e[n])
    <3>1. Thinned(short, long, e)
      BY DEF HeadersKept
    <3>2. \A n \in 1..Len(short) : e[n] \in 1..Len(long) /\ short[n] = long[e[n]]
      BY <3>1, ThinnedPlaces
    <3>3. \A n \in 1..Len(short) : SectionOf(short, n) = SectionOf(long, e[n])
      BY SectionsThinned
    <3> QED
      BY <3>2, <3>3
  <2>2. ASSUME NEW n \in 1..Len(short) PROVE Edited(short, n) <=> Edited(long, e[n])
    BY <2>1 DEF Edited
  <2> QED
    BY <2>1, <2>2
<1>2. S \in SUBSET (1..Len(short))
  OBVIOUS
<1>3. T = Mapped(e, S)
  <2>1. \A i \in T : \E n \in S : i = e[n]
    <3> SUFFICES ASSUME NEW i \in T PROVE \E n \in S : i = e[n]
      OBVIOUS
    <3>1. i \in 1..Len(long) /\ ~ Edited(long, i)
      OBVIOUS
    <3>2. PICK n \in 1..Len(short) : i = e[n]
      BY <3>1 DEF Mapped
    <3> QED
      BY <1>1, <3>1, <3>2
  <2>2. \A n \in S : e[n] \in T
    BY <1>1
  <2> HIDE DEF S, T
  <2> QED
    BY <2>1, <2>2 DEF Mapped
<1> HIDE DEF S, T
<1>4. Keep(short, S) = Keep(long, Mapped(e, S))
  BY <1>2, KeepOfThinned DEF HeadersKept
<1> QED
  BY <1>3, <1>4 DEF Untouched, S, T

LEMMA OneConsoleThinned ==
    ASSUME NEW L, NEW short \in Seq(L), NEW long \in Seq(L), NEW e, HeadersKept(short, long, e)
    PROVE  OneConsole(short) <=> OneConsole(long)
<1>1. /\ Headers(short) \subseteq 1..Len(short)
      /\ \A n \in 1..Len(short) : /\ short[n] = long[e[n]]
                                  /\ n \in Headers(short) <=> e[n] \in Headers(long)
      /\ \A n, m \in 1..Len(short) : e[n] = e[m] => n = m
      /\ \A i \in Headers(long) : \E n \in Headers(short) : i = e[n]
  <2>1. Thinned(short, long, e)
    BY DEF HeadersKept
  <2>2. /\ \A n \in 1..Len(short) : /\ e[n] \in 1..Len(long) /\ short[n] = long[e[n]]
                                    /\ n \in Headers(short) <=> e[n] \in Headers(long)
        /\ \A n, m \in 1..Len(short) : (n <= m <=> e[n] <= e[m])
    BY <2>1, ThinnedPlaces
  <2>3. Headers(short) \subseteq 1..Len(short)
    BY PlacesOfHeaders
  <2>4. \A i \in Headers(long) : \E n \in 1..Len(short) : i = e[n]
    BY DEF HeadersKept, Mapped
  <2>5. ASSUME NEW n \in 1..Len(short), NEW m \in 1..Len(short), e[n] = e[m] PROVE n = m
    <3>1. e[n] \in Nat /\ e[m] \in Nat
      BY <2>2
    <3>2. n <= m /\ m <= n
      BY <2>2, <2>5, <3>1
    <3> QED
      BY <3>2
  <2> QED
    BY <2>2, <2>3, <2>4, <2>5
<1>2. ASSUME OneConsole(long) PROVE OneConsole(short)
  <2> SUFFICES ASSUME NEW n \in Headers(short), NEW m \in Headers(short),
                      short[n].name = "Console", short[m].name = "Console"
               PROVE  n = m
    BY DEF OneConsole
  <2>1. /\ n \in 1..Len(short) /\ e[n] \in Headers(long) /\ long[e[n]].name = "Console"
        /\ m \in 1..Len(short) /\ e[m] \in Headers(long) /\ long[e[m]].name = "Console"
    BY <1>1
  <2>2. e[n] = e[m]
    BY <1>2, <2>1 DEF OneConsole
  <2> QED
    BY <1>1, <2>1, <2>2
<1>3. ASSUME OneConsole(short) PROVE OneConsole(long)
  <2> SUFFICES ASSUME NEW i \in Headers(long), NEW j \in Headers(long),
                      long[i].name = "Console", long[j].name = "Console"
               PROVE  i = j
    BY DEF OneConsole
  <2>1. PICK n \in Headers(short), m \in Headers(short) : i = e[n] /\ j = e[m]
    BY <1>1
  <2>2. short[n].name = "Console" /\ short[m].name = "Console"
    BY <1>1, <2>1
  <2>3. n = m
    BY <1>3, <2>2 DEF OneConsole
  <2> QED
    BY <2>1, <2>3
<1> QED
  BY <1>2, <1>3

\* What an edit that drops lines, but no header, does.
LEMMA Dropped ==
    ASSUME NEW L, NEW lines \in Seq(L), NEW S \in SUBSET (1..Len(lines)),
           Headers(lines) \subseteq S
    PROVE  /\ Keep(lines, S) \in Seq(L)
           /\ \A s, k : Values(Keep(lines, S), s, k) =
                          {lines[i].value : i \in PlacesOf(lines, s, k) \cap S}
           /\ OneConsole(Keep(lines, S)) <=> OneConsole(lines)
           /\ (\A i \in 1..Len(lines) : i \in S \/ Edited(lines, i))
                 => Untouched(Keep(lines, S)) = Untouched(lines)
<1> DEFINE kept == Keep(lines, S)
<1>1. kept \in Seq(L)
  BY KeepThins
<1>2. PICK e : Thinned(kept, lines, e) /\ Mapped(e, 1..Len(kept)) = S
  BY KeepThins DEF Mapped
<1> HIDE DEF kept
<1>3. HeadersKept(kept, lines, e)
  BY <1>2 DEF HeadersKept
<1>4. ASSUME NEW s, NEW k
      PROVE  Values(kept, s, k) = {lines[i].value : i \in PlacesOf(lines, s, k) \cap S}
  BY <1>1, <1>2, <1>3, ValuesThinned
<1>5. OneConsole(kept) <=> OneConsole(lines)
  BY <1>1, <1>3, OneConsoleThinned
<1>6. ASSUME \A i \in 1..Len(lines) : i \in S \/ Edited(lines, i)
      PROVE  Untouched(kept) = Untouched(lines)
  BY <1>1, <1>2, <1>3, <1>6, UntouchedThinned
<1> QED
  BY <1>1, <1>4, <1>5, <1>6 DEF kept
-----------------------------------------------------------------------------
(* [Console]. Where it begins and ends, and what a line added there         *)
(* changes.                                                                 *)

\* The first [Console] and the lines up to the next header are of its section; if
\* it is the only one, no others are.
LEMMA ConsoleBounds ==
    ASSUME NEW L, NEW lines \in Seq(L),
           NEW first \in Headers(lines), lines[first].name = "Console"
    PROVE  /\ ConsoleStart(lines) \in 1..Len(lines) /\ ConsoleEnd(lines) \in Nat
           /\ ConsoleStart(lines) < ConsoleEnd(lines) /\ ConsoleEnd(lines) <= Len(lines) + 1
           /\ \A i \in 1..Len(lines) :
                 ConsoleStart(lines) <= i /\ i < ConsoleEnd(lines) => SectionOf(lines, i) = "Console"
           /\ \A i \in 1..Len(lines) : InConsole(lines, i) => SectionOf(lines, i) = "Console"
           /\ OneConsole(lines) => \A i \in 1..Len(lines) : i \notin Headers(lines) =>
                 (InConsole(lines, i) <=> SectionOf(lines, i) = "Console")
<1> DEFINE Consoles == {i \in Headers(lines) : lines[i].name = "Console"}
           c == ConsoleStart(lines)
           Later == {i \in Headers(lines) : i > c} \cup {Len(lines) + 1}
           end == ConsoleEnd(lines)
<1>1. /\ Len(lines) \in Nat
      /\ Headers(lines) \subseteq 1..Len(lines)
  BY PlacesOfHeaders
<1>2. c \in Headers(lines) /\ c \in 1..Len(lines) /\ lines[c].name = "Console"
  <2>1. Consoles \subseteq 1..Len(lines) /\ Consoles \subseteq 1..Len(lines) + 1 /\ Consoles # {}
    BY <1>1
  <2>2. Min(Consoles) \in Consoles
    <3> HIDE DEF Consoles
    <3> QED
      BY <1>1, <2>1, LeastPlace
  <2>3. c = Min(Consoles)
    BY DEF ConsoleStart
  <2> HIDE DEF c
  <2> QED
    BY <1>1, <2>2, <2>3
<1> HIDE DEF Consoles, c
<1>3. end \in Later /\ \A i \in Later : end <= i
  <2>1. Later \subseteq 1..Len(lines) + 1 /\ Later # {} /\ Len(lines) + 1 \in Nat
    BY <1>1
  <2>2. Min(Later) \in Later /\ \A i \in Later : Min(Later) <= i
    <3> HIDE DEF Later
    <3> QED
      BY <2>1, LeastPlace
  <2>3. end = Min(Later)
    BY DEF ConsoleEnd, c
  <2> QED
    BY <2>2, <2>3
<1>4. /\ end \in Nat /\ c < end /\ end <= Len(lines) + 1
      /\ end # Len(lines) + 1 => end \in Headers(lines)
      /\ \A i \in Headers(lines) : c < i => end <= i
  BY <1>1, <1>2, <1>3
<1> HIDE DEF Later, end
<1>5. ASSUME NEW i \in 1..Len(lines), c <= i, i < end
      PROVE  SectionOf(lines, i) = "Console"
  <2>1. \A j \in Headers(lines) : j <= i => j <= c
    BY <1>1, <1>2, <1>4, <1>5
  <2> QED
    BY <1>2, <1>5, <2>1, SectionIs
<1>6. ASSUME NEW i \in 1..Len(lines), SectionOf(lines, i) = "Console", OneConsole(lines)
      PROVE  c <= i /\ i < end
  <2>1. PICK j \in Headers(lines) : j <= i
    BY <1>6, NoSection
  <2>2. PICK h \in Headers(lines) :
               h <= i /\ \A k \in Headers(lines) : k <= i => k <= h
    BY <2>1, LastHeader
  <2>3. h = c
    BY <1>2, <1>6, <2>2, SectionIs DEF OneConsole
  <2>4. c <= i
    BY <2>2, <2>3
  <2>5. ~ (end <= i)
    <3> SUFFICES ASSUME end <= i PROVE FALSE
      OBVIOUS
    <3>1. end \in Headers(lines)
      BY <1>1, <1>4
    <3> QED
      BY <1>1, <1>2, <1>4, <2>2, <2>3, <3>1
  <2> QED
    BY <1>1, <1>2, <1>4, <2>4, <2>5
<1>7. \A i : InConsole(lines, i) <=> c < i /\ i < end
  BY DEF InConsole, c, end
<1>8. ASSUME NEW i \in 1..Len(lines), InConsole(lines, i)
      PROVE  SectionOf(lines, i) = "Console"
  BY <1>2, <1>5, <1>7, <1>8
<1>9. ASSUME OneConsole(lines), NEW i \in 1..Len(lines), i \notin Headers(lines)
      PROVE  InConsole(lines, i) <=> SectionOf(lines, i) = "Console"
  <2>1. c # i
    BY <1>2, <1>9
  <2>2. c < i <=> c <= i
    BY <1>1, <1>2, <2>1
  <2> QED
    BY <1>5, <1>6, <1>7, <1>9, <2>2
<1>10. /\ c \in 1..Len(lines) /\ end \in Nat /\ c < end /\ end <= Len(lines) + 1
       /\ \A i \in 1..Len(lines) : c <= i /\ i < end => SectionOf(lines, i) = "Console"
  BY <1>2, <1>4, <1>5
<1> QED
  BY <1>8, <1>9, <1>10 DEF c, end

LEMMA ConsoleThere ==
    ASSUME NEW L, NEW lines \in Seq(L), NEW i, SectionOf(lines, i) = "Console"
    PROVE  \E c \in Headers(lines) : lines[c].name = "Console"
<1>1. PICK j \in Headers(lines) : j <= i
  BY NoSection
<1>2. PICK h \in Headers(lines) :
             h <= i /\ \A k \in Headers(lines) : k <= i => k <= h
  BY <1>1, LastHeader
<1>3. lines[h].name = "Console"
  BY <1>2, SectionIs
<1> QED
  BY <1>3

\* What an edit that adds a line, but no header, does.
LEMMA InsertedAt ==
    ASSUME NEW L, NEW lines \in Seq(L), NEW x \in L, NEW p \in 1..Len(lines) + 1
    PROVE  /\ InsertAt(lines, p, x) \in Seq(L)
           /\ Len(InsertAt(lines, p, x)) = Len(lines) + 1
           /\ InsertAt(lines, p, x)[p] = x
           /\ \A i \in 1..Len(lines) :
                 InsertAt(lines, p, x)[IF i < p THEN i ELSE i + 1] = lines[i]
<1> DEFINE a == SubSeq(lines, 1, p - 1)
           b == SubSeq(lines, p, Len(lines))
           m == a \o <<x>>
           ins == InsertAt(lines, p, x)
<1>1. Len(lines) \in Nat /\ p \in Nat /\ 1 <= p /\ p <= Len(lines) + 1
  OBVIOUS
<1>2. /\ a \in Seq(L) /\ Len(a) = p - 1 /\ \A i \in 1..p - 1 : a[i] = lines[i]
  <2>1. \A i \in 1..p - 1 : lines[i] \in L
    BY <1>1
  <2>2. p - 1 \in Int /\ 1 \in Int
    BY <1>1
  <2>3. /\ a \in Seq(L)
        /\ Len(a) = IF 1 <= p - 1 THEN (p - 1) - 1 + 1 ELSE 0
        /\ \A i \in 1..(p - 1) - 1 + 1 : a[i] = lines[1 + i - 1]
    BY <2>1, <2>2, SubSeqProperties
  <2>4. \A i \in 1..p - 1 : i \in 1..(p - 1) - 1 + 1 /\ 1 + i - 1 = i
    BY <1>1
  <2> HIDE DEF a
  <2> QED
    BY <1>1, <2>3, <2>4
<1>3. /\ b \in Seq(L) /\ Len(b) = Len(lines) - p + 1
      /\ \A i \in 1..Len(lines) - p + 1 : b[i] = lines[p + i - 1]
  <2>1. \A i \in p..Len(lines) : lines[i] \in L
    BY <1>1
  <2>2. /\ b \in Seq(L)
        /\ Len(b) = IF p <= Len(lines) THEN Len(lines) - p + 1 ELSE 0
        /\ \A i \in 1..Len(lines) - p + 1 : b[i] = lines[p + i - 1]
    BY <1>1, <2>1, SubSeqProperties
  <2> HIDE DEF b
  <2> QED
    BY <1>1, <2>2
<1>4. ins = m \o b
  BY DEF InsertAt
<1> HIDE DEF ins, a, b
<1>5. /\ m \in Seq(L) /\ Len(m) = p
      /\ \A i \in 1..p - 1 : m[i] = lines[i]
      /\ m[p] = x
  <2>1. /\ <<x>> \in Seq(L) /\ Len(<<x>>) = 1 /\ <<x>>[1] = x
    OBVIOUS
  <2>2. /\ m \in Seq(L) /\ Len(m) = Len(a) + Len(<<x>>)
        /\ \A i \in 1..Len(a) + Len(<<x>>) : m[i] =
               IF i <= Len(a) THEN a[i] ELSE <<x>>[i - Len(a)]
    BY <1>2, <2>1, ConcatProperties
  <2>3. /\ Len(a) + Len(<<x>>) = p
        /\ \A i \in 1..p - 1 : i \in 1..p /\ i <= Len(a)
        /\ p \in 1..p /\ ~ (p <= Len(a)) /\ p - Len(a) = 1
    BY <1>1, <1>2, <2>1
  <2> HIDE DEF m
  <2> QED
    BY <1>2, <2>1, <2>2, <2>3
<1> HIDE DEF m
<1>6. /\ ins \in Seq(L) /\ Len(ins) = p + (Len(lines) - p + 1)
      /\ \A i \in 1..p + (Len(lines) - p + 1) : ins[i] =
               IF i <= p THEN m[i] ELSE b[i - p]
  BY <1>3, <1>4, <1>5, ConcatProperties
<1>7. Len(ins) = Len(lines) + 1
  BY <1>1, <1>6
<1>8. ins[p] = x
  BY <1>1, <1>5, <1>6
<1>9. ASSUME NEW i \in 1..Len(lines)
      PROVE  ins[IF i < p THEN i ELSE i + 1] = lines[i]
  <2>1. CASE i < p
    <3>1. i \in 1..p - 1 /\ i \in 1..p + (Len(lines) - p + 1) /\ i <= p
      BY <1>1, <2>1
    <3>2. ins[i] = m[i] /\ m[i] = lines[i]
      BY <1>5, <1>6, <3>1
    <3> QED
      BY <2>1, <3>2
  <2>2. CASE ~ (i < p)
    <3>1. /\ i + 1 \in 1..p + (Len(lines) - p + 1) /\ ~ (i + 1 <= p)
          /\ i + 1 - p \in 1..Len(lines) - p + 1 /\ p + (i + 1 - p) - 1 = i
      BY <1>1, <2>2
    <3>2. ins[i + 1] = b[i + 1 - p] /\ b[i + 1 - p] = lines[i]
      BY <1>3, <1>6, <3>1
    <3> QED
      BY <2>2, <3>2
  <2> QED
    BY <2>1, <2>2
<1> QED
  BY <1>6, <1>7, <1>8, <1>9 DEF ins

LEMMA Added ==
    ASSUME NEW L, NEW lines \in Seq(L), NEW x \in L, NEW p \in 1..Len(lines) + 1,
           x.kind # "header", 1 < p, NEW s, s = SectionOf(lines, p - 1)
    PROVE  LET ins == InsertAt(lines, p, x)
           IN  /\ ins \in Seq(L)
               /\ \A t, k : Values(ins, t, k) =
                     Values(lines, t, k) \cup IF t = s /\ IsKey(x, k) THEN {x.value} ELSE {}
               /\ OneConsole(ins) <=> OneConsole(lines)
               /\ x.kind = "key" /\ <<s, x.name>> \in EditedPlaces
                     => Untouched(ins) = Untouched(lines)
<1> DEFINE ins == InsertAt(lines, p, x)
           e == [i \in 1..Len(lines) |-> IF i < p THEN i ELSE i + 1]
<1>1. Len(lines) \in Nat /\ p \in Nat /\ p - 1 \in 1..Len(lines)
  OBVIOUS
<1>2. /\ ins \in Seq(L) /\ Len(ins) = Len(lines) + 1 /\ ins[p] = x
      /\ \A i \in 1..Len(lines) : ins[IF i < p THEN i ELSE i + 1] = lines[i]
  BY InsertedAt
<1> HIDE DEF ins
<1>3. \A i \in 1..Len(lines) : e[i] = (IF i < p THEN i ELSE i + 1) /\ e[i] \in 1..Len(lines) + 1
  BY <1>1
<1>4. Thinned(lines, ins, e)
  <2>1. e \in [1..Len(lines) -> 1..Len(ins)]
    BY <1>2, <1>3
  <2>2. \A i, j \in 1..Len(lines) : i < j => e[i] < e[j]
    BY <1>1, <1>3
  <2>3. \A i \in 1..Len(lines) : lines[i] = ins[e[i]]
    BY <1>2, <1>3
  <2> HIDE DEF e
  <2> QED
    BY <2>1, <2>2, <2>3 DEF Thinned, Rising
<1>5. Mapped(e, 1..Len(lines)) = 1..Len(ins) \ {p}
  <2>1. \A i \in 1..Len(lines) : e[i] \in 1..Len(ins) \ {p}
    BY <1>1, <1>2, <1>3
  <2>2. ASSUME NEW j \in 1..Len(ins) \ {p} PROVE \E i \in 1..Len(lines) : j = e[i]
    <3>1. CASE j < p
      <4>1. j \in 1..Len(lines) /\ e[j] = j
        BY <1>1, <1>2, <1>3, <3>1
      <4> QED
        BY <4>1
    <3>2. CASE ~ (j < p)
      <4>1. j - 1 \in 1..Len(lines) /\ ~ (j - 1 < p) /\ (j - 1) + 1 = j
        BY <1>1, <1>2, <2>2, <3>2
      <4>2. e[j - 1] = j
        BY <1>3, <4>1
      <4> QED
        BY <4>1, <4>2
    <3> QED
      BY <3>1, <3>2
  <2> HIDE DEF e
  <2> QED
    BY <2>1, <2>2 DEF Mapped
<1>6. e[p - 1] = p - 1
  BY <1>1
<1> HIDE DEF e
<1>7. Headers(ins) \subseteq 1..Len(ins) \ {p}
  BY <1>2, PlacesOfHeaders
<1>8. HeadersKept(lines, ins, e)
  BY <1>4, <1>5, <1>7 DEF HeadersKept
<1>9. SectionOf(ins, p) = s
  <2>1. SectionOf(ins, p - 1) = s
    <3>1. SectionOf(lines, p - 1) = SectionOf(ins, e[p - 1])
      BY <1>1, <1>2, <1>8, SectionsThinned
    <3> QED
      BY <1>6, <3>1
  <2>2. {j \in Headers(ins) : j <= p} = {j \in Headers(ins) : j <= p - 1}
    <3>1. \A j \in Headers(ins) : j \in Nat /\ j # p
      BY <1>7
    <3> QED
      BY <1>1, <3>1
  <2> QED
    BY <2>1, <2>2 DEF SectionOf
<1>10. ASSUME NEW t, NEW k
       PROVE  Values(ins, t, k) =
                 Values(lines, t, k) \cup IF t = s /\ IsKey(x, k) THEN {x.value} ELSE {}
  <2>1. Values(lines, t, k) = {ins[i].value : i \in PlacesOf(ins, t, k) \cap (1..Len(ins) \ {p})}
    BY <1>2, <1>5, <1>8, ValuesThinned
  <2>2. Values(ins, t, k) = {ins[i].value : i \in PlacesOf(ins, t, k)}
    BY ValuesAre
  <2>3. p \in PlacesOf(ins, t, k) <=> t = s /\ IsKey(x, k)
    BY <1>1, <1>2, <1>9 DEF PlacesOf
  <2>4. PlacesOf(ins, t, k) \subseteq 1..Len(ins)
    BY <1>2 DEF PlacesOf
  <2>5. CASE t = s /\ IsKey(x, k)
    <3>1. PlacesOf(ins, t, k) = (PlacesOf(ins, t, k) \cap (1..Len(ins) \ {p})) \cup {p}
      BY <2>3, <2>4, <2>5
    <3> QED
      BY <1>2, <2>1, <2>2, <2>5, <3>1
  <2>6. CASE ~ (t = s /\ IsKey(x, k))
    <3>1. PlacesOf(ins, t, k) = PlacesOf(ins, t, k) \cap (1..Len(ins) \ {p})
      BY <2>3, <2>4, <2>6
    <3> QED
      BY <2>1, <2>2, <2>6, <3>1
  <2> QED
    BY <2>5, <2>6
<1>11. OneConsole(ins) <=> OneConsole(lines)
  BY <1>2, <1>8, OneConsoleThinned
<1>12. ASSUME x.kind = "key", <<s, x.name>> \in EditedPlaces
       PROVE  Untouched(ins) = Untouched(lines)
  <2>1. Edited(ins, p)
    BY <1>2, <1>9, <1>12 DEF Edited
  <2>2. \A i \in 1..Len(ins) : i \in Mapped(e, 1..Len(lines)) \/ Edited(ins, i)
    BY <1>5, <2>1
  <2> QED
    BY <1>2, <1>8, <2>2, UntouchedThinned
<1> QED
  BY <1>2, <1>10, <1>11, <1>12 DEF ins
-----------------------------------------------------------------------------
(* The loop over the lines. What comes of a line depends on the line and    *)
(* its section alone; once all places are seen, the file is private.        *)

\* The lines of the private file.  A literal is a string, but the provers have no
\* rule that says so: the literals the edits write are listed.
Words == STRING \cup {"private", "true", "false", "as is", "enable_dynamic_resizing"}
Written == [kind : {"header", "key", "comment"}, name : Words, lower : BOOLEAN, value : Words]

LEMMA SourceIsWritten == source \in Sources => source \in Seq(Written)
<1> SUFFICES ASSUME source \in Sources PROVE source \in Seq(Written)
  OBVIOUS
<1>1. source \in Seq(Line)
  BY SourcesAreLines
<1>2. Line \subseteq Written
  BY DEF Line, Written, Words
<1> QED
  BY <1>1, <1>2

\* The line that comes of line i of the installed file.
Replaces(i) ==
    /\ source[i].kind = "key" /\ source[i].lower
    /\ <<SectionOf(source, i), source[i].name>> \in Required
NewLine(i) ==
    IF Replaces(i)
    THEN Key(source[i].name, Replacements[<<SectionOf(source, i), source[i].name>>])
    ELSE source[i]

Reading ==
    /\ output \in Seq(Written) /\ rest \in Seq(Written)
    /\ Len(output) + Len(rest) = Len(source)
    /\ \A i \in 1..Len(rest) : rest[i] = source[Len(output) + i]
    /\ \A i \in 1..Len(output) : output[i] = NewLine(i)
    /\ section = SectionOf(source, Len(output))
    /\ \A place \in seen : \E i \in 1..Len(output) :
          Replaces(i) /\ place = <<SectionOf(source, i), source[i].name>>

\* What each edit leaves as it was.
Private(lines) ==
    /\ lines \in Seq(Written)
    /\ OneConsole(lines) <=> OneConsole(source)
    /\ Values(lines, "Console", "chansrvport") # {}
    /\ InOneCase(source) =>
          /\ Values(lines, "Globals", "port") = {"private"}
          /\ Values(lines, "Console", "chansrvport") = {"private"}
          /\ Values(lines, "Channels", "drdynvc") = {Drdynvc}
          /\ Values(lines, "Console", "channel.drdynvc") = {Drdynvc}
    /\ Untouched(lines) = Untouched(source)

\* What each edit is for, in a file with one [Console].
GfxSwitchOff(lines) ==
    OneConsole(source) /\ options.gfx # "as is" => Values(lines, "Console", "disable_gfx") = {}

Installed == Values(source, "Console", "enable_dynamic_resizing")
ResizingIs(lines, values) == Values(lines, "Console", "enable_dynamic_resizing") = values
ResizingWanted == IF options.resizing = "disable" /\ Installed = {} THEN {"false"} ELSE Installed
ResizingSettled(lines) == OneConsole(source) => ResizingIs(lines, ResizingWanted)

ConfigInv ==
    /\ source \in Sources
    /\ options \in Option
    /\ pc = "lines" => Reading
    /\ pc = "gfx" => Private(output) /\ ResizingIs(output, Installed)
    /\ pc = "resizing" =>
          Private(output) /\ ResizingIs(output, Installed) /\ GfxSwitchOff(output)
    /\ pc = "written" => Private(target) /\ ResizingSettled(target) /\ GfxSwitchOff(target)
    /\ PrivateAndAsAsked /\ OthersKept

LEMMA SectionNext ==
    ASSUME NEW L, NEW lines \in Seq(L), NEW n \in Nat, n + 1 \in 1..Len(lines)
    PROVE  SectionOf(lines, n + 1) = IF lines[n + 1].kind = "header" THEN lines[n + 1].name
                                     ELSE SectionOf(lines, n)
<1>1. /\ Headers(lines) \subseteq Nat
      /\ n + 1 \in Headers(lines) <=> lines[n + 1].kind = "header"
  BY PlacesOfHeaders
<1>2. CASE lines[n + 1].kind = "header"
  <2>1. n + 1 \in Headers(lines) /\ n + 1 <= n + 1
    BY <1>1, <1>2
  <2> QED
    BY <1>2, <2>1, SectionIs
<1>3. CASE lines[n + 1].kind # "header"
  <2>1. \A j \in Headers(lines) : j <= n + 1 <=> j <= n
    <3>1. \A j \in Headers(lines) : j \in Nat /\ j # n + 1
      BY <1>1, <1>3
    <3> QED
      BY <3>1
  <2>2. {j \in Headers(lines) : j <= n + 1} = {j \in Headers(lines) : j <= n}
    BY <2>1
  <2> QED
    BY <1>3, <2>2 DEF SectionOf
<1> QED
  BY <1>2, <1>3

LEMMA SameSections ==
    ASSUME NEW L, NEW a \in Seq(L), NEW b \in Seq(L), Len(a) = Len(b),
           \A j \in 1..Len(a) : a[j].kind = b[j].kind /\ a[j].name = b[j].name,
           NEW i
    PROVE  SectionOf(a, i) = SectionOf(b, i)
<1>1. Headers(a) = Headers(b) /\ Headers(a) \subseteq 1..Len(a)
  BY PlacesOfHeaders
<1>2. CASE \E j \in Headers(a) : j <= i
  <2>1. PICK h \in Headers(a) : h <= i /\ \A k \in Headers(a) : k <= i => k <= h
    BY <1>2, LastHeader
  <2>2. SectionOf(a, i) = a[h].name
    BY <2>1, SectionIs
  <2>3. SectionOf(b, i) = b[h].name
    BY <1>1, <2>1, SectionIs
  <2> QED
    BY <1>1, <2>2, <2>3
<1>3. CASE \A j \in Headers(a) : ~ (j <= i)
  BY <1>1, <1>3, NoSection
<1> QED
  BY <1>2, <1>3

LEMMA ReplacementsAre ==
    ASSUME options \in Option
    PROVE  /\ Replacements[<<"Globals", "port">>] = "private"
           /\ Replacements[<<"Console", "chansrvport">>] = "private"
           /\ Replacements[<<"Channels", "drdynvc">>] = Drdynvc
           /\ Replacements[<<"Console", "channel.drdynvc">>] = Drdynvc
           /\ Always \subseteq Required
           /\ Required \subseteq EditedPlaces
           /\ <<"Console", "enable_dynamic_resizing">> \notin Required
           /\ \A place \in Required : Replacements[place] \in Words
<1>1. Always \subseteq Required
  BY DEF Required
<1>2. /\ <<"Globals", "port">> \in Always /\ <<"Console", "chansrvport">> \in Always
      /\ <<"Channels", "drdynvc">> \in Always /\ <<"Console", "channel.drdynvc">> \in Always
  BY DEF Always
<1>3. \A place \in Required :
         Replacements[place] =
            CASE place[2] \in {"port", "chansrvport"} -> "private"
              [] place[2] \in {"drdynvc", "channel.drdynvc"} -> Drdynvc
              [] OTHER -> options.compression
  BY DEF Replacements
<1>4. Replacements[<<"Globals", "port">>] = "private"
  BY <1>1, <1>2, <1>3
<1>5. Replacements[<<"Console", "chansrvport">>] = "private"
  BY <1>1, <1>2, <1>3
<1>6. Replacements[<<"Channels", "drdynvc">>] = Drdynvc
  BY <1>1, <1>2, <1>3
<1>7. Replacements[<<"Console", "channel.drdynvc">>] = Drdynvc
  BY <1>1, <1>2, <1>3
<1>b. \A place \in Required :
         \/ place = <<"Globals", "port">> \/ place = <<"Channels", "drdynvc">>
         \/ place = <<"Console", "chansrvport">> \/ place = <<"Console", "channel.drdynvc">>
         \/ place = <<"Globals", "bitmap_compression">>
  BY DEF Required, Always
<1>8. Required \subseteq EditedPlaces
  <2>1. /\ "chansrvport" \in ChansrvKeys \cup {"disable_gfx", "enable_dynamic_resizing"}
        /\ "channel.drdynvc" \in ChansrvKeys \cup {"disable_gfx", "enable_dynamic_resizing"}
    BY DEF ChansrvKeys
  <2>2. /\ <<"Console", "chansrvport">> \in EditedPlaces
        /\ <<"Console", "channel.drdynvc">> \in EditedPlaces
    BY <2>1 DEF EditedPlaces
  <2>3. /\ <<"Globals", "port">> \in EditedPlaces /\ <<"Channels", "drdynvc">> \in EditedPlaces
        /\ <<"Globals", "bitmap_compression">> \in EditedPlaces
    BY DEF EditedPlaces
  <2> QED
    BY <1>b, <2>2, <2>3
<1>9. <<"Console", "enable_dynamic_resizing">> \notin Required
  BY DEF Required, Always
<1>10. ASSUME NEW place \in Required PROVE Replacements[place] \in Words
  <2>1. Drdynvc = "false" \/ Drdynvc = "true"
    BY DEF Drdynvc
  <2>2. options.compression = "as is" \/ options.compression = "true"
    BY DEF Option
  <2>3. \/ Replacements[place] = "private"
        \/ Replacements[place] = Drdynvc
        \/ Replacements[place] = options.compression
    BY <1>3
  <2>4. \/ Replacements[place] = "private" \/ Replacements[place] = "false"
        \/ Replacements[place] = "true" \/ Replacements[place] = "as is"
    BY <2>1, <2>2, <2>3
  <2> QED
    BY <2>4 DEF Words
<1> QED
  BY <1>1, <1>4, <1>5, <1>6, <1>7, <1>8, <1>9, <1>10

LEMMA NewLineIsLine ==
    ASSUME options \in Option, source \in Seq(Written), NEW i \in 1..Len(source)
    PROVE  /\ NewLine(i) \in Written
           /\ NewLine(i).kind = source[i].kind /\ NewLine(i).name = source[i].name
<1>1. source[i] \in Written
  OBVIOUS
<1>2. CASE Replaces(i)
  <2>1. Replacements[<<SectionOf(source, i), source[i].name>>] \in Words
    BY <1>2, ReplacementsAre DEF Replaces
  <2> QED
    BY <1>1, <1>2, <2>1 DEF NewLine, Key, Written, Replaces
<1>3. CASE ~ Replaces(i)
  BY <1>1, <1>3 DEF NewLine
<1> QED
  BY <1>2, <1>3

\* One more line is read.
LEMMA LineRead ==
    ASSUME options \in Option, source \in Seq(Written), Reading, rest # <<>>,
           NEW n, n = Len(output), ReadLine(<<NewLine(n + 1)>>),
           section' = SectionOf(source, n + 1),
           \A place \in seen' : \/ place \in seen
                                \/ /\ Replaces(n + 1)
                                   /\ place = <<SectionOf(source, n + 1), source[n + 1].name>>
    PROVE  Reading'
<1> DEFINE l == NewLine(n + 1)
<1>1. /\ output' = output \o <<l>> /\ rest' = Tail(rest) /\ source' = source /\ options' = options
  BY DEF ReadLine
<1>2. /\ output \in Seq(Written) /\ rest \in Seq(Written) /\ n \in Nat /\ Len(source) \in Nat
      /\ Len(rest) \in Nat /\ Len(rest) # 0
      /\ n + Len(rest) = Len(source)
      /\ \A i \in 1..Len(rest) : rest[i] = source[n + i]
      /\ \A i \in 1..n : output[i] = NewLine(i)
      /\ \A place \in seen : \E i \in 1..n :
            Replaces(i) /\ place = <<SectionOf(source, i), source[i].name>>
  <2>1. /\ output \in Seq(Written) /\ rest \in Seq(Written)
        /\ Len(output) + Len(rest) = Len(source)
        /\ \A i \in 1..Len(rest) : rest[i] = source[Len(output) + i]
        /\ \A i \in 1..Len(output) : output[i] = NewLine(i)
        /\ \A place \in seen : \E i \in 1..Len(output) :
              Replaces(i) /\ place = <<SectionOf(source, i), source[i].name>>
    BY DEF Reading
  <2>2. Len(output) \in Nat /\ Len(source) \in Nat /\ Len(rest) \in Nat /\ Len(rest) # 0
    BY <2>1, EmptySeq
  <2> QED
    BY <2>1, <2>2
<1>3. l \in Written
  BY <1>2, NewLineIsLine
<1> HIDE DEF l
<1>4. /\ output' \in Seq(Written) /\ Len(output') = n + 1
      /\ \A i \in 1..n : output'[i] = output[i]
      /\ output'[n + 1] = l
  <2>1. output' = Append(output, l)
    BY <1>1, <1>2, <1>3, AppendIsConcat
  <2> QED
    BY <1>2, <1>3, <2>1, AppendProperties
<1>5. /\ rest' \in Seq(Written) /\ Len(rest') = Len(rest) - 1
      /\ \A i \in 1..Len(rest) - 1 : rest'[i] = source[n + 1 + i]
  <2>1. /\ rest' \in Seq(Written) /\ Len(rest') = Len(rest) - 1
        /\ \A i \in 1..Len(rest') : rest'[i] = rest[i + 1]
    BY <1>1, <1>2, HeadTailProperties
  <2>2. ASSUME NEW i \in 1..Len(rest) - 1 PROVE rest'[i] = source[n + 1 + i]
    <3>1. i + 1 \in 1..Len(rest) /\ n + (i + 1) = n + 1 + i
      BY <1>2
    <3>2. rest'[i] = rest[i + 1]
      BY <1>2, <2>1
    <3>3. rest[i + 1] = source[n + (i + 1)]
      BY <1>2, <3>1
    <3> QED
      BY <3>1, <3>2, <3>3
  <2> QED
    BY <2>1, <2>2
<1>6. \A i : (Replaces(i)' <=> Replaces(i)) /\ NewLine(i)' = NewLine(i)
  <2>1. Drdynvc' = Drdynvc /\ Required' = Required
    BY <1>1 DEF Drdynvc, Required
  <2>2. Replacements' = Replacements
    BY <1>1, <2>1 DEF Replacements
  <2>3. \A i : Replaces(i)' <=> Replaces(i)
    BY <1>1, <2>1 DEF Replaces
  <2>4. \A i : NewLine(i)' = NewLine(i)
    BY <1>1, <2>2, <2>3 DEF NewLine
  <2> QED
    BY <2>3, <2>4
<1>7. \A i \in 1..n + 1 : output'[i] = NewLine(i)'
  <2>1. \A i \in 1..n + 1 : i \in 1..n \/ i = n + 1
    BY <1>2
  <2> QED
    BY <1>2, <1>4, <1>6, <2>1 DEF l
<1>8. \A place \in seen' : \E i \in 1..n + 1 :
         Replaces(i)' /\ place = <<SectionOf(source, i), source[i].name>>
  <2>1. n + 1 \in 1..n + 1 /\ \A i \in 1..n : i \in 1..n + 1
    BY <1>2
  <2> QED
    BY <1>2, <1>6, <2>1
<1>9. Len(output') + Len(rest') = Len(source)
  <2>1. Len(output') = n + 1
    BY <1>4
  <2>2. Len(rest') = Len(rest) - 1
    BY <1>5
  <2>3. n \in Nat /\ Len(rest) \in Nat /\ n + Len(rest) = Len(source)
    BY <1>2
  <2> QED
    BY <2>1, <2>2, <2>3
<1> QED
  BY <1>1, <1>4, <1>5, <1>7, <1>8, <1>9 DEF Reading

LEMMA ReadingGoesOn ==
    ASSUME options \in Option, source \in Seq(Written), Reading,
           ReadHeader \/ ReplaceKey \/ KeepLine
    PROVE  Reading'
<1> DEFINE n == Len(output)
<1>1. rest # <<>>
  BY DEF ReadHeader, ReplaceKey, KeepLine
<1>2. /\ n \in Nat /\ n + 1 \in 1..Len(source)
      /\ rest[1] = source[n + 1] /\ section = SectionOf(source, n)
  <2>1. /\ rest \in Seq(Written) /\ n \in Nat /\ Len(source) \in Nat
        /\ Len(rest) \in Nat /\ Len(rest) # 0
        /\ n + Len(rest) = Len(source)
        /\ \A i \in 1..Len(rest) : rest[i] = source[n + i]
        /\ section = SectionOf(source, n)
    BY <1>1, EmptySeq DEF Reading
  <2> HIDE DEF n
  <2> QED
    BY <2>1
<1> HIDE DEF n
<1>3. SectionOf(source, n + 1) = IF rest[1].kind = "header" THEN rest[1].name ELSE section
  BY <1>2, SectionNext
<1>4. rest[1].kind # "header" =>
         /\ Place = <<SectionOf(source, n + 1), source[n + 1].name>>
         /\ Replaced <=> Replaces(n + 1)
  BY <1>2, <1>3 DEF Place, Replaced, Replaces
<1>5. CASE ReadHeader
  <2>1. ReadLine(<<rest[1]>>) /\ section' = rest[1].name /\ seen' = seen /\ rest[1].kind = "header"
    BY <1>5 DEF ReadHeader
  <2>2. NewLine(n + 1) = rest[1]
    BY <1>2, <2>1 DEF NewLine, Replaces
  <2> QED
    BY <1>1, <1>3, <2>1, <2>2, LineRead DEF n
<1>6. CASE ReplaceKey
  <2>1. /\ Replaced /\ ReadLine(<<Key(rest[1].name, Replacements[Place])>>)
        /\ seen' = seen \cup {Place} /\ section' = section /\ rest[1].kind = "key"
    BY <1>6 DEF ReplaceKey, Replaced
  <2>2. /\ Replaces(n + 1) /\ Place = <<SectionOf(source, n + 1), source[n + 1].name>>
    BY <1>4, <2>1
  <2>3. NewLine(n + 1) = Key(rest[1].name, Replacements[Place])
    BY <1>2, <2>2 DEF NewLine
  <2>4. section' = SectionOf(source, n + 1)
    BY <1>3, <2>1
  <2> QED
    BY <1>1, <2>1, <2>2, <2>3, <2>4, LineRead DEF n
<1>7. CASE KeepLine
  <2>1. /\ ~ Replaced /\ ReadLine(<<rest[1]>>)
        /\ seen' = seen /\ section' = section /\ rest[1].kind # "header"
    BY <1>7 DEF KeepLine
  <2>2. NewLine(n + 1) = rest[1]
    BY <1>2, <1>4, <2>1 DEF NewLine
  <2>3. section' = SectionOf(source, n + 1)
    BY <1>3, <2>1
  <2> QED
    BY <1>1, <2>1, <2>2, <2>3, LineRead DEF n
<1> QED
  BY <1>5, <1>6, <1>7

\* What is there once all lines are read and all places seen.
LEMMA AllRead ==
    ASSUME options \in Option, source \in Sources, Reading, rest = <<>>, seen = Required
    PROVE  Private(output) /\ ResizingIs(output, Installed)
<1>1. /\ source \in Seq(Written) /\ output \in Seq(Written) /\ Len(output) = Len(source)
      /\ \A i \in 1..Len(source) : output[i] = NewLine(i)
  <2>1. source \in Seq(Written)
    BY SourceIsWritten
  <2>2. Len(rest) = 0 /\ output \in Seq(Written) /\ Len(output) + Len(rest) = Len(source)
    BY DEF Reading
  <2>3. Len(output) = Len(source)
    BY <2>2
  <2> QED
    BY <2>1, <2>2, <2>3 DEF Reading
<1>2. \A i \in 1..Len(source) : output[i].kind = source[i].kind /\ output[i].name = source[i].name
  BY <1>1, NewLineIsLine
<1>3. \A i : SectionOf(output, i) = SectionOf(source, i)
  BY <1>1, <1>2, SameSections
<1>4. \A s, k : PlacesOf(output, s, k) = PlacesOf(source, s, k)
  <2>1. DOMAIN output = 1..Len(source) /\ DOMAIN source = 1..Len(source)
    BY <1>1
  <2> QED
    BY <1>2, <1>3, <2>1 DEF PlacesOf, IsKey
<1>5. ASSUME NEW s, NEW k, <<s, k>> \in Always
      PROVE  /\ Values(output, s, k) # {}
             /\ InOneCase(source) => Values(output, s, k) = {Replacements[<<s, k>>]}
  <2>1. PICK n \in PlacesOf(source, s, k) : source[n].lower
    <3>1. <<s, k>> \in seen
      BY <1>5, ReplacementsAre
    <3>2. PICK i \in 1..Len(source) :
              Replaces(i) /\ <<s, k>> = <<SectionOf(source, i), source[i].name>>
      BY <1>1, <3>1 DEF Reading
    <3>3. i \in PlacesOf(source, s, k) /\ source[i].lower
      BY <1>1, <3>2 DEF PlacesOf, IsKey, Replaces
    <3> QED
      BY <3>3
  <2>2. ASSUME InOneCase(source), NEW i \in PlacesOf(source, s, k)
        PROVE  output[i].value = Replacements[<<s, k>>]
    <3>1. \A j \in PlacesOf(source, s, k) :
             /\ j \in 1..Len(source) /\ j \in DOMAIN source
             /\ source[j].kind = "key" /\ source[j].name = k /\ SectionOf(source, j) = s
      BY <1>1 DEF PlacesOf, IsKey
    <3>2. source[i].lower
      <4>1. <<SectionOf(source, i), source[i].name>> \in Always
        BY <1>5, <3>1
      <4>2. source[i].lower = source[n].lower
        BY <2>2, <3>1, <4>1 DEF InOneCase
      <4> QED
        BY <2>1, <4>2
    <3>3. Replaces(i)
      BY <1>5, <3>1, <3>2, ReplacementsAre DEF Replaces
    <3>4. output[i] = Key(k, Replacements[<<s, k>>])
      BY <1>1, <3>1, <3>3 DEF NewLine
    <3> QED
      BY <3>4 DEF Key
  <2>3. Values(output, s, k) = {output[i].value : i \in PlacesOf(source, s, k)}
    BY <1>4, ValuesAre
  <2>4. Values(output, s, k) # {}
    BY <2>1, <2>3
  <2>5. ASSUME InOneCase(source) PROVE Values(output, s, k) = {Replacements[<<s, k>>]}
    BY <2>1, <2>2, <2>3, <2>5
  <2> QED
    BY <2>4, <2>5
<1>6. /\ Values(output, "Console", "chansrvport") # {}
      /\ InOneCase(source) =>
            /\ Values(output, "Globals", "port") = {"private"}
            /\ Values(output, "Console", "chansrvport") = {"private"}
            /\ Values(output, "Channels", "drdynvc") = {Drdynvc}
            /\ Values(output, "Console", "channel.drdynvc") = {Drdynvc}
  BY <1>5, ReplacementsAre DEF Always
<1>7. OneConsole(output) <=> OneConsole(source)
  <2>1. Headers(output) = Headers(source) /\ Headers(source) \subseteq 1..Len(source)
    <3>1. /\ Headers(source) \subseteq 1..Len(source)
          /\ \A i \in 1..Len(source) : i \in Headers(source) <=> source[i].kind = "header"
      BY <1>1, PlacesOfHeaders
    <3>2. /\ Headers(output) \subseteq 1..Len(source)
          /\ \A i \in 1..Len(source) : i \in Headers(output) <=> output[i].kind = "header"
      BY <1>1, PlacesOfHeaders
    <3>3. \A i : i \in Headers(output) <=> i \in Headers(source)
      BY <1>2, <3>1, <3>2
    <3> QED
      BY <3>1, <3>3
  <2> QED
    BY <1>2, <2>1 DEF OneConsole
<1>8. \A i \in 1..Len(source) : ~ Replaces(i) => output[i] = source[i]
  BY <1>1 DEF NewLine
<1>9. Untouched(output) = Untouched(source)
  <2> DEFINE S == {i \in DOMAIN source : ~ Edited(source, i)}
  <2>1. {i \in DOMAIN output : ~ Edited(output, i)} = S
    <3>1. DOMAIN output = 1..Len(source) /\ DOMAIN source = 1..Len(source)
      BY <1>1
    <3>2. \A i \in 1..Len(source) : Edited(output, i) <=> Edited(source, i)
      BY <1>2, <1>3 DEF Edited
    <3> QED
      BY <3>1, <3>2
  <2>2. S \subseteq 1..Len(source) /\ Len(source) \in Nat
    BY <1>1
  <2>3. \A i \in S : output[i] = source[i]
    <3>1. \A i : Replaces(i) => Edited(source, i)
      BY ReplacementsAre DEF Replaces, Edited
    <3> QED
      BY <1>8, <2>2, <3>1
  <2>4. Untouched(output) = Keep(output, S) /\ Untouched(source) = Keep(source, S)
    BY <2>1 DEF Untouched
  <2> HIDE DEF S
  <2>5. \A n \in 1..Cardinality(S) : Nth(S, n) \in S
    BY <2>2, NthPlace
  <2>6. Keep(output, S) = Keep(source, S)
    BY <2>3, <2>5 DEF Keep
  <2> QED
    BY <2>4, <2>6
<1>10. ResizingIs(output, Installed)
  <2> DEFINE P == PlacesOf(source, "Console", "enable_dynamic_resizing")
  <2>1. \A i \in P : output[i] = source[i]
    <3>1. \A i \in P : /\ i \in 1..Len(source) /\ source[i].name = "enable_dynamic_resizing"
                       /\ SectionOf(source, i) = "Console"
      BY <1>1 DEF PlacesOf, IsKey
    <3>2. \A i \in P : ~ Replaces(i)
      BY <3>1, ReplacementsAre DEF Replaces
    <3> QED
      BY <1>8, <3>1, <3>2
  <2>2. /\ Values(output, "Console", "enable_dynamic_resizing") = {output[i].value : i \in P}
        /\ Installed = {source[i].value : i \in P}
    BY <1>4, ValuesAre DEF Installed
  <2> HIDE DEF P
  <2>3. {output[i].value : i \in P} = {source[i].value : i \in P}
    BY <2>1
  <2> QED
    BY <2>2, <2>3 DEF ResizingIs
<1> QED
  BY <1>1, <1>6, <1>7, <1>9, <1>10 DEF Private
-----------------------------------------------------------------------------
(* The edits by position, each as a fact about a list of lines.             *)

\* Keys of [Console] dropped, all of them or some: what is found for all others
\* is what it was.
Without(lines, K) ==
    {i \in 1..Len(lines) : ~ (SectionOf(lines, i) = "Console" /\ \E k \in K : IsKey(lines[i], k))}

LEMMA KeysDropped ==
    ASSUME NEW L, NEW lines \in Seq(L), NEW K, {"Console"} \X K \subseteq EditedPlaces,
           NEW S \in SUBSET (1..Len(lines)), Without(lines, K) \subseteq S
    PROVE  LET kept == Keep(lines, S)
           IN  /\ kept \in Seq(L)
               /\ \A s, k : ~ (s = "Console" /\ k \in K) => Values(kept, s, k) = Values(lines, s, k)
               /\ S = Without(lines, K) => \A k \in K : Values(kept, "Console", k) = {}
               /\ OneConsole(kept) <=> OneConsole(lines)
               /\ Untouched(kept) = Untouched(lines)
<1>1. \A i \in 1..Len(lines) : i \notin S => /\ SectionOf(lines, i) = "Console"
                                             /\ \E k \in K : IsKey(lines[i], k)
  BY DEF Without
<1>2. Headers(lines) \subseteq S
  BY <1>1, PlacesOfHeaders DEF IsKey
<1>3. \A i \in 1..Len(lines) : i \in S \/ Edited(lines, i)
  <2>1. \A k \in K : <<"Console", k>> \in EditedPlaces
    OBVIOUS
  <2> QED
    BY <1>1, <2>1 DEF Edited, IsKey
<1>4. /\ Keep(lines, S) \in Seq(L)
      /\ \A s, k : Values(Keep(lines, S), s, k) =
                      {lines[i].value : i \in PlacesOf(lines, s, k) \cap S}
      /\ OneConsole(Keep(lines, S)) <=> OneConsole(lines)
      /\ Untouched(Keep(lines, S)) = Untouched(lines)
  BY <1>2, <1>3, Dropped
<1>5. \A s, k : \A i \in PlacesOf(lines, s, k) :
         /\ i \in 1..Len(lines) /\ SectionOf(lines, i) = s
         /\ lines[i].kind = "key" /\ lines[i].name = k
  BY DEF PlacesOf, IsKey
<1>6. ASSUME NEW s, NEW k, ~ (s = "Console" /\ k \in K)
      PROVE  Values(Keep(lines, S), s, k) = Values(lines, s, k)
  <2>1. PlacesOf(lines, s, k) \cap S = PlacesOf(lines, s, k)
    BY <1>1, <1>5, <1>6 DEF IsKey
  <2>2. Values(lines, s, k) = {lines[i].value : i \in PlacesOf(lines, s, k)}
    BY ValuesAre
  <2> QED
    BY <1>4, <2>1, <2>2
<1>7. ASSUME S = Without(lines, K), NEW k \in K
      PROVE  Values(Keep(lines, S), "Console", k) = {}
  <2>1. PlacesOf(lines, "Console", k) \cap S = {}
    BY <1>5, <1>7 DEF Without, IsKey
  <2> QED
    BY <1>4, <2>1
<1> QED
  BY <1>4, <1>6, <1>7

\* A private file has a [Console], and it begins and ends where the places say.
LEMMA PrivateConsole ==
    ASSUME NEW lines, Private(lines)
    PROVE  /\ ConsoleEnd(lines) \in 2..Len(lines) + 1
           /\ SectionOf(lines, ConsoleEnd(lines) - 1) = "Console"
           /\ \A i \in 1..Len(lines) : InConsole(lines, i) => SectionOf(lines, i) = "Console"
           /\ OneConsole(source) => \A i \in 1..Len(lines) : lines[i].kind # "header" =>
                 (InConsole(lines, i) <=> SectionOf(lines, i) = "Console")
<1>1. lines \in Seq(Written) /\ Len(lines) \in Nat /\ (OneConsole(lines) <=> OneConsole(source))
  BY DEF Private
<1>2. PICK i \in PlacesOf(lines, "Console", "chansrvport") : TRUE
  <2>1. Values(lines, "Console", "chansrvport") # {}
    BY DEF Private
  <2> QED
    BY <2>1, ValuesAre
<1>3. SectionOf(lines, i) = "Console"
  BY <1>2 DEF PlacesOf
<1>4. PICK h \in Headers(lines) : lines[h].name = "Console"
  BY <1>1, <1>3, ConsoleThere
<1>5. /\ ConsoleStart(lines) \in 1..Len(lines) /\ ConsoleEnd(lines) \in Nat
      /\ ConsoleStart(lines) < ConsoleEnd(lines) /\ ConsoleEnd(lines) <= Len(lines) + 1
      /\ \A j \in 1..Len(lines) :
            ConsoleStart(lines) <= j /\ j < ConsoleEnd(lines) => SectionOf(lines, j) = "Console"
      /\ \A j \in 1..Len(lines) : InConsole(lines, j) => SectionOf(lines, j) = "Console"
      /\ OneConsole(lines) => \A j \in 1..Len(lines) : j \notin Headers(lines) =>
            (InConsole(lines, j) <=> SectionOf(lines, j) = "Console")
  BY <1>1, <1>4, ConsoleBounds
<1>6. /\ ConsoleEnd(lines) \in 2..Len(lines) + 1
      /\ ConsoleEnd(lines) - 1 \in 1..Len(lines)
      /\ ConsoleStart(lines) <= ConsoleEnd(lines) - 1 /\ ConsoleEnd(lines) - 1 < ConsoleEnd(lines)
  BY <1>1, <1>5
<1> QED
  BY <1>1, <1>5, <1>6, PlacesOfHeaders

\* disable_gfx leaves [Console], the first one.
SwitchKept(lines) ==
    {i \in DOMAIN lines : ~ (InConsole(lines, i) /\ IsKey(lines[i], "disable_gfx"))}

LEMMA SwitchPlaces ==
    ASSUME NEW lines, Private(lines)
    PROVE  /\ SwitchKept(lines) \in SUBSET (1..Len(lines))
           /\ Without(lines, {"disable_gfx"}) \subseteq SwitchKept(lines)
           /\ OneConsole(source) => SwitchKept(lines) = Without(lines, {"disable_gfx"})
<1>1. DOMAIN lines = 1..Len(lines)
  BY DEF Private
<1>2. \A i \in 1..Len(lines) : InConsole(lines, i) => SectionOf(lines, i) = "Console"
  BY PrivateConsole
<1>3. Without(lines, {"disable_gfx"}) \subseteq SwitchKept(lines)
  BY <1>1, <1>2 DEF Without, SwitchKept
<1>4. ASSUME OneConsole(source)
      PROVE  SwitchKept(lines) = Without(lines, {"disable_gfx"})
  <2>1. \A i \in 1..Len(lines) : lines[i].kind # "header" =>
           (InConsole(lines, i) <=> SectionOf(lines, i) = "Console")
    BY <1>4, PrivateConsole
  <2>2. \A i \in 1..Len(lines) :
           (InConsole(lines, i) /\ IsKey(lines[i], "disable_gfx")) <=>
           (SectionOf(lines, i) = "Console" /\ \E k \in {"disable_gfx"} : IsKey(lines[i], k))
    BY <2>1 DEF IsKey
  <2> QED
    BY <1>1, <2>2 DEF Without, SwitchKept
<1>5. SwitchKept(lines) \in SUBSET (1..Len(lines))
  BY <1>1 DEF SwitchKept
<1> QED
  BY <1>3, <1>4, <1>5

LEMMA SwitchDropped ==
    ASSUME NEW lines, Private(lines), ResizingIs(lines, Installed)
    PROVE  LET kept == Keep(lines, SwitchKept(lines))
           IN  /\ Private(kept) /\ ResizingIs(kept, Installed)
               /\ OneConsole(source) => Values(kept, "Console", "disable_gfx") = {}
<1> DEFINE K == {"disable_gfx"}
           S == SwitchKept(lines)
           kept == Keep(lines, S)
<1>1. lines \in Seq(Written) /\ (OneConsole(lines) <=> OneConsole(source))
  BY DEF Private
<1>2. {"Console"} \X K \subseteq EditedPlaces
  BY DEF EditedPlaces
<1>3. /\ "port" \notin K /\ "chansrvport" \notin K /\ "drdynvc" \notin K
      /\ "channel.drdynvc" \notin K /\ "enable_dynamic_resizing" \notin K
      /\ "disable_gfx" \in K
  OBVIOUS
<1>4. /\ S \in SUBSET (1..Len(lines)) /\ Without(lines, K) \subseteq S
      /\ OneConsole(source) => S = Without(lines, K)
  BY SwitchPlaces
<1>5. /\ kept \in Seq(Written)
      /\ \A s, k : ~ (s = "Console" /\ k \in K) => Values(kept, s, k) = Values(lines, s, k)
      /\ S = Without(lines, K) => \A k \in K : Values(kept, "Console", k) = {}
      /\ OneConsole(kept) <=> OneConsole(lines)
      /\ Untouched(kept) = Untouched(lines)
  <2> HIDE DEF K, S
  <2> QED
    BY <1>1, <1>2, <1>4, KeysDropped
<1>6. /\ Private(kept) /\ ResizingIs(kept, Installed)
      /\ OneConsole(source) => Values(kept, "Console", "disable_gfx") = {}
  <2> HIDE DEF K, S, kept
  <2> QED
    BY <1>1, <1>3, <1>4, <1>5 DEF Private, ResizingIs
<1> QED
  BY <1>6

\* enable_dynamic_resizing comes to [Console].
LEMMA SwitchAdded ==
    ASSUME NEW lines, Private(lines),
           NEW ins, ins = InsertAt(lines, ConsoleEnd(lines),
                                   Key("enable_dynamic_resizing", "false"))
    PROVE  /\ Private(ins)
           /\ ResizingIs(lines, {}) => ResizingIs(ins, {"false"})
           /\ GfxSwitchOff(lines) => GfxSwitchOff(ins)
<1> DEFINE x == Key("enable_dynamic_resizing", "false")
           p == ConsoleEnd(lines)
<1>1. lines \in Seq(Written) /\ Len(lines) \in Nat
  BY DEF Private
<1>2. /\ x \in Written /\ x.kind = "key" /\ x.name = "enable_dynamic_resizing"
      /\ x.value = "false"
  BY DEF Key, Written, Words
<1>3. /\ p \in 1..Len(lines) + 1 /\ 1 < p /\ SectionOf(lines, p - 1) = "Console"
  <2>1. p \in 2..Len(lines) + 1 /\ SectionOf(lines, p - 1) = "Console"
    BY PrivateConsole
  <2> HIDE DEF p
  <2> QED
    BY <1>1, <2>1
<1>4. <<"Console", x.name>> \in EditedPlaces
  BY <1>2 DEF EditedPlaces
<1> HIDE DEF x, p
<1>5. /\ ins \in Seq(Written)
      /\ \A t, k : Values(ins, t, k) =
            Values(lines, t, k) \cup IF t = "Console" /\ IsKey(x, k) THEN {x.value} ELSE {}
      /\ OneConsole(ins) <=> OneConsole(lines)
      /\ Untouched(ins) = Untouched(lines)
  <2>1. ins = InsertAt(lines, p, x)
    BY DEF p, x
  <2>2. x.kind # "header"
    BY <1>2
  <2> QED
    BY <1>1, <1>2, <1>3, <1>4, <2>1, <2>2, Added
<1>6. /\ \A k : IsKey(x, k) <=> k = "enable_dynamic_resizing"
      /\ x.value = "false"
  BY <1>2 DEF IsKey
<1>7. ASSUME NEW t, NEW k, k # "enable_dynamic_resizing"
      PROVE  Values(ins, t, k) = Values(lines, t, k)
  <2>1. ~ IsKey(x, k)
    BY <1>6, <1>7
  <2>2. Values(ins, t, k) =
           Values(lines, t, k) \cup IF t = "Console" /\ IsKey(x, k) THEN {x.value} ELSE {}
    BY <1>5
  <2>3. Values(ins, t, k) = Values(lines, t, k) \cup {}
    BY <2>1, <2>2
  <2> QED
    BY <2>3
<1>8. ASSUME ResizingIs(lines, {})
      PROVE  Values(ins, "Console", "enable_dynamic_resizing") = {"false"}
  <2>1. Values(lines, "Console", "enable_dynamic_resizing") = {}
    BY <1>8 DEF ResizingIs
  <2>2. IsKey(x, "enable_dynamic_resizing") /\ x.value = "false"
    BY <1>6
  <2>3. Values(ins, "Console", "enable_dynamic_resizing")
           = Values(lines, "Console", "enable_dynamic_resizing") \cup {x.value}
    BY <1>5, <2>2
  <2> QED
    BY <2>1, <2>2, <2>3
<1>9. /\ Values(ins, "Globals", "port") = Values(lines, "Globals", "port")
      /\ Values(ins, "Console", "chansrvport") = Values(lines, "Console", "chansrvport")
      /\ Values(ins, "Channels", "drdynvc") = Values(lines, "Channels", "drdynvc")
      /\ Values(ins, "Console", "channel.drdynvc") = Values(lines, "Console", "channel.drdynvc")
      /\ Values(ins, "Console", "disable_gfx") = Values(lines, "Console", "disable_gfx")
  BY <1>7
<1>10. Private(ins)
  BY <1>5, <1>9 DEF Private
<1> QED
  BY <1>8, <1>9, <1>10 DEF ResizingIs, GfxSwitchOff

\* The channel server's keys leave [Console].
LEMMA ChansrvPlaces ==
    ASSUME NEW lines, Private(lines)
    PROVE  {i \in DOMAIN lines :
               ~ (SectionOf(lines, i) = "Console" /\ \E k \in ChansrvKeys : IsKey(lines[i], k))}
              = Without(lines, ChansrvKeys)
<1>1. DOMAIN lines = 1..Len(lines)
  BY DEF Private
<1> QED
  BY <1>1 DEF Without

LEMMA ChansrvDropped ==
    ASSUME NEW lines, Private(lines)
    PROVE  LET kept == Keep(lines, Without(lines, ChansrvKeys))
           IN  /\ InOneCase(source) =>
                     /\ Values(kept, "Globals", "port") = {"private"}
                     /\ Values(kept, "Channels", "drdynvc") = {Drdynvc}
               /\ Values(kept, "Console", "chansrvport") = {}
               /\ Values(kept, "Console", "channel.drdynvc") = {}
               /\ \A k \in {"disable_gfx", "enable_dynamic_resizing"} :
                     Values(kept, "Console", k) = Values(lines, "Console", k)
               /\ Untouched(kept) = Untouched(source)
<1> DEFINE kept == Keep(lines, Without(lines, ChansrvKeys))
<1>1. lines \in Seq(Written)
  BY DEF Private
<1>2. {"Console"} \X ChansrvKeys \subseteq EditedPlaces
  BY DEF EditedPlaces
<1>3. /\ \A s, k : ~ (s = "Console" /\ k \in ChansrvKeys) => Values(kept, s, k) = Values(lines, s, k)
      /\ \A k \in ChansrvKeys : Values(kept, "Console", k) = {}
      /\ Untouched(kept) = Untouched(lines)
  <2>1. Without(lines, ChansrvKeys) \in SUBSET (1..Len(lines))
    BY DEF Without
  <2> QED
    BY <1>1, <1>2, <2>1, KeysDropped
<1>4. /\ "chansrvport" \in ChansrvKeys /\ "channel.drdynvc" \in ChansrvKeys
      /\ "disable_gfx" \notin ChansrvKeys /\ "enable_dynamic_resizing" \notin ChansrvKeys
  BY DEF ChansrvKeys
<1> HIDE DEF kept
<1>5. /\ InOneCase(source) =>
            /\ Values(kept, "Globals", "port") = {"private"}
            /\ Values(kept, "Channels", "drdynvc") = {Drdynvc}
      /\ Values(kept, "Console", "chansrvport") = {}
      /\ Values(kept, "Console", "channel.drdynvc") = {}
      /\ \A k \in {"disable_gfx", "enable_dynamic_resizing"} :
            Values(kept, "Console", k) = Values(lines, "Console", k)
      /\ Untouched(kept) = Untouched(source)
  BY <1>3, <1>4 DEF Private
<1> QED
  BY <1>5 DEF kept
-----------------------------------------------------------------------------
(* The inductive invariant.                                                 *)

\* What PrivateAndAsAsked asks of a file with one [Console].
Asked(lines) ==
    /\ options.gfx # "as is" => Values(lines, "Console", "disable_gfx") = {}
    /\ LET installed == Values(source, "Console", "enable_dynamic_resizing")
           found == Values(lines, "Console", "enable_dynamic_resizing")
       IN  IF options.resizing = "as is" THEN found = installed
           ELSE installed = {} => found = {"false"}

\* What is wanted does not change, so what a list of lines is does not change.
LEMMA WantedStays ==
    ASSUME NEW lines, options' = options, source' = source
    PROVE  /\ Private(lines)' <=> Private(lines)
           /\ GfxSwitchOff(lines)' <=> GfxSwitchOff(lines)
           /\ ResizingSettled(lines)' <=> ResizingSettled(lines)
           /\ Installed' = Installed /\ ResizingWanted' = ResizingWanted
<1>1. Drdynvc' = Drdynvc
  BY DEF Drdynvc
<1>2. /\ Untouched(source)' = Untouched(source)
      /\ OneConsole(source)' <=> OneConsole(source)
      /\ InOneCase(source)' <=> InOneCase(source)
  OBVIOUS
<1>3. Installed' = Installed
  BY DEF Installed
<1>4. ResizingWanted' = ResizingWanted
  BY <1>3 DEF ResizingWanted
<1> QED
  BY <1>1, <1>2, <1>3, <1>4 DEF Private, GfxSwitchOff, ResizingSettled, ResizingIs

\* The edit finds the key just when xrdp would.
LEMMA ResizingThere ==
    ASSUME Private(output), ResizingIs(output, Installed), OneConsole(source)
    PROVE  ResizingSet <=> Installed # {}
<1>1. DOMAIN output = 1..Len(output)
  BY DEF Private
<1>2. \A i \in 1..Len(output) : output[i].kind # "header" =>
         (InConsole(output, i) <=> SectionOf(output, i) = "Console")
  BY PrivateConsole
<1>3. \A i \in 1..Len(output) :
         InConsole(output, i) /\ IsKey(output[i], "enable_dynamic_resizing") <=>
         i \in PlacesOf(output, "Console", "enable_dynamic_resizing")
  BY <1>1, <1>2 DEF PlacesOf, IsKey
<1>4. PlacesOf(output, "Console", "enable_dynamic_resizing") \subseteq 1..Len(output)
  BY <1>1 DEF PlacesOf
<1>5. ResizingSet <=> PlacesOf(output, "Console", "enable_dynamic_resizing") # {}
  BY <1>1, <1>3, <1>4 DEF ResizingSet
<1>6. Installed = {output[i].value : i \in PlacesOf(output, "Console", "enable_dynamic_resizing")}
  BY ValuesAre DEF ResizingIs
<1> QED
  BY <1>5, <1>6

LEMMA Initially == Init => ConfigInv
<1> SUFFICES ASSUME Init PROVE ConfigInv
  OBVIOUS
<1>1. /\ options \in Option /\ source \in Sources /\ pc = "lines" /\ rest = source
      /\ section = "" /\ output = <<>> /\ seen = {}
  BY DEF Init
<1>2. source \in Seq(Written)
  BY <1>1, SourceIsWritten
<1>3. /\ output \in Seq(Written) /\ Len(output) = 0
      /\ \A i \in 1..Len(output) : FALSE
  <2>1. output \in Seq(Written)
    BY <1>1, EmptySeq
  <2>2. Len(output) = 0
    BY <1>1, <2>1, EmptySeq
  <2> QED
    BY <2>1, <2>2
<1>4. section = SectionOf(source, 0)
  <2>1. \A j \in Headers(source) : ~ (j <= 0)
    BY <1>2, PlacesOfHeaders
  <2> QED
    BY <1>1, <2>1, NoSection
<1>5. Reading
  <2>1. /\ Len(output) + Len(rest) = Len(source)
        /\ \A i \in 1..Len(rest) : rest[i] = source[Len(output) + i]
    <3>1. /\ 0 + Len(source) = Len(source)
          /\ \A i \in 1..Len(source) : 0 + i = i
      BY <1>2
    <3>2. Len(output) = 0 /\ rest = source
      BY <1>1, <1>3
    <3> QED
      BY <3>1, <3>2
  <2> QED
    BY <1>1, <1>2, <1>3, <1>4, <2>1 DEF Reading
<1> QED
  BY <1>1, <1>5 DEF ConfigInv, PrivateAndAsAsked, OthersKept

LEMMA ConfigStays == ConfigInv /\ [Next]_vars => ConfigInv'
<1> SUFFICES ASSUME ConfigInv, [Next]_vars PROVE ConfigInv'
  OBVIOUS
<1>1. options \in Option /\ source \in Sources /\ source \in Seq(Written)
  BY SourceIsWritten DEF ConfigInv
<1>2. CASE UNCHANGED vars
  <2>1. Reading' <=> Reading
    <3>1. Drdynvc' = Drdynvc /\ Required' = Required
      BY <1>2 DEF vars, Drdynvc, Required
    <3>2. Replacements' = Replacements
      BY <1>2, <3>1 DEF vars, Replacements
    <3>3. \A i : Replaces(i)' <=> Replaces(i)
      BY <1>2, <3>1 DEF vars, Replaces
    <3>4. \A i : NewLine(i)' = NewLine(i)
      BY <1>2, <3>2, <3>3 DEF vars, NewLine
    <3> QED
      BY <1>2, <3>3, <3>4 DEF vars, Reading
  <2>2. /\ options' = options /\ source' = source /\ output' = output /\ target' = target
        /\ pc' = pc
    BY <1>2 DEF vars
  <2>3. /\ Private(output)' <=> Private(output)
        /\ Private(target)' <=> Private(target)
        /\ GfxSwitchOff(output)' <=> GfxSwitchOff(output)
        /\ GfxSwitchOff(target)' <=> GfxSwitchOff(target)
        /\ ResizingSettled(target)' <=> ResizingSettled(target)
        /\ Installed' = Installed /\ ResizingWanted' = ResizingWanted
    BY <2>2, WantedStays
  <2>4. ResizingIs(output, Installed)' <=> ResizingIs(output, Installed)
    BY <2>2, <2>3 DEF ResizingIs
  <2>5. (PrivateAndAsAsked' <=> PrivateAndAsAsked) /\ (OthersKept' <=> OthersKept)
    BY <2>2 DEF PrivateAndAsAsked, OthersKept
  <2> QED
    BY <2>1, <2>2, <2>3, <2>4, <2>5 DEF ConfigInv
<1>3. CASE ReadHeader \/ ReplaceKey \/ KeepLine
  <2>1. /\ pc = "lines" /\ pc' = "lines" /\ options' = options /\ source' = source
    BY <1>3 DEF ReadHeader, ReplaceKey, KeepLine, ReadLine
  <2>2. Reading'
    BY <1>1, <1>3, <2>1, ReadingGoesOn DEF ConfigInv
  <2> QED
    BY <1>1, <2>1, <2>2 DEF ConfigInv, PrivateAndAsAsked, OthersKept
<1>4. CASE Lacks
  <2>1. pc' = "refused" /\ options' = options /\ source' = source
    BY <1>4 DEF Lacks
  <2> QED
    BY <1>1, <2>1 DEF ConfigInv, PrivateAndAsAsked, OthersKept
<1>5. CASE AllSeen
  <2>1. /\ pc = "lines" /\ pc' = "gfx" /\ rest = <<>> /\ seen = Required
        /\ options' = options /\ source' = source /\ output' = output
    BY <1>5 DEF AllSeen
  <2>2. Private(output) /\ ResizingIs(output, Installed)
    BY <1>1, <2>1, AllRead DEF ConfigInv
  <2>3. Private(output)' /\ ResizingIs(output, Installed)'
    BY <2>1, <2>2, WantedStays DEF ResizingIs
  <2> QED
    BY <1>1, <2>1, <2>3 DEF ConfigInv, PrivateAndAsAsked, OthersKept
<1>6. CASE DropGfxSwitch
  <2>1. /\ pc = "gfx" /\ pc' = "resizing" /\ options' = options /\ source' = source
    BY <1>6 DEF DropGfxSwitch
  <2>2. Private(output) /\ ResizingIs(output, Installed)
    BY <2>1 DEF ConfigInv
  <2>3. output' = IF options.gfx = "as is" THEN output ELSE Keep(output, SwitchKept(output))
    BY <1>6 DEF DropGfxSwitch, SwitchKept
  <2> DEFINE new == output'
  <2>4. Private(new) /\ ResizingIs(new, Installed) /\ GfxSwitchOff(new)
    <3>1. CASE options.gfx = "as is"
      BY <2>2, <2>3, <3>1 DEF GfxSwitchOff
    <3>2. CASE options.gfx # "as is"
      BY <2>2, <2>3, <3>2, SwitchDropped DEF GfxSwitchOff
    <3> QED
      BY <3>1, <3>2
  <2>5. Private(output)' /\ ResizingIs(output, Installed)' /\ GfxSwitchOff(output)'
    BY <2>1, <2>4, WantedStays DEF ResizingIs
  <2> QED
    BY <1>1, <2>1, <2>5 DEF ConfigInv, PrivateAndAsAsked, OthersKept
<1>7. CASE DisableResizing
  <2>1. /\ pc = "resizing" /\ pc' = "written" /\ options' = options /\ source' = source
        /\ target' = IF options.resizing = "as is" \/ ResizingSet THEN output
                     ELSE InsertAt(output, ConsoleEnd(output),
                                   Key("enable_dynamic_resizing", "false"))
    BY <1>7 DEF DisableResizing
  <2>2. Private(output) /\ ResizingIs(output, Installed) /\ GfxSwitchOff(output)
    BY <2>1 DEF ConfigInv
  <2>3. OneConsole(source) => (ResizingSet <=> Installed # {})
    BY <2>2, ResizingThere
  <2>4. options.resizing = "as is" \/ options.resizing = "disable"
    BY <1>1 DEF Option
  <2> DEFINE new == target'
  <2>5. Private(new) /\ ResizingSettled(new) /\ GfxSwitchOff(new)
    <3>1. CASE options.resizing = "as is" \/ ResizingSet
      <4>1. OneConsole(source) => ResizingWanted = Installed
        BY <2>3, <2>4, <3>1 DEF ResizingWanted
      <4> QED
        BY <2>1, <2>2, <3>1, <4>1 DEF ResizingSettled
    <3>2. CASE ~ (options.resizing = "as is" \/ ResizingSet)
      <4>1. OneConsole(source) => Installed = {} /\ ResizingWanted = {"false"}
        BY <2>3, <2>4, <3>2 DEF ResizingWanted
      <4>2. new = InsertAt(output, ConsoleEnd(output), Key("enable_dynamic_resizing", "false"))
        BY <2>1, <3>2
      <4> HIDE DEF new
      <4>3. /\ Private(new) /\ (GfxSwitchOff(output) => GfxSwitchOff(new))
            /\ ResizingIs(output, {}) => ResizingIs(new, {"false"})
        BY <2>2, <4>2, SwitchAdded
      <4> QED
        BY <2>2, <4>1, <4>3 DEF ResizingSettled
    <3> QED
      BY <3>1, <3>2
  <2>6. Private(target)' /\ ResizingSettled(target)' /\ GfxSwitchOff(target)'
    BY <2>1, <2>5, WantedStays
  <2> QED
    BY <1>1, <2>1, <2>6 DEF ConfigInv, PrivateAndAsAsked, OthersKept
<1>8. CASE RemoveChansrv
  <2>1. /\ pc = "written" /\ pc' = "started" /\ options' = options /\ source' = source
        /\ ~ options.chansrv
    BY <1>8 DEF RemoveChansrv
  <2>2. Private(target) /\ ResizingSettled(target) /\ GfxSwitchOff(target)
    BY <2>1 DEF ConfigInv
  <2>3. target' = Keep(target, Without(target, ChansrvKeys))
    BY <1>8, <2>2, ChansrvPlaces DEF RemoveChansrv
  <2> DEFINE new == target'
  <2>4. /\ InOneCase(source) =>
              /\ Values(new, "Globals", "port") = {"private"}
              /\ Values(new, "Channels", "drdynvc") = {Drdynvc}
        /\ Values(new, "Console", "chansrvport") = {}
        /\ Values(new, "Console", "channel.drdynvc") = {}
        /\ Values(new, "Console", "disable_gfx") = Values(target, "Console", "disable_gfx")
        /\ Values(new, "Console", "enable_dynamic_resizing")
              = Values(target, "Console", "enable_dynamic_resizing")
        /\ Untouched(new) = Untouched(source)
    BY <2>2, <2>3, ChansrvDropped
  <2>5. PrivateAndAsAsked'
    <3>1. InOneCase(source) => GfxChannel(new) = {Drdynvc}
      BY <2>4 DEF GfxChannel
    <3>2. OneConsole(source) => Asked(new)
      BY <1>1, <2>2, <2>4
      DEF Asked, GfxSwitchOff, ResizingSettled, ResizingIs, ResizingWanted, Installed, Option
    <3> QED
      BY <2>1, <2>4, <3>1, <3>2 DEF PrivateAndAsAsked, Asked, Drdynvc
  <2>6. OthersKept'
    BY <2>1, <2>4 DEF OthersKept
  <2> QED
    BY <1>1, <2>1, <2>5, <2>6 DEF ConfigInv
<1>9. CASE KeepChansrv
  <2>1. /\ pc = "written" /\ pc' = "started" /\ options' = options /\ source' = source
        /\ options.chansrv /\ target' = target
    BY <1>9 DEF KeepChansrv
  <2>2. Private(target) /\ ResizingSettled(target) /\ GfxSwitchOff(target)
    BY <2>1 DEF ConfigInv
  <2>3. PrivateAndAsAsked'
    <3>1. InOneCase(source) => GfxChannel(target) = {Drdynvc}
      BY <2>2 DEF Private, GfxChannel
    <3>2. OneConsole(source) => Asked(target)
      BY <1>1, <2>2
      DEF Asked, GfxSwitchOff, ResizingSettled, ResizingIs, ResizingWanted, Installed, Option
    <3> QED
      BY <2>1, <2>2, <3>1, <3>2 DEF PrivateAndAsAsked, Asked, Private, Drdynvc
  <2>4. OthersKept'
    BY <2>1, <2>2 DEF OthersKept, Private
  <2> QED
    BY <1>1, <2>1, <2>3, <2>4 DEF ConfigInv
<1> QED
  BY <1>2, <1>3, <1>4, <1>5, <1>6, <1>7, <1>8, <1>9 DEF Next

\* The xrdp that is started has endpoints of its own and the channel for GFX open
\* or shut as asked for, for every installed file with the keys of the table in
\* one case; and the switch against GFX gone, and resizing as the property has it,
\* for every installed file with one [Console].
THEOREM StartedAsAsked == Spec => []PrivateAndAsAsked
<1>1. ConfigInv => PrivateAndAsAsked
  BY DEF ConfigInv
<1> QED
  BY Initially, ConfigStays, <1>1, PTL DEF Spec

\* The lines no edit is about are in the private file as they were, in their order.
THEOREM OtherLinesAreKept == Spec => []OthersKept
<1>1. ConfigInv => OthersKept
  BY DEF ConfigInv
<1> QED
  BY Initially, ConfigStays, <1>1, PTL DEF Spec
=============================================================================
