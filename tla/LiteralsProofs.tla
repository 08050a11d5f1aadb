---------------------------- MODULE LiteralsProofs ----------------------------
(***************************************************************************)
(* What TLAPS proves about Literals, for every text, every literal and     *)
(* every width of the integers.                                            *)
(***************************************************************************)
EXTENDS Literals, SequenceTheorems, WellFoundedInduction, TLAPS

-----------------------------------------------------------------------------
(* truncate_str.                                                           *)

\* No boundary between max_len and the end of the cut has been passed.
Shrinks ==
    /\ input.kind = "text" => input.of \in Texts
    /\ (input.kind = "text" /\ result = "none") =>
          LET t == input.of IN
          /\ at \in 0..t.max_len
          /\ \A b \in t.boundaries : b <= t.max_len => b <= at

LEMMA TextBounds ==
    ASSUME NEW t \in Texts
    PROVE  /\ t.max_len \in Nat /\ t.length \in Nat /\ t.boundaries \subseteq 0..t.length
           /\ 0 \in t.boundaries /\ t.length \in t.boundaries
  BY LiteralsAssumption DEF Text

LEMMA ShrinksInit == Init => Shrinks
  <1> SUFFICES ASSUME Init, input.kind = "text" PROVE Shrinks
    BY DEF Shrinks
  <1>1. input.of \in Texts /\ at = input.of.max_len /\ input.of.max_len \in Nat
    BY TextBounds DEF Init
  <1> QED
    BY <1>1, TextBounds DEF Shrinks

LEMMA ShrinksStep ==
    ASSUME Shrinks, [Next]_vars
    PROVE  Shrinks'
  <1>1. CASE StepBack
    <2> DEFINE t == input.of
    <2>1. t \in Texts /\ at \in 0..t.max_len /\ \A b \in t.boundaries : b <= t.max_len => b <= at
      BY <1>1 DEF StepBack, AtText, Shrinks
    <2>2. t.max_len \in Nat /\ t.boundaries \subseteq Nat
      BY <2>1, TextBounds
    <2>3. at' = at - 1 /\ at > 0 /\ at \notin t.boundaries /\ input' = input
      BY <1>1 DEF StepBack
    <2>4. at' \in 0..t.max_len /\ \A b \in t.boundaries : b <= t.max_len => b <= at'
      BY <2>1, <2>2, <2>3
    <2> QED
      BY <2>1, <2>3, <2>4 DEF Shrinks
  <1>2. CASE ~ StepBack
    BY <1>2
    DEF Next, vars, Shrinks, Expand, Copy, Expanded, AtTemplate, Compare, Keep, Cut, AtText, Ended
  <1> QED
    BY <1>1, <1>2

LEMMA CutStep ==
    ASSUME Shrinks, CutIsWhole, [Next]_vars
    PROVE  CutIsWhole'
  <1> DEFINE t == input.of
  <1>1. CASE Keep
    <2>1. t \in Texts /\ at' = t.length /\ t.length <= t.max_len /\ input' = input
      BY <1>1 DEF Keep, AtText, Shrinks
    <2> QED
      BY <2>1, TextBounds DEF CutIsWhole
  <1>2. CASE Cut
    <2>1. /\ t \in Texts /\ at \in 0..t.max_len
          /\ \A b \in t.boundaries : b <= t.max_len => b <= at
      BY <1>2 DEF Cut, AtText, Shrinks
    <2>2. at \in t.boundaries /\ at <= t.max_len
      BY <1>2, <2>1, TextBounds DEF Cut
    <2> QED
      BY <1>2, <2>1, <2>2 DEF Cut, CutIsWhole
  <1>3. CASE ~ Keep /\ ~ Cut
    BY <1>3
    DEF Next, vars, CutIsWhole, Expand, Copy, Expanded, AtTemplate, Compare, StepBack, AtText, Ended
  <1> QED
    BY <1>1, <1>2, <1>3

\* A text of any length, with characters of any width, is cut behind the last
\* character that fits.
THEOREM CutsAreWhole == Spec => []CutIsWhole
  <1>1. Init => CutIsWhole
    BY DEF Init, CutIsWhole
  <1> QED
    BY <1>1, ShrinksInit, ShrinksStep, CutStep, PTL DEF Spec

-----------------------------------------------------------------------------
(* parse_duration: the unit that a literal ends with.                      *)

LEMMA ReverseEntries ==
    ASSUME NEW s \in Seq(Characters)
    PROVE  /\ Reverse(s) \in Seq(Characters) /\ Len(Reverse(s)) = Len(s)
           /\ \A i \in 1..Len(s) : Reverse(s)[i] = s[Len(s) - i + 1]
  BY DEF Reverse

LEMMA SuffixEnds ==
    ASSUME NEW u \in Seq(Characters), NEW l \in Seq(Characters), Len(u) <= Len(l)
    PROVE  IsSuffix(u, l) <=> \A i \in 1..Len(u) : u[i] = l[Len(l) - Len(u) + i]
  <1> DEFINE v == Reverse(u)
             w == Reverse(l)
             n == Len(u)
  <1>1. /\ v \in Seq(Characters) /\ Len(v) = n /\ \A i \in 1..n : v[i] = u[n - i + 1]
        /\ w \in Seq(Characters) /\ Len(w) = Len(l) /\ \A i \in 1..Len(l) : w[i] = l[Len(l) - i + 1]
    BY ReverseEntries
  <1>2. IsSuffix(u, l) <=> SubSeq(v, 1, n) = SubSeq(w, 1, n)
    BY <1>1 DEF IsSuffix, IsPrefix
  <1> HIDE DEF v, w
  <1>3. SubSeq(v, 1, n) = SubSeq(w, 1, n) <=> \A i \in 1..n : v[i] = w[i]
    <2>1. SubSeq(v, 1, n) = [i \in 1..n |-> v[i]] /\ SubSeq(w, 1, n) = [i \in 1..n |-> w[i]]
      BY <1>1
    <2> QED
      BY <2>1
  <1>4. (\A i \in 1..n : v[i] = w[i]) <=> \A i \in 1..n : u[n - i + 1] = l[Len(l) - i + 1]
    <2>1. n \in Nat /\ Len(l) \in Nat /\ n <= Len(l)
      OBVIOUS
    <2> HIDE DEF n
    <2>2. \A i \in 1..n : i \in 1..Len(l)
      BY <2>1
    <2> QED
      BY <1>1, <2>2
  <1>5. (\A i \in 1..n : u[n - i + 1] = l[Len(l) - i + 1])
            <=> \A i \in 1..n : u[i] = l[Len(l) - n + i]
    <2>1. ASSUME \A i \in 1..n : u[n - i + 1] = l[Len(l) - i + 1], NEW i \in 1..n
          PROVE  u[i] = l[Len(l) - n + i]
      <3>1. n - i + 1 \in 1..n /\ n - (n - i + 1) + 1 = i
            /\ Len(l) - (n - i + 1) + 1 = Len(l) - n + i
        OBVIOUS
      <3> QED
        BY <2>1, <3>1
    <2>2. ASSUME \A i \in 1..n : u[i] = l[Len(l) - n + i], NEW i \in 1..n
          PROVE  u[n - i + 1] = l[Len(l) - i + 1]
      <3>1. n - i + 1 \in 1..n /\ Len(l) - n + (n - i + 1) = Len(l) - i + 1
        OBVIOUS
      <3> QED
        BY <2>2, <3>1
    <2> QED
      BY <2>1, <2>2
  <1> QED
    BY <1>2, <1>3, <1>4, <1>5

UnitSuffixes == Units \cup {<<"m", "s">>}

LEMMA SuffixType ==
    ASSUME NEW u \in UnitSuffixes
    PROVE  u \in Seq(Characters) /\ u # << >> /\ Len(u) \in {1, 2}
  <1>1. CASE u = <<"m", "s">>
    BY <1>1 DEF Characters
  <1>2. CASE u \in Units
    <2>1. PICK x \in Characters : u = <<x>>
      BY <1>2 DEF Units, Characters
    <2> QED
      BY <2>1
  <1> QED
    BY <1>1, <1>2 DEF UnitSuffixes

\* The first entry of the order that fits.
LEMMA UnitFirst ==
    ASSUME NEW l \in Seq(Characters)
    PROVE  \/ /\ Unit(l) = << >>
              /\ \A k \in 1..5 : ~ IsSuffix(UnitOrder[k], l)
           \/ \E k \in 1..5 : /\ Unit(l) = UnitOrder[k] /\ IsSuffix(UnitOrder[k], l)
                              /\ \A j \in 1..5 : IsSuffix(UnitOrder[j], l) => k <= j
  <1> DEFINE fits == {k \in DOMAIN UnitOrder : IsSuffix(UnitOrder[k], l)}
  <1>1. DOMAIN UnitOrder = 1..5
    BY DEF UnitOrder
  <1>2. CASE fits = {}
    BY <1>1, <1>2 DEF Unit
  <1>3. CASE fits # {}
    <2>1. \E k \in fits : \A j \in fits : k <= j
      <3>1. fits \subseteq {1, 2, 3, 4, 5}
        BY <1>1
      <3> HIDE DEF fits
      <3>2. PICK k \in fits : TRUE
        BY <1>3
      <3>3. CASE 1 \in fits
        BY <3>1, <3>3
      <3>4. CASE 1 \notin fits /\ 2 \in fits
        BY <3>1, <3>4
      <3>5. CASE 1 \notin fits /\ 2 \notin fits /\ 3 \in fits
        <4>1. \A j \in fits : j \in {3, 4, 5}
          BY <3>1, <3>5
        <4>2. \A j \in {3, 4, 5} : 3 <= j
          OBVIOUS
        <4> QED
          BY <3>5, <4>1, <4>2
      <3>6. CASE 1 \notin fits /\ 2 \notin fits /\ 3 \notin fits /\ 4 \in fits
        <4>1. \A j \in fits : j \in {4, 5}
          BY <3>1, <3>6
        <4>2. \A j \in {4, 5} : 4 <= j
          OBVIOUS
        <4> QED
          BY <3>6, <4>1, <4>2
      <3>7. CASE 1 \notin fits /\ 2 \notin fits /\ 3 \notin fits /\ 4 \notin fits
        <4>1. \A j \in fits : j = 5
          BY <3>1, <3>7
        <4> QED
          BY <3>2, <4>1
      <3> QED
        BY <3>3, <3>4, <3>5, <3>6, <3>7
    <2>2. Min(fits) \in fits /\ \A j \in fits : Min(fits) <= j
      BY <2>1 DEF Min
    <2>3. Unit(l) = UnitOrder[Min(fits)]
      BY <1>3 DEF Unit
    <2> QED
      BY <1>1, <2>2, <2>3
  <1> QED
    BY <1>2, <1>3

\* split_suffix takes the whole of a unit, and leaves something of everything
\* else.
LEMMA UnitOfUnit ==
    ASSUME NEW l \in Seq(Characters)
    PROVE  /\ l \in UnitSuffixes => Unit(l) = l
           /\ l \notin UnitSuffixes =>
                 Unit(l) = << >> \/ (Unit(l) \in UnitSuffixes /\ Len(Unit(l)) < Len(l))
  <1> USE DEF UnitOrder, Units, UnitSuffixes
  <1>1. ASSUME NEW k \in 1..5, IsSuffix(UnitOrder[k], l)
        PROVE  /\ UnitOrder[k] \in UnitSuffixes /\ Len(UnitOrder[k]) <= Len(l)
               /\ Len(UnitOrder[k]) = Len(l) => UnitOrder[k] = l
    <2>1. UnitOrder[k] \in UnitSuffixes /\ UnitOrder[k] \in Seq(Characters)
      <3>1. k = 1 \/ k = 2 \/ k = 3 \/ k = 4 \/ k = 5
        OBVIOUS
      <3>2. /\ UnitOrder[1] = <<"m", "s">> /\ UnitOrder[2] = <<"s">> /\ UnitOrder[3] = <<"m">>
            /\ UnitOrder[4] = <<"h">> /\ UnitOrder[5] = <<"d">>
        OBVIOUS
      <3>3. /\ <<"m", "s">> \in Seq(Characters) /\ <<"s">> \in Seq(Characters) /\ <<"m">> \in Seq(Characters)
            /\ <<"h">> \in Seq(Characters) /\ <<"d">> \in Seq(Characters)
        BY DEF Characters
      <3> QED
        BY <3>1, <3>2, <3>3
    <2>2. Len(UnitOrder[k]) <= Len(l)
      BY <1>1, <2>1, ReverseEntries DEF IsSuffix, IsPrefix
    <2> DEFINE u == UnitOrder[k]
    <2>3. ASSUME Len(u) = Len(l) PROVE u = l
      <3> HIDE DEF u
      <3>1. \A i \in 1..Len(u) : u[i] = l[Len(l) - Len(u) + i]
        BY <1>1, <2>1, <2>2, SuffixEnds DEF u
      <3>2. \A i \in 1..Len(u) : Len(l) - Len(u) + i = i
        BY <2>3
      <3>3. u \in Seq(Characters) /\ \A i \in 1..Len(u) : u[i] = l[i]
        BY <2>1, <3>1, <3>2 DEF u
      <3> QED
        BY <2>3, <3>3
    <2> QED
      BY <2>1, <2>2, <2>3
  <1>2. ASSUME l \in UnitSuffixes PROVE Unit(l) = l
    <2>1. PICK k \in 1..5 : UnitOrder[k] = l
      BY <1>2
    <2>2. IsSuffix(l, l)
      BY SuffixEnds
    <2>3. PICK j \in 1..5 : /\ Unit(l) = UnitOrder[j] /\ IsSuffix(UnitOrder[j], l)
                            /\ \A i \in 1..5 : IsSuffix(UnitOrder[i], l) => j <= i
      BY <2>1, <2>2, UnitFirst
    <2>4. CASE l = <<"m", "s">>
      <3>1. IsSuffix(UnitOrder[1], l)
        BY <2>2, <2>4
      <3> QED
        BY <2>3, <2>4, <3>1
    <2>5. CASE l \in Units
      <3>1. Len(l) = 1 /\ Len(UnitOrder[j]) <= 1
        BY <1>1, <2>3, <2>5
      <3>2. Len(UnitOrder[j]) = 1
        BY <3>1
      <3> QED
        BY <1>1, <2>3, <3>1, <3>2
    <2> QED
      BY <1>2, <2>4, <2>5
  <1>3. ASSUME l \notin UnitSuffixes, Unit(l) # << >>
        PROVE  Unit(l) \in UnitSuffixes /\ Len(Unit(l)) < Len(l)
    <2>1. PICK k \in 1..5 : Unit(l) = UnitOrder[k] /\ IsSuffix(UnitOrder[k], l)
      BY <1>3, UnitFirst
    <2>2. /\ Unit(l) \in UnitSuffixes /\ Len(Unit(l)) <= Len(l)
          /\ Len(Unit(l)) = Len(l) => Unit(l) = l
      BY <1>1, <2>1
    <2>3. Len(Unit(l)) \in Nat /\ Len(l) \in Nat /\ Len(Unit(l)) # Len(l)
      BY <1>3, <2>2
    <2> HIDE DEF UnitSuffixes
    <2> QED
      BY <2>2, <2>3
  <1> QED
    BY <1>2, <1>3

-----------------------------------------------------------------------------
(* compare_number and compare_duration_ms.                                 *)

LEMMA ComparisonParts ==
    ASSUME NEW c \in Comparison
    PROVE  /\ c.field \in {"number", "duration"} /\ c.op \in Operators
           /\ c.value.numeral \in Nat /\ c.value.letters \in Seq(Characters)
           /\ c.value.tag \in {"Number", "String", "Duration"}
  BY DEF Comparison

LEMMA ProductGrows ==
    ASSUME NEW a \in Nat, NEW b \in Nat \ {0}
    PROVE  a * b \in Nat /\ a <= a * b
  OBVIOUS

\* What a literal with nothing behind its number stands for.
LEMMA BareNumber ==
    ASSUME NEW numeral \in Nat, NEW letters \in Seq(Characters)
    PROVE  /\ (letters = << >> /\ numeral <= MaxU64) => ParseU64(numeral, letters) = numeral
           /\ ~ (letters = << >> /\ numeral <= MaxU64) => ParseU64(numeral, letters) = Refused
           /\ numeral # Refused
  BY DEF ParseU64, Refused

\* A literal is refused for anything but a number of 64 bits with a unit.
LEMMA DurationRefused ==
    ASSUME NEW c \in Comparison,
           c.value.letters \notin UnitSuffixes \/ ~ (c.value.numeral <= MaxU64)
    PROVE  ParseDuration(c.value) = Refused
  <1> DEFINE l == c.value.letters
             rest == SubSeq(l, 1, Len(l) - Len(Unit(l)))
  <1>0. c.value.numeral \in Nat /\ l \in Seq(Characters)
    BY ComparisonParts
  <1>1. ASSUME Unit(l) # << >> PROVE ParseU64(c.value.numeral, rest) = Refused
    <2>1. CASE ~ (c.value.numeral <= MaxU64)
      BY <2>1 DEF ParseU64
    <2>2. CASE l \notin UnitSuffixes
      <3>1. Unit(l) \in Seq(Characters) /\ Len(Unit(l)) < Len(l)
        BY <1>0, <1>1, <2>2, UnitOfUnit, SuffixType
      <3> HIDE DEF l
      <3>2. Len(rest) = Len(l) - Len(Unit(l)) /\ Len(rest) > 0
        <4> DEFINE n == Len(l) - Len(Unit(l))
        <4>1. n \in 1..Len(l)
          BY <1>0, <3>1
        <4> HIDE DEF n
        <4>2. Len(SubSeq(l, 1, n)) = n
          BY <1>0, <4>1
        <4> QED
          BY <4>1, <4>2 DEF n
      <3>3. rest # << >>
        <4> HIDE DEF rest
        <4> QED
          BY <3>2
      <3> QED
        BY <3>3 DEF ParseU64
    <2> QED
      BY <2>1, <2>2
  <1> QED
    BY <1>1 DEF ParseDuration

\* With a unit it is the number of milliseconds, as long as they fit.
LEMMA DurationRead ==
    ASSUME NEW c \in Comparison, c.value.letters \in UnitSuffixes, c.value.numeral <= MaxU64
    PROVE  /\ ParseDuration(c.value) \in Nat
           /\ Written(c) <= MaxU64 => ParseDuration(c.value) = Written(c)
  <1> DEFINE l == c.value.letters
             n == c.value.numeral
  <1>0. n \in Nat /\ l \in Seq(Characters) /\ MaxU64 \in Nat /\ Second \in Nat \ {0}
    BY ComparisonParts, LiteralsAssumption
  <1>1. Unit(l) = l /\ l # << >> /\ SubSeq(l, 1, Len(l) - Len(l)) = << >>
    <2>1. Unit(l) = l /\ l # << >>
      BY <1>0, UnitOfUnit, SuffixType
    <2>2. Len(l) - Len(l) = 0 /\ SubSeq(l, 1, 0) = << >>
      BY <1>0, SubSeqEmpty
    <2> HIDE DEF l
    <2> QED
      BY <2>1, <2>2
  <1>2. ParseU64(n, << >>) = n /\ n # Refused
    BY <1>0 DEF ParseU64, Refused
  <1>3. CASE l = <<"m", "s">>
    <2>1. ParseDuration(c.value) = n
      BY <1>1, <1>2, <1>3 DEF ParseDuration
    <2>2. Written(c) = n
      BY <1>3 DEF Written, Units
    <2> QED
      BY <1>0, <2>1, <2>2
  <1>4. CASE l \in Units
    <2> DEFINE a == n * SecondsIn[l]
    <2>1. SecondsIn[l] \in Nat \ {0}
      BY <1>4, LiteralsAssumption
    <2>2. a \in Nat /\ a * Second \in Nat /\ a <= a * Second
      BY <1>0, <2>1, ProductGrows
    <2>3. l # <<"m", "s">>
      BY <1>4 DEF Units
    <2>4. ParseDuration(c.value) = AtMost(a, MaxU64) * Second
      BY <1>1, <1>2, <2>3 DEF ParseDuration
    <2>5. Written(c) = a * Second
      BY <1>4 DEF Written
    <2> HIDE DEF a
    <2>6. AtMost(a, MaxU64) \in Nat /\ (a <= MaxU64 => AtMost(a, MaxU64) = a)
      BY <1>0, <2>2 DEF AtMost
    <2>7. AtMost(a, MaxU64) * Second \in Nat
      BY <1>0, <2>6, ProductGrows
    <2>8. a * Second <= MaxU64 => a <= MaxU64
      BY <1>0, <2>2
    <2> QED
      BY <2>4, <2>5, <2>6, <2>7, <2>8
  <1> QED
    BY <1>3, <1>4 DEF UnitSuffixes

\* The verdict of a comparison.
Accepted(c) ==
    /\ IF c.field = "number" THEN IsNumber(c) ELSE IsDuration(c)
    /\ c.value.numeral <= MaxU64
Expected(c) == IF c.field = "number" THEN ExpectedNumber(c.value) ELSE ExpectedMillis(c.value)

LEMMA ExpectedAsWritten ==
    ASSUME NEW c \in Comparison
    PROVE  /\ Expected(c) = Refused <=> ~ Accepted(c)
           /\ (Accepted(c) /\ Written(c) <= MaxU64) => Expected(c) = Written(c)
  <1>0. /\ c.value.numeral \in Nat /\ c.value.letters \in Seq(Characters) /\ MaxU64 \in Nat
        /\ c.value.tag \in {"Number", "String", "Duration"}
    BY ComparisonParts, LiteralsAssumption
  <1>1. /\ ParseU64(c.value.numeral, c.value.letters) = Refused
              <=> ~ (c.value.letters = << >> /\ c.value.numeral <= MaxU64)
        /\ ParseU64(c.value.numeral, c.value.letters) # Refused
              => ParseU64(c.value.numeral, c.value.letters) = c.value.numeral
    BY <1>0, BareNumber
  <1>2. c.value.letters = << >> => Written(c) = c.value.numeral
    BY DEF Written, Units
  <1>3. CASE c.field = "number"
    BY <1>1, <1>2, <1>3 DEF Expected, Accepted, ExpectedNumber, IsNumber
  <1>4. CASE c.field # "number" /\ c.value.tag = "Number"
    BY <1>1, <1>2, <1>4 DEF Expected, Accepted, ExpectedMillis, IsDuration
  <1>5. CASE c.field # "number" /\ c.value.tag # "Number"
    <2> DEFINE d == ParseDuration(c.value)
    <2>1. Accepted(c) <=> c.value.letters \in UnitSuffixes /\ c.value.numeral <= MaxU64
      BY <1>5 DEF Accepted, IsDuration, UnitSuffixes
    <2>2. Expected(c) = IF d = Refused THEN Refused ELSE d % (MaxU64 + 1)
      BY <1>5 DEF Expected, ExpectedMillis
    <2>3. CASE ~ Accepted(c)
      BY <2>1, <2>2, <2>3, DurationRefused
    <2>4. CASE Accepted(c)
      <3>1. d \in Nat /\ (Written(c) <= MaxU64 => d = Written(c))
        BY <2>1, <2>4, DurationRead
      <3> HIDE DEF d
      <3>2. d # Refused /\ d % (MaxU64 + 1) # Refused
        BY <1>0, <3>1 DEF Refused
      <3>3. d <= MaxU64 => d % (MaxU64 + 1) = d
        BY <1>0, <3>1
      <3> QED
        BY <2>2, <2>4, <3>1, <3>2, <3>3
    <2> QED
      BY <2>3, <2>4
  <1> QED
    BY <1>3, <1>4, <1>5

KnownComparison == input.kind = "comparison" => input.of \in Comparison

LEMMA ComparesStep ==
    ASSUME KnownComparison, ComparesAsWritten, [Next]_vars
    PROVE  ComparesAsWritten'
  <1>1. CASE Compare
    <2> DEFINE c == input.of
    <2>1. c \in Comparison /\ input' = input
      BY <1>1 DEF Compare, KnownComparison
    <2>2. result' = IF Expected(c) = Refused THEN "error"
                    ELSE IF Holds(c.actual, c.op, Expected(c)) THEN "true" ELSE "false"
      BY <1>1 DEF Compare, Expected
    <2>3. result' = "error" <=> ~ Accepted(c)
      BY <2>1, <2>2, ExpectedAsWritten
    <2>4. (Accepted(c) /\ Written(c) <= MaxU64) =>
              (result' = "true" <=> Holds(c.actual, c.op, Written(c)))
      BY <2>1, <2>2, ExpectedAsWritten
    <2> HIDE DEF c
    <2> QED
      BY <2>1, <2>3, <2>4 DEF ComparesAsWritten, Accepted, c
  <1>2. CASE ~ Compare
    BY <1>2
    DEF Next, vars, ComparesAsWritten, Expand, Copy, Expanded, AtTemplate, StepBack, Keep, Cut,
        AtText, Ended
  <1> QED
    BY <1>1, <1>2

\* For every width of the integers and every length of the units: a comparison is
\* with what the literal writes, or an error, provided that its number or its
\* milliseconds fit the width (Written(c) <= MaxU64).  Of longer durations, which
\* compare_duration_ms wraps, it says nothing.
THEOREM ComparisonsAsWritten == Spec => []ComparesAsWritten
  <1>1. Init => KnownComparison /\ ComparesAsWritten
    BY LiteralsAssumption DEF Init, KnownComparison, ComparesAsWritten
  <1>2. KnownComparison /\ [Next]_vars => KnownComparison'
    BY DEF Next, vars, KnownComparison, Expand, Copy, Expanded, AtTemplate, Compare, StepBack,
           Keep, Cut, AtText, Ended
  <1> QED
    BY <1>1, <1>2, ComparesStep, PTL DEF Spec

-----------------------------------------------------------------------------
(* The name of a placeholder, without the blanks around it.                *)

LEMMA LeastExists ==
    ASSUME NEW S, S \subseteq Nat, S # {}
    PROVE  \E x \in S : \A y \in S : x <= y
  <1> DEFINE R == {q \in Nat \X Nat : q[1] < q[2]}
  <1>1. OpToRel(<, Nat) = R
    BY DEF OpToRel
  <1>2. IsWellFoundedOn(R, Nat)
    BY <1>1, NatLessThanWellFounded
  <1> HIDE DEF R
  <1>3. PICK x \in S : \A y \in S : ~ (<<y, x>> \in R)
    BY <1>2, WFMin, Zenon
  <1>4. ASSUME NEW y \in S PROVE x <= y
    <2>1. <<y, x>> \notin R
      BY <1>3
    <2> QED
      BY <2>1 DEF R
  <1> QED
    BY <1>4

LEMMA MinExists ==
    ASSUME NEW S, S \subseteq Nat, S # {}
    PROVE  Min(S) \in S /\ \A y \in S : Min(S) <= y
  BY LeastExists DEF Min

LEMMA MaxExists ==
    ASSUME NEW n \in Nat, NEW S, S \subseteq 0..n, S # {}
    PROVE  Max(S) \in S /\ \A y \in S : Max(S) >= y
  <1> DEFINE T == {k \in 0..n : n - k \in S}
  <1>1. \A m \in S : n - m \in T /\ n - (n - m) = m
    OBVIOUS
  <1>2. T \subseteq Nat /\ T # {}
    <2>1. PICK m \in S : TRUE
      OBVIOUS
    <2>2. n - m \in T
      BY <1>1, <2>1
    <2> QED
      BY <2>2
  <1> HIDE DEF T
  <1>3. PICK x \in T : \A y \in T : x <= y
    BY <1>2, LeastExists
  <1>4. n - x \in S /\ x \in 0..n
    BY DEF T
  <1>5. \A y \in S : n - x >= y
    <2> SUFFICES ASSUME NEW y \in S PROVE n - x >= y
      OBVIOUS
    <2>1. x <= n - y
      BY <1>1, <1>3
    <2> QED
      BY <1>4, <2>1
  <1> QED
    BY <1>4, <1>5 DEF Max

NameCharacters == {"letter", "digit", "blank"}

\* What Trim leaves, when it leaves something.
LEMMA TrimLeaves ==
    ASSUME NEW s \in Seq(Classes), NEW a \in 1..Len(s), NEW b \in a..Len(s),
           s[a] # "blank", s[b] # "blank",
           \A k \in 1..(a - 1) : s[k] = "blank", \A k \in (b + 1)..Len(s) : s[k] = "blank"
    PROVE  Trim(s) = SubSeq(s, a, b)
  <1> DEFINE shown == {k \in DOMAIN s : s[k] # "blank"}
  <1>1. /\ shown \subseteq Nat /\ shown \subseteq 0..Len(s) /\ Len(s) \in Nat
        /\ a \in shown /\ b \in shown
    OBVIOUS
  <1>2. \A k \in shown : a <= k /\ k <= b
    OBVIOUS
  <1>3. Trim(s) = SubSeq(s, Min(shown), Max(shown))
    BY <1>1 DEF Trim
  <1> HIDE DEF shown
  <1>4. Min(shown) = a
    <2>1. Min(shown) \in shown /\ Min(shown) <= a
      BY <1>1, MinExists
    <2>2. Min(shown) \in Nat /\ a <= Min(shown)
      BY <1>1, <1>2, <2>1
    <2> QED
      BY <2>1, <2>2
  <1>5. Max(shown) = b
    <2>1. Max(shown) \in shown /\ Max(shown) >= b
      BY <1>1, MaxExists
    <2>2. Max(shown) \in Nat /\ Max(shown) <= b
      BY <1>1, <1>2, <2>1
    <2> QED
      BY <2>1, <2>2
  <1> QED
    BY <1>3, <1>4, <1>5

LEMMA TrimFinds ==
    ASSUME NEW s \in Seq(Classes), Trim(s) # << >>
    PROVE  \E a \in 1..Len(s) : \E b \in a..Len(s) :
              /\ s[a] # "blank" /\ s[b] # "blank" /\ Trim(s) = SubSeq(s, a, b)
              /\ \A k \in 1..(a - 1) : s[k] = "blank"
              /\ \A k \in (b + 1)..Len(s) : s[k] = "blank"
  <1> DEFINE shown == {k \in DOMAIN s : s[k] # "blank"}
             a == Min(shown)
             b == Max(shown)
  <1>1. shown # {} /\ Trim(s) = SubSeq(s, a, b)
    BY DEF Trim
  <1>2. shown \subseteq Nat /\ shown \subseteq 0..Len(s) /\ Len(s) \in Nat
    OBVIOUS
  <1>3. a \in shown /\ \A k \in shown : a <= k
    <2> HIDE DEF shown
    <2> QED
      BY <1>1, <1>2, MinExists
  <1>4. b \in shown /\ \A k \in shown : b >= k
    <2> HIDE DEF shown
    <2> QED
      BY <1>1, <1>2, MaxExists
  <1> HIDE DEF a, b
  <1>5. a \in 1..Len(s) /\ b \in a..Len(s) /\ s[a] # "blank" /\ s[b] # "blank"
    BY <1>3, <1>4
  <1>6. /\ \A k \in 1..(a - 1) : s[k] = "blank"
        /\ \A k \in (b + 1)..Len(s) : s[k] = "blank"
    BY <1>3, <1>4, <1>5
  <1> QED
    BY <1>1, <1>5, <1>6

-----------------------------------------------------------------------------
(* Placeholders.                                                           *)

\* <<a, b>> is where a name stands alone between i and j.
Framed(t, i, j, a, b) ==
    /\ a \in i..j /\ b \in i..j /\ a <= b
    /\ \A k \in i..(a - 1) : t[k] = "blank"
    /\ \A k \in (b + 1)..j : t[k] = "blank"
    /\ t[a] = "letter"
    /\ \A k \in a..b : t[k] \in {"letter", "digit"}

LEMMA NamesFramed ==
    ASSUME NEW t, NEW i \in Int, NEW j \in Int
    PROVE  \A n : n \in NamesBetween(t, i, j)
                      <=> \E a, b \in i..j : Framed(t, i, j, a, b) /\ n = SubSeq(t, a, b)
  <1> DEFINE Frames == {q \in (i..j) \X (i..j) : Framed(t, i, j, q[1], q[2])}
  <1>1. NamesBetween(t, i, j) = {SubSeq(t, p[1], p[2]) : p \in Frames}
    BY DEF NamesBetween, Framed
  <1>2. ASSUME NEW a \in i..j, NEW b \in i..j, Framed(t, i, j, a, b)
        PROVE  SubSeq(t, a, b) \in NamesBetween(t, i, j)
    <2>1. <<a, b>> \in Frames
      BY <1>2
    <2> QED
      BY <1>1, <2>1
  <1>3. ASSUME NEW n \in NamesBetween(t, i, j)
        PROVE  \E a, b \in i..j : Framed(t, i, j, a, b) /\ n = SubSeq(t, a, b)
    <2>1. PICK p \in Frames : n = SubSeq(t, p[1], p[2])
      BY <1>1
    <2> QED
      BY <2>1
  <1> QED
    BY <1>2, <1>3

LEMMA NameTypes ==
    ASSUME NEW t \in Seq(Classes), NEW i \in 1..Len(t), NEW j \in (i + 2)..Len(t)
    PROVE  LET s == SubSeq(t, i + 2, j - 1) IN
           /\ s \in Seq(Classes) /\ Len(s) = j - i - 2
           /\ \A k \in 1..Len(s) : s[k] = t[i + 1 + k]
  OBVIOUS

\* A name that stands alone between the braces is what Name cuts out.
LEMMA FramedIsName ==
    ASSUME NEW t \in Seq(Classes), NEW i \in 1..Len(t), NEW j \in (i + 2)..Len(t),
           NEW a \in Int, NEW b \in Int, Framed(t, i + 2, j - 1, a, b)
    PROVE  Name(t, i, j) = SubSeq(t, a, b) /\ IsIdent(Name(t, i, j))
  <1> DEFINE s == SubSeq(t, i + 2, j - 1)
             c == a - i - 1
             d == b - i - 1
  <1>1. /\ s \in Seq(Classes) /\ Len(s) = j - i - 2
        /\ \A k \in 1..Len(s) : s[k] = t[i + 1 + k]
    BY NameTypes
  <1> HIDE DEF s
  <1>2. c \in 1..Len(s) /\ d \in c..Len(s)
    BY <1>1 DEF Framed
  <1>3. s[c] # "blank" /\ s[d] # "blank"
    <2>1. i + 1 + c = a /\ i + 1 + d = b /\ b \in a..b /\ t[a] = "letter" /\ t[b] # "blank"
      BY <1>2 DEF Framed
    <2> QED
      BY <1>1, <1>2, <2>1
  <1>4. /\ \A k \in 1..(c - 1) : s[k] = "blank"
        /\ \A k \in (d + 1)..Len(s) : s[k] = "blank"
    <2>1. ASSUME NEW k \in 1..(c - 1) PROVE s[k] = "blank"
      <3>1. i + 1 + k \in (i + 2)..(a - 1) /\ k \in 1..Len(s)
        BY <1>2
      <3> QED
        BY <1>1, <3>1 DEF Framed
    <2>2. ASSUME NEW k \in (d + 1)..Len(s) PROVE s[k] = "blank"
      <3>1. i + 1 + k \in (b + 1)..(j - 1) /\ k \in 1..Len(s)
        BY <1>1, <1>2, SMTT(30)
      <3> QED
        BY <1>1, <3>1 DEF Framed
    <2> QED
      BY <2>1, <2>2
  <1>5. Name(t, i, j) = SubSeq(s, c, d)
    <2> HIDE DEF c, d
    <2> QED
      BY <1>1, <1>2, <1>3, <1>4, TrimLeaves DEF Name, s
  <1>6. /\ SubSeq(s, c, d) \in Seq(Classes) /\ Len(SubSeq(s, c, d)) = b - a + 1
        /\ \A k \in 1..(b - a + 1) : SubSeq(s, c, d)[k] = t[a + k - 1]
    <2>1. /\ SubSeq(s, c, d) \in Seq(Classes) /\ Len(SubSeq(s, c, d)) = d - c + 1
          /\ \A k \in 1..(d - c + 1) : SubSeq(s, c, d)[k] = s[c + k - 1]
      <3> HIDE DEF c, d
      <3> QED
        BY <1>1, <1>2
    <2> HIDE DEF Framed
    <2> QED
      BY <1>1, <1>2, <2>1
  <1>7. a \in 1..Len(t) /\ b \in a..Len(t)
    BY DEF Framed
  <1>8. /\ SubSeq(t, a, b) \in Seq(Classes) /\ Len(SubSeq(t, a, b)) = b - a + 1
        /\ \A k \in 1..(b - a + 1) : SubSeq(t, a, b)[k] = t[a + k - 1]
    BY <1>7, SMTT(30)
  <1>9. SubSeq(s, c, d) = SubSeq(t, a, b)
    <2> DEFINE x == SubSeq(s, c, d)
               y == SubSeq(t, a, b)
    <2>1. /\ x \in Seq(Classes) /\ y \in Seq(Classes) /\ Len(x) = Len(y)
          /\ \A k \in 1..Len(x) : x[k] = y[k]
      BY <1>6, <1>8
    <2> HIDE DEF x, y
    <2>2. x = y
      BY <2>1
    <2> QED
      BY <2>2 DEF x, y
  <1>10. IsIdent(SubSeq(t, a, b))
    <2>1. \A k \in 1..(b - a + 1) : a + k - 1 \in a..b
      BY <1>7
    <2>2. \A k \in 1..(b - a + 1) : SubSeq(t, a, b)[k] \in {"letter", "digit"}
      BY <1>8, <2>1 DEF Framed
    <2>3. SubSeq(t, a, b)[1] = "letter" /\ b - a + 1 > 0
      BY <1>7, <1>8 DEF Framed
    <2> DEFINE n == SubSeq(t, a, b)
    <2>4. DOMAIN n = 1..(b - a + 1) /\ Len(n) > 0
      BY <1>7, <1>8
    <2>5. n # << >>
      <3> HIDE DEF n
      <3> QED
        BY <2>4
    <2>6. n[1] = "letter" /\ \A k \in DOMAIN n : n[k] \in {"letter", "digit"}
      BY <2>2, <2>3, <2>4
    <2> HIDE DEF n
    <2>7. IsIdent(n)
      BY <2>5, <2>6 DEF IsIdent
    <2> QED
      BY <2>7 DEF n
  <1> QED
    BY <1>5, <1>9, <1>10

\* What Name cuts out stands alone between the braces, when it is a name.
LEMMA NameIsFramed ==
    ASSUME NEW t \in Seq(Classes), NEW i \in 1..Len(t), NEW j \in (i + 2)..Len(t),
           IsIdent(Name(t, i, j))
    PROVE  \E a, b \in Int : Framed(t, i + 2, j - 1, a, b)
  <1> DEFINE s == SubSeq(t, i + 2, j - 1)
  <1>1. /\ s \in Seq(Classes) /\ Len(s) = j - i - 2
        /\ \A k \in 1..Len(s) : s[k] = t[i + 1 + k]
    BY NameTypes
  <1>2. Name(t, i, j) = Trim(s)
    BY DEF Name
  <1> HIDE DEF s
  <1>3. PICK c \in 1..Len(s) : \E d \in c..Len(s) :
              /\ s[c] # "blank" /\ s[d] # "blank" /\ Trim(s) = SubSeq(s, c, d)
              /\ \A k \in 1..(c - 1) : s[k] = "blank"
              /\ \A k \in (d + 1)..Len(s) : s[k] = "blank"
    BY <1>1, <1>2, TrimFinds DEF IsIdent
  <1>4. PICK d \in c..Len(s) :
              /\ s[c] # "blank" /\ s[d] # "blank" /\ Trim(s) = SubSeq(s, c, d)
              /\ \A k \in 1..(c - 1) : s[k] = "blank"
              /\ \A k \in (d + 1)..Len(s) : s[k] = "blank"
    BY <1>3
  <1> DEFINE a == i + 1 + c
             b == i + 1 + d
             n == SubSeq(s, c, d)
  <1>5. n \in Seq(Classes) /\ Len(n) = d - c + 1 /\ \A k \in 1..(d - c + 1) : n[k] = s[c + k - 1]
    BY <1>1
  <1>6. IsIdent(n)
    BY <1>2, <1>4
  <1> HIDE DEF n
  <1>7. a \in (i + 2)..(j - 1) /\ b \in (i + 2)..(j - 1) /\ a <= b
    BY <1>1
  <1>8. \A k \in (i + 2)..(a - 1) : t[k] = "blank"
    <2> SUFFICES ASSUME NEW k \in (i + 2)..(a - 1) PROVE t[k] = "blank"
      OBVIOUS
    <2>1. k - i - 1 \in 1..(c - 1) /\ k - i - 1 \in 1..Len(s) /\ i + 1 + (k - i - 1) = k
      BY <1>7
    <2> QED
      BY <1>1, <1>4, <2>1
  <1>9. \A k \in (b + 1)..(j - 1) : t[k] = "blank"
    <2> SUFFICES ASSUME NEW k \in (b + 1)..(j - 1) PROVE t[k] = "blank"
      OBVIOUS
    <2>1. k - i - 1 \in (d + 1)..Len(s) /\ k - i - 1 \in 1..Len(s) /\ i + 1 + (k - i - 1) = k
      BY <1>1, <1>7
    <2> QED
      BY <1>1, <1>4, <2>1
  <1>10. \A k \in a..b : t[k] \in {"letter", "digit"}
    <2> SUFFICES ASSUME NEW k \in a..b PROVE t[k] \in {"letter", "digit"}
      OBVIOUS
    <2> DEFINE m == k - a + 1
    <2>1. m \in 1..(d - c + 1) /\ c + m - 1 \in 1..Len(s) /\ i + 1 + (c + m - 1) = k
      BY <1>1, <1>7
    <2>2. n[m] \in {"letter", "digit"}
      BY <1>5, <1>6, <2>1, SMTT(30) DEF IsIdent
    <2> HIDE DEF m
    <2> QED
      BY <1>1, <1>5, <2>1, <2>2
  <1>11. t[a] = "letter"
    <2>1. n[1] = "letter" /\ 1 \in 1..(d - c + 1) /\ c + 1 - 1 = c
      BY <1>5, <1>6 DEF IsIdent
    <2> QED
      BY <1>1, <1>5, <2>1
  <1>12. a \in Int /\ b \in Int
    OBVIOUS
  <1> HIDE DEF a, b
  <1>13. Framed(t, i + 2, j - 1, a, b)
    BY <1>7, <1>8, <1>9, <1>10, <1>11 DEF Framed
  <1> QED
    BY <1>12, <1>13

LEMMA FramedCharacters ==
    ASSUME NEW t \in Seq(Classes), NEW i \in Int, NEW j \in Int, NEW a \in Int, NEW b \in Int,
           Framed(t, i, j, a, b)
    PROVE  \A k \in i..j : t[k] \in NameCharacters
  <1> SUFFICES ASSUME NEW k \in i..j PROVE t[k] \in NameCharacters
    OBVIOUS
  <1>1. k \in i..(a - 1) \/ k \in a..b \/ k \in (b + 1)..j
    BY DEF Framed
  <1> QED
    BY <1>1 DEF Framed, NameCharacters

LEMMA BracesAt ==
    ASSUME NEW t \in Seq(Classes), NEW j \in Int, NEW brace, Braces(t, j, brace)
    PROVE  j \in 1..Len(t) /\ j + 1 \in 1..Len(t) /\ t[j] = brace /\ t[j + 1] = brace
  <1>1. j \in 1..(Len(t) - 1) /\ Len(t) \in Nat
    BY DEF Braces
  <1>2. j \in 1..Len(t) /\ j + 1 \in 1..Len(t)
    BY <1>1
  <1> QED
    BY <1>2 DEF Braces

LEMMA ParseParts ==
    ASSUME NEW t \in Seq(Classes), NEW i \in 1..Len(t), NEW j \in Int
    PROVE  j \in Parse(t, i) <=>
              /\ j \in (i + 2)..Len(t) /\ j + 1 \in 1..Len(t)
              /\ Braces(t, j, "}") /\ Braces(t, i, "{")
              /\ \A k \in (i + 2)..(j - 1) : ~ Braces(t, k, "}")
              /\ IsIdent(Name(t, i, j))
  <1>1. j \in Parse(t, i) <=> j \in Closes(t, i + 2) /\ Braces(t, i, "{") /\ IsIdent(Name(t, i, j))
    BY DEF Parse
  <1>2. j \in Closes(t, i + 2) <=>
            /\ j \in (i + 2)..Len(t) /\ Braces(t, j, "}")
            /\ \A k \in (i + 2)..(j - 1) : ~ Braces(t, k, "}")
    BY DEF Closes
  <1>3. Braces(t, j, "}") => j + 1 \in 1..Len(t)
    BY BracesAt
  <1> QED
    BY <1>1, <1>2, <1>3

LEMMA PlaceholderParts ==
    ASSUME NEW t \in Seq(Classes), NEW i \in Int, NEW j \in Int
    PROVE  <<i, j + 1>> \in Placeholders(t) <=>
              /\ i \in 1..Len(t) /\ j + 1 \in 1..Len(t)
              /\ Braces(t, i, "{") /\ Braces(t, j, "}")
              /\ \E a, b \in Int : Framed(t, i + 2, j - 1, a, b)
  <1> DEFINE p == <<i, j + 1>>
  <1>1. p[1] = i /\ p[2] = j + 1 /\ p[2] - 1 = j /\ p[2] - 2 = j - 1
    OBVIOUS
  <1>2. p \in Placeholders(t) <=>
            /\ p \in (1..Len(t)) \X (1..Len(t))
            /\ Braces(t, p[1], "{") /\ Braces(t, p[2] - 1, "}")
            /\ NamesBetween(t, p[1] + 2, p[2] - 2) # {}
    BY DEF Placeholders
  <1>3. p \in (1..Len(t)) \X (1..Len(t)) <=> i \in 1..Len(t) /\ j + 1 \in 1..Len(t)
    OBVIOUS
  <1>4. NamesBetween(t, i + 2, j - 1) # {} <=> \E a, b \in Int : Framed(t, i + 2, j - 1, a, b)
    <2>1. i + 2 \in Int /\ j - 1 \in Int
      OBVIOUS
    <2>2. \A n : n \in NamesBetween(t, i + 2, j - 1)
              <=> \E a, b \in (i + 2)..(j - 1) : Framed(t, i + 2, j - 1, a, b) /\ n = SubSeq(t, a, b)
      BY <2>1, NamesFramed
    <2>3. \A a, b \in Int : Framed(t, i + 2, j - 1, a, b) =>
              a \in (i + 2)..(j - 1) /\ b \in (i + 2)..(j - 1)
      BY DEF Framed
    <2>4. ASSUME NEW n \in NamesBetween(t, i + 2, j - 1)
          PROVE  \E a, b \in Int : Framed(t, i + 2, j - 1, a, b)
      <3>1. PICK a \in (i + 2)..(j - 1), b \in (i + 2)..(j - 1) : Framed(t, i + 2, j - 1, a, b)
        BY <2>2
      <3>2. a \in Int /\ b \in Int
        OBVIOUS
      <3> QED
        BY <3>1, <3>2
    <2>5. ASSUME NEW a \in Int, NEW b \in Int, Framed(t, i + 2, j - 1, a, b)
          PROVE  SubSeq(t, a, b) \in NamesBetween(t, i + 2, j - 1)
      BY <2>2, <2>3, <2>5
    <2> QED
      BY <2>4, <2>5
  <1> HIDE DEF p
  <1>5. p \in Placeholders(t) <=>
            /\ i \in 1..Len(t) /\ j + 1 \in 1..Len(t)
            /\ Braces(t, i, "{") /\ Braces(t, j, "}")
            /\ NamesBetween(t, i + 2, j - 1) # {}
    BY <1>1, <1>2, <1>3
  <1> QED
    BY <1>4, <1>5 DEF p

\* What parse_placeholder finds is a placeholder, and every placeholder is
\* found where it starts.
LEMMA ParseFinds ==
    ASSUME NEW t \in Seq(Classes), NEW i \in 1..Len(t), NEW j \in Int
    PROVE  j \in Parse(t, i) <=> <<i, j + 1>> \in Placeholders(t)
  <1>0. i \in Int
    OBVIOUS
  <1>1. ASSUME j \in Parse(t, i) PROVE <<i, j + 1>> \in Placeholders(t)
    <2>1. /\ j \in (i + 2)..Len(t) /\ j + 1 \in 1..Len(t) /\ Braces(t, j, "}") /\ Braces(t, i, "{")
          /\ IsIdent(Name(t, i, j))
      BY <1>1, ParseParts
    <2>2. \E a, b \in Int : Framed(t, i + 2, j - 1, a, b)
      BY <2>1, NameIsFramed
    <2> QED
      BY <1>0, <2>1, <2>2, PlaceholderParts
  <1>2. ASSUME <<i, j + 1>> \in Placeholders(t) PROVE j \in Parse(t, i)
    <2>1. /\ j + 1 \in 1..Len(t) /\ Braces(t, j, "}") /\ Braces(t, i, "{")
          /\ \E a, b \in Int : Framed(t, i + 2, j - 1, a, b)
      BY <1>0, <1>2, PlaceholderParts
    <2>2. PICK a \in Int, b \in Int : Framed(t, i + 2, j - 1, a, b)
      BY <2>1
    <2>3. j \in (i + 2)..Len(t)
      <3>1. a \in (i + 2)..(j - 1)
        BY <2>2 DEF Framed
      <3>2. i + 2 <= j
        BY <3>1
      <3>3. j \in 1..Len(t)
        BY <2>1, BracesAt
      <3> QED
        BY <3>2, <3>3
    <2>4. IsIdent(Name(t, i, j))
      BY <2>2, <2>3, FramedIsName
    <2>5. \A k \in (i + 2)..(j - 1) : ~ Braces(t, k, "}")
      <3>1. \A k \in (i + 2)..(j - 1) : t[k] \in NameCharacters
        BY <2>2, FramedCharacters
      <3>2. "}" \notin NameCharacters
        BY DEF NameCharacters
      <3> QED
        BY <3>1, <3>2 DEF Braces
    <2> QED
      BY <2>1, <2>3, <2>4, <2>5, ParseParts
  <1> QED
    BY <1>1, <1>2

LEMMA PlaceholderName ==
    ASSUME NEW t \in Seq(Classes), NEW i \in 1..Len(t), NEW j \in Int, j \in Parse(t, i)
    PROVE  NamesBetween(t, i + 2, j - 1) = {Name(t, i, j)}
  <1>0. i + 2 \in Int /\ j - 1 \in Int
    OBVIOUS
  <1>1. j \in (i + 2)..Len(t) /\ IsIdent(Name(t, i, j))
    BY ParseParts
  <1>2. PICK a \in Int, b \in Int : Framed(t, i + 2, j - 1, a, b)
    BY <1>1, NameIsFramed
  <1>3. a \in (i + 2)..(j - 1) /\ b \in (i + 2)..(j - 1)
    BY <1>2 DEF Framed
  <1>4. Name(t, i, j) = SubSeq(t, a, b)
    BY <1>1, <1>2, FramedIsName
  <1>5. \A n : n \in NamesBetween(t, i + 2, j - 1)
            <=> \E c, d \in (i + 2)..(j - 1) : Framed(t, i + 2, j - 1, c, d) /\ n = SubSeq(t, c, d)
    BY <1>0, NamesFramed
  <1>6. Name(t, i, j) \in NamesBetween(t, i + 2, j - 1)
    BY <1>2, <1>3, <1>4, <1>5
  <1>7. ASSUME NEW n \in NamesBetween(t, i + 2, j - 1) PROVE n = Name(t, i, j)
    <2>1. PICK c \in Int, d \in Int : Framed(t, i + 2, j - 1, c, d) /\ n = SubSeq(t, c, d)
      BY <1>5
    <2> QED
      BY <1>1, <2>1, FramedIsName
  <1> QED
    BY <1>6, <1>7

LEMMA ParseOnce ==
    ASSUME NEW t \in Seq(Classes), NEW i \in 1..Len(t), NEW j \in Int, NEW k \in Int,
           j \in Parse(t, i), k \in Parse(t, i)
    PROVE  j = k
  <1>1. j \in (i + 2)..Len(t) /\ Braces(t, j, "}") /\ \A m \in (i + 2)..(j - 1) : ~ Braces(t, m, "}")
    BY ParseParts
  <1>2. k \in (i + 2)..Len(t) /\ Braces(t, k, "}") /\ \A m \in (i + 2)..(k - 1) : ~ Braces(t, m, "}")
    BY ParseParts
  <1>3. ~ (j < k) /\ ~ (k < j)
    <2>1. j \in (i + 2)..Len(t) /\ k \in (i + 2)..Len(t)
      BY <1>1, <1>2
    <2>2. j < k => j \in (i + 2)..(k - 1)
      BY <2>1
    <2>3. k < j => k \in (i + 2)..(j - 1)
      BY <2>1
    <2> QED
      BY <1>1, <1>2, <2>2, <2>3
  <1> QED
    BY <1>3

LEMMA PlaceholderPair ==
    ASSUME NEW t \in Seq(Classes), NEW p \in Placeholders(t)
    PROVE  \E i \in 1..Len(t), j \in Int :
              /\ p = <<i, j + 1>> /\ p[1] = i /\ p[2] = j + 1 /\ j \in Parse(t, i)
  <1>1. p \in (1..Len(t)) \X (1..Len(t))
    BY DEF Placeholders
  <1>2. PICK i \in 1..Len(t), e \in 1..Len(t) : p = <<i, e>>
    BY <1>1
  <1>3. p = <<i, (e - 1) + 1>> /\ e - 1 \in Int
    BY <1>2
  <1>4. e - 1 \in Parse(t, i)
    BY <1>3, ParseFinds
  <1> QED
    BY <1>2, <1>3, <1>4

\* Two placeholders never overlap.
LEMMA PlaceholdersApart ==
    ASSUME NEW t \in Seq(Classes), NEW p \in Placeholders(t), NEW q \in Placeholders(t)
    PROVE  /\ p[1] < q[1] => p[2] < q[1]
           /\ p[1] = q[1] => p = q
  <1>1. PICK i \in 1..Len(t), j \in Int : p = <<i, j + 1>> /\ p[1] = i /\ p[2] = j + 1 /\ j \in Parse(t, i)
    BY PlaceholderPair
  <1>2. PICK c \in 1..Len(t), d \in Int : q = <<c, d + 1>> /\ q[1] = c /\ q[2] = d + 1 /\ d \in Parse(t, c)
    BY PlaceholderPair
  <1>3. j \in (i + 2)..Len(t) /\ Braces(t, j, "}") /\ IsIdent(Name(t, i, j)) /\ Braces(t, c, "{")
    BY <1>1, <1>2, ParseParts
  <1>4. PICK a \in Int, b \in Int : Framed(t, i + 2, j - 1, a, b)
    BY <1>3, NameIsFramed
  <1>5. \A k \in (i + 2)..(j - 1) : t[k] \in NameCharacters
    BY <1>4, FramedCharacters
  <1>6. /\ t[c] = "{" /\ t[c + 1] = "{" /\ t[j] = "}" /\ t[j + 1] = "}"
        /\ "{" \notin NameCharacters
    BY <1>3 DEF Braces, NameCharacters
  <1>7. i + 2 <= j - 1
    BY <1>4 DEF Framed
  <1>8. ASSUME i < c, ~ (j + 1 < c) PROVE FALSE
    <2>1. \/ c + 1 = i + 2
          \/ c \in (i + 2)..(j - 1)
          \/ c = j \/ c = j + 1
      BY <1>7, <1>8
    <2>2. i + 2 \in (i + 2)..(j - 1)
      BY <1>7
    <2> QED
      BY <1>5, <1>6, <2>1, <2>2
  <1>9. ASSUME i = c PROVE p = q
    <2>1. j = d
      BY <1>1, <1>2, <1>9, ParseOnce
    <2> QED
      BY <1>1, <1>2, <1>9, <2>1
  <1> QED
    BY <1>1, <1>2, <1>8, <1>9

-----------------------------------------------------------------------------
(* interpolate.                                                            *)

Names(p) == NamesBetween(input.of, p[1] + 2, p[2] - 2)

\* Behind the current character every placeholder is expanded, none names a
\* list, and the rest is copied; no placeholder has been entered in its middle.
ExpandedSoFar ==
    LET t == input.of IN
    /\ at \in 1..(Len(t) + 1)
    /\ \A p \in Placeholders(t) : p[1] < at => p[2] < at /\ Names(p) \cap ListNames = {}
    /\ expanded = {p \in Placeholders(t) : p[1] < at}
    /\ copied = {k \in 1..(at - 1) : \A p \in expanded : k \notin p[1]..p[2]}

KnownTemplate ==
    input.kind = "template" =>
        /\ input.of \in Seq(Classes)
        /\ result = "none" => ExpandedSoFar

LEMMA KnownTemplateInit == Init => KnownTemplate
  <1> SUFFICES ASSUME Init, input.kind = "template" PROVE KnownTemplate
    BY DEF KnownTemplate
  <1> DEFINE t == input.of
  <1>1. t \in Seq(Classes) /\ at = 1 /\ expanded = {} /\ copied = {}
    BY LiteralsAssumption DEF Init
  <1>2. \A p \in Placeholders(t) : ~ (p[1] < at)
    <2> SUFFICES ASSUME NEW p \in Placeholders(t) PROVE ~ (p[1] < at)
      OBVIOUS
    <2>1. p[1] \in 1..Len(t)
      BY <1>1, PlaceholderPair
    <2> QED
      BY <1>1, <2>1
  <1>3. at \in 1..(Len(t) + 1) /\ copied = {k \in 1..(at - 1) : \A p \in expanded : k \notin p[1]..p[2]}
    BY <1>1
  <1> HIDE DEF t
  <1> QED
    BY <1>1, <1>2, <1>3 DEF KnownTemplate, ExpandedSoFar, t

LEMMA ExpandStep ==
    ASSUME KnownTemplate, EveryPlaceholderExpands, Expand
    PROVE  KnownTemplate' /\ EveryPlaceholderExpands'
  <1> DEFINE t == input.of
             P == Placeholders(t)
  <1>1. /\ t \in Seq(Classes) /\ at \in 1..Len(t) /\ ExpandedSoFar
        /\ input.kind = "template" /\ result = "none" /\ input' = input
    <2>1. /\ t \in Seq(Classes) /\ ExpandedSoFar /\ at <= Len(t)
          /\ input.kind = "template" /\ result = "none" /\ input' = input
      BY DEF Expand, AtTemplate, KnownTemplate
    <2>2. at \in Int /\ at >= 1 /\ Len(t) \in Nat
      BY <2>1 DEF ExpandedSoFar
    <2> QED
      BY <2>1, <2>2
  <1>2. PICK j \in Parse(t, at) :
            IF Name(t, at, j) \in ListNames
            THEN result' = "error" /\ UNCHANGED <<at, expanded>>
            ELSE /\ at' = j + 2
                 /\ expanded' = expanded \cup {<<at, j + 1>>}
                 /\ UNCHANGED result
    BY DEF Expand
  <1>3. j \in (at + 2)..Len(t) /\ j + 1 \in 1..Len(t) /\ j \in Int
    <2>1. j \in Closes(t, at + 2)
      BY DEF Parse
    <2>2. j \in (at + 2)..Len(t)
      BY <2>1 DEF Closes
    <2>3. j \in Int
      BY <2>2
    <2> QED
      BY <1>1, <2>3, ParseParts
  <1> DEFINE q == <<at, j + 1>>
  <1>4. q \in P /\ q[1] = at /\ q[2] = j + 1 /\ Names(q) = {Name(t, at, j)}
    <2>1. q \in P /\ NamesBetween(t, at + 2, j - 1) = {Name(t, at, j)}
      BY <1>1, <1>3, ParseFinds, PlaceholderName
    <2>2. (j + 1) - 2 = j - 1
      BY <1>3
    <2> QED
      BY <2>1, <2>2 DEF Names
  <1>5. CASE Name(t, at, j) \in ListNames
    <2>1. result' = "error"
      BY <1>2, <1>5
    <2>2. \E p \in P : Names(p) \cap ListNames # {}
      BY <1>4, <1>5
    <2>3. EveryPlaceholderExpands'
      BY <1>1, <2>1, <2>2 DEF EveryPlaceholderExpands, Names
    <2> QED
      BY <1>1, <2>1, <2>3 DEF KnownTemplate
  <1>6. CASE Name(t, at, j) \notin ListNames
    <2>1. at' = j + 2 /\ expanded' = expanded \cup {q} /\ result' = "none" /\ copied' = copied
      BY <1>1, <1>2, <1>6 DEF Expand
    <2>2. ASSUME NEW p \in P
          PROVE  /\ p[1] < j + 2 <=> p[1] < at \/ p = q
                 /\ p[1] < j + 2 => p[2] < j + 2 /\ Names(p) \cap ListNames = {}
      <3>1. p[1] \in Int /\ p[2] \in Int
        BY <1>1, PlaceholderPair
      <3>2. /\ at < p[1] => j + 1 < p[1]
            /\ at = p[1] => q = p
        BY <1>1, <1>4, PlaceholdersApart
      <3>3. p = q => p[1] = at /\ p[2] = j + 1 /\ Names(p) \cap ListNames = {}
        BY <1>4, <1>6
      <3>4. p[1] < at => p[2] < at /\ Names(p) \cap ListNames = {}
        BY <1>1 DEF ExpandedSoFar
      <3> HIDE DEF q, P
      <3> QED
        BY <1>1, <1>3, <3>1, <3>2, <3>3, <3>4
    <2>3. expanded' = {p \in P : p[1] < at'}
      BY <1>1, <1>4, <2>1, <2>2 DEF ExpandedSoFar
    <2>4. copied' = {k \in 1..(at' - 1) : \A p \in expanded' : k \notin p[1]..p[2]}
      <3>1. ASSUME NEW k \in 1..(at - 1)
            PROVE  /\ k \in 1..(at' - 1) /\ k \notin q[1]..q[2]
        BY <1>1, <1>3, <1>4, <2>1
      <3>2. ASSUME NEW k \in 1..(at' - 1), k \notin 1..(at - 1) PROVE k \in q[1]..q[2]
        BY <1>1, <1>3, <1>4, <2>1, <3>2
      <3>3. copied = {k \in 1..(at - 1) : \A p \in expanded : k \notin p[1]..p[2]}
        BY <1>1 DEF ExpandedSoFar
      <3> HIDE DEF q
      <3> QED
        BY <2>1, <3>1, <3>2, <3>3
    <2>5. at' \in 1..(Len(t) + 1)
      BY <1>1, <1>3, <2>1
    <2>6. \A p \in P : p[1] < at' => p[2] < at' /\ Names(p) \cap ListNames = {}
      BY <2>1, <2>2
    <2> HIDE DEF t
    <2>7. ExpandedSoFar'
      BY <1>1, <2>3, <2>4, <2>5, <2>6 DEF ExpandedSoFar, Names, t
    <2>8. KnownTemplate'
      BY <1>1, <2>1, <2>7 DEF KnownTemplate, t
    <2> QED
      BY <2>1, <2>8 DEF EveryPlaceholderExpands
  <1> QED
    BY <1>5, <1>6

LEMMA CopyStep ==
    ASSUME KnownTemplate, EveryPlaceholderExpands, Copy
    PROVE  KnownTemplate' /\ EveryPlaceholderExpands'
  <1> DEFINE t == input.of
             P == Placeholders(t)
  <1>1. /\ t \in Seq(Classes) /\ at \in 1..Len(t) /\ ExpandedSoFar
        /\ input.kind = "template" /\ result = "none" /\ input' = input
    <2>1. /\ t \in Seq(Classes) /\ ExpandedSoFar /\ at <= Len(t)
          /\ input.kind = "template" /\ result = "none" /\ input' = input
      BY DEF Copy, AtTemplate, KnownTemplate
    <2>2. at \in Int /\ at >= 1 /\ Len(t) \in Nat
      BY <2>1 DEF ExpandedSoFar
    <2> QED
      BY <2>1, <2>2
  <1>2. /\ Parse(t, at) = {} /\ at' = at + 1 /\ copied' = copied \cup {at}
        /\ expanded' = expanded /\ result' = "none"
    BY <1>1 DEF Copy
  <1>3. ASSUME NEW p \in P
        PROVE  /\ p[1] < at + 1 <=> p[1] < at
               /\ p[1] < at => p[2] < at /\ Names(p) \cap ListNames = {}
               /\ p[1] \in Int /\ p[2] \in Int
    <2>1. PICK i \in 1..Len(t), j \in Int : p = <<i, j + 1>> /\ p[1] = i /\ p[2] = j + 1 /\ j \in Parse(t, i)
      BY <1>1, PlaceholderPair
    <2>2. i # at
      BY <1>2, <2>1
    <2>3. p[1] < at => p[2] < at /\ Names(p) \cap ListNames = {}
      BY <1>1 DEF ExpandedSoFar
    <2> QED
      BY <1>1, <2>1, <2>2, <2>3
  <1>4. expanded' = {p \in P : p[1] < at'}
    BY <1>1, <1>2, <1>3 DEF ExpandedSoFar
  <1>5. copied' = {k \in 1..(at' - 1) : \A p \in expanded' : k \notin p[1]..p[2]}
    <2>1. \A p \in expanded : at \notin p[1]..p[2]
      BY <1>1, <1>3 DEF ExpandedSoFar
    <2>2. 1..(at' - 1) = 1..(at - 1) \cup {at}
      BY <1>1, <1>2
    <2>3. copied = {k \in 1..(at - 1) : \A p \in expanded : k \notin p[1]..p[2]}
      BY <1>1 DEF ExpandedSoFar
    <2> QED
      BY <1>2, <2>1, <2>2, <2>3
  <1>6. at' \in 1..(Len(t) + 1)
    BY <1>1, <1>2
  <1>7. \A p \in P : p[1] < at' => p[2] < at' /\ Names(p) \cap ListNames = {}
    <2> SUFFICES ASSUME NEW p \in P, p[1] < at' PROVE p[2] < at' /\ Names(p) \cap ListNames = {}
      OBVIOUS
    <2>1. p[1] < at /\ p[2] < at /\ p[2] \in Int /\ Names(p) \cap ListNames = {}
      BY <1>2, <1>3
    <2> QED
      BY <1>1, <1>2, <2>1
  <1> HIDE DEF t
  <1>8. ExpandedSoFar'
    BY <1>1, <1>4, <1>5, <1>6, <1>7 DEF ExpandedSoFar, Names, t
  <1>9. KnownTemplate'
    BY <1>1, <1>2, <1>8 DEF KnownTemplate, t
  <1> QED
    BY <1>2, <1>9 DEF EveryPlaceholderExpands

LEMMA ExpandedStep ==
    ASSUME KnownTemplate, EveryPlaceholderExpands, Expanded
    PROVE  KnownTemplate' /\ EveryPlaceholderExpands'
  <1> DEFINE t == input.of
             P == Placeholders(t)
  <1>1. /\ t \in Seq(Classes) /\ at = Len(t) + 1 /\ ExpandedSoFar
        /\ input.kind = "template" /\ input' = input
        /\ result' = "ok" /\ at' = at /\ expanded' = expanded /\ copied' = copied
    <2>1. /\ t \in Seq(Classes) /\ ExpandedSoFar /\ at > Len(t)
          /\ input.kind = "template" /\ input' = input
          /\ result' = "ok" /\ at' = at /\ expanded' = expanded /\ copied' = copied
      BY DEF Expanded, KnownTemplate
    <2>2. at \in 1..(Len(t) + 1) /\ Len(t) \in Nat
      BY <2>1 DEF ExpandedSoFar
    <2> QED
      BY <2>1, <2>2
  <1>2. ASSUME NEW p \in P PROVE p[1] < at /\ Names(p) \cap ListNames = {}
    <2>1. p[1] \in 1..Len(t)
      BY <1>1, PlaceholderPair
    <2>2. p[1] < at
      BY <1>1, <2>1
    <2> QED
      BY <1>1, <2>2 DEF ExpandedSoFar
  <1>3. expanded = P
    BY <1>1, <1>2 DEF ExpandedSoFar
  <1>4. copied = {k \in 1..Len(t) : \A p \in expanded : k \notin p[1]..p[2]}
    <2>1. at - 1 = Len(t)
      BY <1>1
    <2> QED
      BY <1>1, <2>1 DEF ExpandedSoFar
  <1> HIDE DEF t
  <1> QED
    BY <1>1, <1>2, <1>3, <1>4 DEF EveryPlaceholderExpands, KnownTemplate, Names, t

LEMMA TemplateStep ==
    ASSUME KnownTemplate, EveryPlaceholderExpands, [Next]_vars
    PROVE  KnownTemplate' /\ EveryPlaceholderExpands'
  <1>1. CASE Expand
    BY <1>1, ExpandStep
  <1>2. CASE Copy
    BY <1>2, CopyStep
  <1>3. CASE Expanded
    BY <1>3, ExpandedStep
  <1>4. CASE Compare \/ Keep \/ StepBack \/ Cut
    <2>1. input.kind # "template" /\ input' = input
      BY <1>4 DEF Compare, Keep, StepBack, Cut, AtText
    <2> QED
      BY <2>1 DEF KnownTemplate, EveryPlaceholderExpands
  <1>5. CASE Ended \/ UNCHANGED vars
    <2>1. UNCHANGED <<input, at, expanded, copied, result>>
      BY <1>5 DEF Ended, vars
    <2> QED
      BY <2>1 DEF KnownTemplate, EveryPlaceholderExpands, ExpandedSoFar, Names
  <1> QED
    BY <1>1, <1>2, <1>3, <1>4, <1>5 DEF Next

\* In a template of any length, placeholders that follow each other and braces
\* in any order are told apart: each placeholder is expanded, each other
\* character copied, and a list is an error wherever it is named.
THEOREM PlaceholdersExpand == Spec => []EveryPlaceholderExpands
  <1>1. Init => EveryPlaceholderExpands
    BY DEF Init, EveryPlaceholderExpands
  <1> QED
    BY <1>1, KnownTemplateInit, TemplateStep, PTL DEF Spec
=============================================================================
