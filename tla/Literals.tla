------------------------------ MODULE Literals -------------------------------
(***************************************************************************)
(* What the runtime makes of single strings: interpolate.rs expands the    *)
(* placeholders of a template, duration.rs and the comparisons of          *)
(* matcher.rs read the number or duration that a value is compared with,   *)
(* util.rs cuts a text between two of its characters.                      *)
(*                                                                         *)
(* A template is a sequence of character classes, a literal its numeral    *)
(* and the letters behind it, a text the offsets between its characters.   *)
(***************************************************************************)
EXTENDS Integers, FiniteSetsExt, SequencesExt

CONSTANTS
    Templates,   \* the templates to expand
    ListNames,   \* the names that are bound to a list
    Comparisons, \* the comparisons to make
    Texts,       \* the texts to cut
    MaxU64,      \* u64::MAX
    Second,      \* milliseconds in a second
    SecondsIn    \* seconds in one of each unit from s to d

Classes == {"{", "}", "letter", "digit", "blank"}
Units == {<<"s">>, <<"m">>, <<"h">>, <<"d">>}
Operators == {"Eq", "Ne", "Lt", "Gt", "Le", "Ge"}

\* Behind a numeral: the letters of the units, and "x" for all other characters.
Characters == {"m", "s", "h", "d", "x"}

\* The field of the response, what was measured of it, and the literal.
Comparison ==
    [field : {"number", "duration"}, actual : 0..MaxU64, op : Operators,
     value : [tag : {"Number", "String", "Duration"}, numeral : Nat, letters : Seq(Characters)]]

\* 0 and the length of the text are between characters too.
Text == [boundaries : SUBSET Nat, length : Nat, max_len : Nat]

ASSUME LiteralsAssumption ==
    /\ Templates \subseteq Seq(Classes)
    /\ MaxU64 \in Nat /\ Second \in Nat \ {0}
    /\ SecondsIn \in [Units -> Nat \ {0}]
    /\ Comparisons \subseteq Comparison
    /\ Texts \subseteq Text
    /\ \A t \in Texts : /\ {0, t.length} \subseteq t.boundaries
                        /\ t.boundaries \subseteq 0..t.length

VARIABLES
    input,     \* [kind, of]: what is read
    at,        \* the character of a template, or the end of a cut
    expanded,  \* the placeholders expanded so far, by their first and last character
    copied,    \* the characters copied so far
    result     \* "none", "ok", "true", "false" or "error"

vars == <<input, at, expanded, copied, result>>

Init ==
    /\ input \in [kind : {"template"}, of : Templates]
                 \cup [kind : {"comparison"}, of : Comparisons]
                 \cup [kind : {"text"}, of : Texts]
    /\ at = IF input.kind = "text" THEN input.of.max_len ELSE 1
    /\ expanded = {}
    /\ copied = {}
    /\ result = "none"

-----------------------------------------------------------------------------
(* interpolate: one character or one placeholder after the other.          *)
Braces(t, i, brace) == i \in 1..(Len(t) - 1) /\ t[i] = brace /\ t[i + 1] = brace

\* rest.find("}}"): the first closing braces from i on.
Closes(t, i) ==
    {j \in i..Len(t) : Braces(t, j, "}") /\ \A k \in i..(j - 1) : ~ Braces(t, k, "}")}

Trim(s) ==
    LET shown == {k \in DOMAIN s : s[k] # "blank"} IN
    IF shown = {} THEN << >> ELSE SubSeq(s, Min(shown), Max(shown))

IsIdent(s) == s # << >> /\ s[1] = "letter" /\ \A k \in DOMAIN s : s[k] \in {"letter", "digit"}

\* What stands between the braces at i and the closing ones at j.
Name(t, i, j) == Trim(SubSeq(t, i + 2, j - 1))

\* parse_placeholder: the closing braces of the placeholder that opens at i.
Parse(t, i) == {j \in Closes(t, i + 2) : Braces(t, i, "{") /\ IsIdent(Name(t, i, j))}

AtTemplate == input.kind = "template" /\ result = "none" /\ at <= Len(input.of)

\* resolve_scalar; the value is not looked at again.
Expand ==
    /\ AtTemplate
    /\ \E j \in Parse(input.of, at) :
          IF Name(input.of, at, j) \in ListNames
          THEN result' = "error" /\ UNCHANGED <<at, expanded>>
          ELSE /\ at' = j + 2
               /\ expanded' = expanded \cup {<<at, j + 1>>}
               /\ UNCHANGED result
    /\ UNCHANGED <<input, copied>>

\* Fault: braces that open no placeholder are passed together.
CopyBraces ==
    /\ AtTemplate
    /\ Parse(input.of, at) = {}
    /\ at' = IF Braces(input.of, at, "{") THEN at + 2 ELSE at + 1
    /\ copied' = copied \cup at..(at' - 1)
    /\ UNCHANGED <<input, expanded, result>>

Copy ==
    /\ AtTemplate
    /\ Parse(input.of, at) = {}
    /\ at' = at + 1
    /\ copied' = copied \cup {at}
    /\ UNCHANGED <<input, expanded, result>>

Expanded ==
    /\ input.kind = "template" /\ result = "none" /\ at > Len(input.of)
    /\ result' = "ok"
    /\ UNCHANGED <<input, at, expanded, copied>>

-----------------------------------------------------------------------------
(* parse_duration, compare_number and compare_duration_ms.                 *)
AtMost(m, n) == IF m < n THEN m ELSE n

\* No number.
Refused == -1

\* Fault: the shorter suffix is tried first.
UnitOrderShortFirst == << <<"s">>, <<"m">>, <<"m", "s">>, <<"h">>, <<"d">> >>

\* split_suffix
UnitOrder == << <<"m", "s">>, <<"s">>, <<"m">>, <<"h">>, <<"d">> >>

Unit(letters) ==
    LET fits == {k \in DOMAIN UnitOrder : IsSuffix(UnitOrder[k], letters)} IN
    IF fits = {} THEN << >> ELSE UnitOrder[Min(fits)]

\* A number of 64 bits with nothing behind it.
ParseU64(numeral, rest) == IF numeral <= MaxU64 /\ rest = << >> THEN numeral ELSE Refused

\* In milliseconds; the seconds saturate.
ParseDuration(value) ==
    LET unit == Unit(value.letters)
        rest == SubSeq(value.letters, 1, Len(value.letters) - Len(unit))
        count == ParseU64(value.numeral, rest) IN
    IF unit = << >> \/ count = Refused THEN Refused
    ELSE IF unit = <<"m", "s">> THEN count
    ELSE AtMost(count * SecondsIn[unit], MaxU64) * Second

\* The value that is compared with; as_millis() as u64 wraps.
ExpectedNumber(value) ==
    IF value.tag = "Duration" THEN Refused ELSE ParseU64(value.numeral, value.letters)

ExpectedMillis(value) ==
    IF value.tag = "Number" THEN ParseU64(value.numeral, value.letters)
    ELSE IF ParseDuration(value) = Refused THEN Refused
    ELSE ParseDuration(value) % (MaxU64 + 1)

Holds(actual, op, expected) ==
    CASE op = "Eq" -> actual = expected
      [] op = "Ne" -> actual # expected
      [] op = "Lt" -> actual < expected
      [] op = "Gt" -> actual > expected
      [] op = "Le" -> actual <= expected
      [] op = "Ge" -> actual >= expected

Compare ==
    /\ input.kind = "comparison" /\ result = "none"
    /\ LET c == input.of
           expected == IF c.field = "number" THEN ExpectedNumber(c.value)
                       ELSE ExpectedMillis(c.value) IN
       result' = IF expected = Refused THEN "error"
                 ELSE IF Holds(c.actual, c.op, expected) THEN "true" ELSE "false"
    /\ UNCHANGED <<input, at, expanded, copied>>

-----------------------------------------------------------------------------
(* truncate_str: the cut moves back to the end of a character.             *)
AtText == input.kind = "text" /\ result = "none"

Keep ==
    /\ AtText /\ input.of.length <= input.of.max_len
    /\ at' = input.of.length
    /\ result' = "ok"
    /\ UNCHANGED <<input, expanded, copied>>

StepBack ==
    /\ AtText /\ input.of.length > input.of.max_len
    /\ at > 0 /\ at \notin input.of.boundaries
    /\ at' = at - 1
    /\ UNCHANGED <<input, expanded, copied, result>>

\* Fault: the text is cut where max_len falls.
CutInside ==
    /\ AtText /\ input.of.length > input.of.max_len
    /\ result' = "ok"
    /\ UNCHANGED <<input, at, expanded, copied>>

Cut ==
    /\ AtText /\ input.of.length > input.of.max_len
    /\ at = 0 \/ at \in input.of.boundaries
    /\ result' = "ok"
    /\ UNCHANGED <<input, at, expanded, copied>>

-----------------------------------------------------------------------------
Ended == result # "none" /\ UNCHANGED vars

Next == Expand \/ Copy \/ Expanded \/ Compare \/ Keep \/ StepBack \/ Cut \/ Ended

Spec == Init /\ [][Next]_vars

-----------------------------------------------------------------------------
(* Properties.                                                             *)

\* The name that stands between i and j with nothing but blanks around it.
NamesBetween(t, i, j) ==
    {SubSeq(t, p[1], p[2]) : p \in
        {q \in (i..j) \X (i..j) :
            /\ \A k \in i..(q[1] - 1) : t[k] = "blank"
            /\ \A k \in (q[2] + 1)..j : t[k] = "blank"
            /\ q[1] <= q[2] /\ t[q[1]] = "letter"
            /\ \A k \in q[1]..q[2] : t[k] \in {"letter", "digit"}}}

\* The placeholders of a template, by their first and last character.
Placeholders(t) ==
    {p \in (1..Len(t)) \X (1..Len(t)) :
        /\ Braces(t, p[1], "{") /\ Braces(t, p[2] - 1, "}")
        /\ NamesBetween(t, p[1] + 2, p[2] - 2) # {}}

\* Every placeholder of a template is expanded, however braces and placeholders
\* follow each other, unless one names a list; every other character is copied.
EveryPlaceholderExpands ==
    (input.kind = "template" /\ result # "none") =>
        LET t == input.of
            lists == {p \in Placeholders(t) :
                         NamesBetween(t, p[1] + 2, p[2] - 2) \cap ListNames # {}} IN
        /\ result = "error" <=> lists # {}
        /\ result = "ok" =>
              /\ expanded = Placeholders(t)
              /\ copied = {k \in 1..Len(t) : \A p \in expanded : k \notin p[1]..p[2]}

\* The number a value stands for.
IsNumber(c) == c.value.letters = << >> /\ c.value.tag # "Duration"
IsDuration(c) == IF c.value.tag = "Number" THEN c.value.letters = << >>
                 ELSE c.value.letters \in Units \cup {<<"m", "s">>}
Written(c) ==
    IF c.value.letters \in Units
    THEN c.value.numeral * SecondsIn[c.value.letters] * Second
    ELSE c.value.numeral

\* A comparison is with the number or the duration that the literal writes, as
\* far as 64 bits hold its milliseconds; beyond that the conversion wraps.  A
\* literal of the other kind, or with another suffix, is an error.
ComparesAsWritten ==
    (input.kind = "comparison" /\ result # "none") =>
        LET c == input.of
            accepted == /\ IF c.field = "number" THEN IsNumber(c) ELSE IsDuration(c)
                        /\ c.value.numeral <= MaxU64 IN
        /\ result = "error" <=> ~ accepted
        /\ (accepted /\ Written(c) <= MaxU64) =>
              (result = "true" <=> Holds(c.actual, c.op, Written(c)))

\* A cut text is the longest one of whole characters within max_len.
CutIsWhole ==
    (input.kind = "text" /\ result # "none") =>
        LET t == input.of IN
        /\ at \in t.boundaries /\ at <= t.max_len
        /\ \A b \in t.boundaries : b <= t.max_len => b <= at
=============================================================================
