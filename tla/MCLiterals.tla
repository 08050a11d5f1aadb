----------------------------- MODULE MCLiterals ------------------------------
(***************************************************************************)
(* Every template of up to five characters, and rows of up to five braces, *)
(* names and whole placeholders; comparisons around the ends of four bits  *)
(* that stand for 64; every cut of texts of up to six bytes.               *)
(***************************************************************************)
EXTENDS Literals

UpTo(n, S) == UNION {[1..k -> S] : k \in 0..n}

Open == <<"{", "{">>
Close == <<"}", "}">>
NameA == <<"letter">>
NameList == <<"letter", "digit">>
Pieces == {<<"{">>, <<"}">>, Open, Close, NameA, <<"blank">>, Open \o NameA \o Close,
           Open \o <<"blank">> \o NameList \o <<"blank">> \o Close}
MCTemplates == UpTo(5, Classes) \cup {FlattenSeq(row) : row \in UpTo(5, Pieces)}
MCListNames == {NameList}

\* Units of one, two, three and four seconds; a second of two milliseconds.
MCSecondsIn == [u \in Units |-> CASE u = <<"s">> -> 1 [] u = <<"m">> -> 2
                                  [] u = <<"h">> -> 3 [] u = <<"d">> -> 4]
Letters == Units \cup {<< >>, <<"m", "s">>, <<"s", "m">>, <<"x">>}
Values == [tag : {"String", "Duration"}, numeral : 0..17, letters : Letters]
          \cup [tag : {"Number"}, numeral : 0..15, letters : {<< >>}]
MCComparisons == [field : {"number", "duration"}, actual : {0, 4, 7, 8, 15}, op : Operators,
                  value : Values]

MCTexts == {[boundaries |-> b \cup {0, n}, length |-> n, max_len |-> m] :
               n \in 0..6, m \in 0..7, b \in SUBSET (1..5)}
WholeTexts == {t \in MCTexts : t.boundaries \subseteq 0..t.length}
=============================================================================
