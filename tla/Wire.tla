-------------------------------- MODULE Wire ---------------------------------
(***************************************************************************)
(* The notation in which Encoder and Decoder describe the layout of a      *)
(* program in binary.rs, and the few definitions that its write_ and read_ *)
(* functions share.  Each side has its own tables of fields, translated    *)
(* from its own functions: that they agree is what Codec checks.           *)
(*                                                                         *)
(* A byte is a digit below Radix.  A string or a payload is a sequence of  *)
(* bytes; u8, u16 and u32 are numbers, a u64 is kept as its eight digits.  *)
(***************************************************************************)
EXTENDS Integers, Sequences

CONSTANTS
    Radix,     \* the values of a byte, 256
    Magic,     \* MAGIC, "RUSO"
    Version,   \* VERSION
    Utf8(_),   \* are these bytes UTF-8?
    None       \* an absent Option

ASSUME WireAssumption ==
    /\ Radix \in Nat /\ Radix > 23   \* a byte holds every tag
    /\ Magic \in Seq(0..(Radix - 1)) /\ Len(Magic) = 4
    /\ Version \in 0..(Radix - 1)

-----------------------------------------------------------------------------
(* Types on the wire.                                                      *)
U16 == <<"u16">>
U32 == <<"u32">>
U64 == <<"u64">>
Bool == <<"bool">>
Str == <<"str">>
Bytes == <<"bytes">>
Opt(type) == <<"opt", type>>
List(type) == <<"list", type>>        \* a u32 count, then the elements
Table(type) == <<"table", type>>      \* a list of pairs, kept by their keys
Struct(name) == <<"struct", name>>    \* fields, one after the other
Union(name) == <<"union", name>>      \* a u8 tag, then the fields of its arm
Enum(name) == <<"enum", name>>        \* a u8 tag
MagicBytes == <<"magic">>
VersionByte == <<"version">>
File == <<"file">>                    \* magic, version and the program

\* The bytes that a value of each kind has at least, before what they announce.
Width == [magic |-> 4, version |-> 1, u16 |-> 2, u32 |-> 4, u64 |-> 8, bool |-> 1, str |-> 4,
          bytes |-> 4, opt |-> 1, list |-> 4, table |-> 4, struct |-> 0, union |-> 1, enum |-> 1]

\* The fields of an arm, and of a struct, are (name, type) pairs in order.
Arm(label, fields) == [label |-> label, fields |-> fields]
FieldNames(fields) == {fields[k][1] : k \in DOMAIN fields}

\* Only an instruction calls its tag `op`.
TagName(union) == IF union = "instr" THEN "op" ELSE "tag"

-----------------------------------------------------------------------------
(* The OP_ constants; 18 was removed and is reserved.                      *)
OpCode == [Set |-> 1, Send |-> 2, Match |-> 3, MatchAll |-> 4, MatchAny |-> 5,
           Assert |-> 6, Extract |-> 7, IfMatch |-> 8, Save |-> 9, Evidence |-> 10,
           Retry |-> 11, RetryDelay |-> 12, Sleep |-> 13, Stop |-> 14, Fail |-> 15,
           Continue |-> 16, Exit |-> 17, LoopBack |-> 19, Break |-> 20,
           SetList |-> 21, ForList |-> 22, ForVar |-> 23]
=============================================================================
