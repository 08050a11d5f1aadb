-------------------------------- MODULE Codec --------------------------------
(***************************************************************************)
(* A program on its way through the wire format of binary.rs: it is        *)
(* encoded, its bytes may be damaged where they are kept, they are         *)
(* decoded, and a program that decode accepts may be encoded once more.    *)
(***************************************************************************)
EXTENDS Decoder, Encoder

CONSTANTS
    Sources,   \* the programs that are encoded
    Values,    \* the values they are made of, each with its type
    Damages    \* bound: the values that damage gives to a byte

-----------------------------------------------------------------------------
(* What the Rust types of the fields hold.                                 *)
Two == Radix * Radix
Four == Radix * (Radix * (Radix * Radix))

IsText(v) == v \in Seq(0..(Radix - 1)) /\ Len(v) < Four

\* A sequence or a record, of whatever elements.
IsRow(v) == Len(v) \in 0..(Four - 1) /\ v = [k \in 1..Len(v) |-> v[k]]
IsRecord(v, names) == v = [f \in names |-> v[f]]

Holds(type, v) ==
    LET kind == type[1] IN
    CASE kind = "magic" -> v = Magic
      [] kind = "version" -> v = Version
      [] kind = "u16" -> v \in 0..(Two - 1)
      [] kind = "u32" -> v \in 0..(Four - 1)
      [] kind = "u64" -> v \in Seq(0..(Radix - 1)) /\ Len(v) = 8
      [] kind = "bool" -> v \in BOOLEAN
      [] kind = "str" -> IsText(v) /\ Utf8(v)
      [] kind = "bytes" -> IsText(v)
      [] kind = "list" -> IsRow(v)
      [] kind = "table" -> /\ IsRecord(v, DOMAIN v)
                           /\ IsFiniteSet(DOMAIN v) /\ Cardinality(DOMAIN v) < Four
      [] kind = "enum" -> \E k \in DOMAIN WriteLabels(type[2]) : v = WriteLabels(type[2])[k]
      [] kind = "struct" -> IsRecord(v, FieldNames(WriteFields(type[2])))
      [] kind = "union" ->
            /\ IF type[2] = "instr" THEN v.op \in DOMAIN OpCode
               ELSE \E k \in DOMAIN WriteArms(type[2]) : WriteArms(type[2])[k].label = v.tag
            /\ IsRecord(v, FieldNames(WriteArm(type[2], v).fields) \cup {TagName(type[2])})
      [] OTHER -> TRUE

\* Values whose parts, and their parts, hold what their types do.
Typed(values) ==
    \A x \in values :
        /\ Holds(x[1], x[2])
        /\ \A parts \in Parts(x[1], x[2]) : \A k \in DOMAIN parts : parts[k] \in values

ASSUME CodecAssumption ==
    /\ Typed(Values)
    /\ \A s \in Sources : <<File, s>> \in Values
    /\ Damages \subseteq 0..(Radix - 1)

-----------------------------------------------------------------------------
VARIABLES
    source,    \* the program that was encoded last
    change,    \* "first" or "again" until it is encoded, then what happened to its bytes
    deepest    \* history: how deep write_body_value has called itself

codecVars == <<vars, out, writes, source, change, deepest>>

\* One byte gets another value, the tail is lost, or a byte is added.
Damage(data) ==
    {<<"none", data>>}
    \cup {<<"cut", SubSeq(data, 1, n)>> : n \in 0..(Len(data) - 1)}
    \cup {<<"longer", Append(data, b)>> : b \in Damages}
    \cup {<<"flip", [data EXCEPT ![k] = b]>> : k \in DOMAIN data, b \in Damages}

CodecInit ==
    /\ source \in Sources
    /\ change = "first"
    /\ out = << >> /\ writes = Begun(source)
    /\ bytes = << >> /\ pos = 0 /\ reads = << >> /\ outcome = "none"
    /\ deepest = 0

\* The writer's stack is taken to have the room it needs.
Encode ==
    /\ WritePart \/ WriteReturns
    /\ deepest' = IF Nested(writes') > deepest THEN Nested(writes') ELSE deepest
    /\ UNCHANGED <<vars, source, change>>

\* encode has returned its bytes; those of a second time are kept without damage.
Keep ==
    /\ Encoded
    /\ \E damaged \in IF change = "first" THEN Damage(out) ELSE {<<"none", out>>} :
          /\ change' = damaged[1]
          /\ bytes' = damaged[2]
    /\ out' = << >> /\ writes' = << >>
    /\ reads' = Start
    /\ UNCHANGED <<pos, outcome, source, deepest>>

Decode == Step /\ UNCHANGED <<out, writes, source, change, deepest>>

\* A program that was accepted is encoded as it is.
EncodeAgain ==
    /\ outcome = "ok" /\ change = "flip"
    /\ source' = Program
    /\ change' = "again"
    /\ out' = << >> /\ writes' = Begun(Program)
    /\ bytes' = << >> /\ pos' = 0 /\ reads' = << >> /\ outcome' = "none"
    /\ deepest' = 0

Ended == outcome # "none" /\ UNCHANGED codecVars

CodecNext == Encode \/ Keep \/ Decode \/ EncodeAgain \/ Ended

Spec == CodecInit /\ [][CodecNext]_codecVars

-----------------------------------------------------------------------------
(* Properties.                                                             *)

\* What encode writes, decode reads back, section by section and field by
\* field, unless its objects nest deeper than the stack has room for; only
\* operands that leave their pools make it refuse.  This includes every program
\* that decode accepted from damaged bytes: flags other than 0 and 1, repeated
\* probe names and unknown part tags come back as the same program.
RoundTrip ==
    (change = "none" /\ outcome # "none") =>
        \/ outcome = "overflow" /\ deepest > MaxNested
        \/ IF Valid(source)
           THEN outcome = "ok" /\ Program = source
           ELSE outcome = "corrupt"

\* No beginning of an encoded program, and nothing longer, is a program.
NoTruncation == change \in {"cut", "longer"} => outcome # "ok"
=============================================================================
