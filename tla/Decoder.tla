------------------------------- MODULE Decoder -------------------------------
(***************************************************************************)
(* decode of binary.rs: the Reader, and the read_ functions as tables of   *)
(* what each reads, in order.  A call reads what stands in front of its    *)
(* parts, its head, then calls the read_ function of each part and makes   *)
(* its value of what they return; the calls that have not returned are the *)
(* stack `reads`.  It is the stack of the thread, and objects may stand in *)
(* objects: what the stack has room for is a constant, and a call too many *)
(* ends the process.                                                       *)
(***************************************************************************)
EXTENDS Wire, FiniteSets

CONSTANT MaxNested   \* the calls of read_body_value that the stack has room for

ASSUME StackAssumption == MaxNested \in Nat

\* validate_program: Validate.
INSTANCE Operands

VARIABLES
    bytes,    \* Reader.data
    pos,      \* Reader.pos
    reads,    \* the calls that have not returned: [type, head, parts, read]
    outcome   \* none, ok, why decode returned an error, or overflow: it did not return

vars == <<bytes, pos, reads, outcome>>

-----------------------------------------------------------------------------
(* What the read_ functions read.                                          *)
\* Fault: two fields of one type are read in the wrong order.
SocketFieldsSwapped == << <<"host", Str>>, <<"port", Opt(U16)>>, <<"payload", Opt(Bytes)>>,
    <<"session", Bool>>, <<"tls", Bool>>, <<"read_max", U32>>, <<"read_idle_ms", U32>> >>

SocketFields == << <<"host", Str>>, <<"port", Opt(U16)>>, <<"payload", Opt(Bytes)>>,
    <<"tls", Bool>>, <<"session", Bool>>, <<"read_max", U32>>, <<"read_idle_ms", U32>> >>

MetadataFields == <<
    <<"name", Opt(Str)>>, <<"description", Opt(Str)>>, <<"impact", Opt(Str)>>,
    <<"severity", Opt(Enum("severity"))>>, <<"author", Opt(Str)>>, <<"cve", List(Str)>>,
    <<"cwe", List(Str)>>, <<"references", List(Str)>>, <<"cvss", List(Str)>>,
    <<"cvss_score", List(Str)>>, <<"mitigation", Opt(Str)>>, <<"tags", List(Str)>>,
    <<"version", Opt(Str)>>, <<"family", Opt(Str)>> >>

Pairs == List(Struct("pair"))
Object == List(Struct("member"))

HttpFields == <<
    <<"method", Enum("method")>>, <<"path", Str>>, <<"timeout", Opt(Str)>>,
    <<"follow_redirect", Opt(Bool)>>, <<"verify_ssl", Opt(Bool)>>, <<"proxy", Opt(Str)>>,
    <<"user_agent", Opt(Str)>>, <<"headers", Pairs>>, <<"cookies", Pairs>>,
    <<"queries", Pairs>>, <<"data_body", Opt(Object)>>, <<"json_body", Opt(Object)>>,
    <<"raw_body", Opt(Str)>>, <<"body_bytes", Opt(Str)>>, <<"multipart_body", Opt(Object)>> >>

Sections == <<
    <<"metadata", Struct("metadata")>>, <<"probes", Table(Struct("probe"))>>,
    <<"strings", List(Str)>>, <<"payloads", List(Bytes)>>,
    <<"matchers", List(Struct("matcher"))>>, <<"extracts", List(Union("extract"))>>,
    <<"evidence", List(Union("evidence"))>>, <<"code", List(Union("instr"))>> >>

MatcherFields == << <<"target", Str>>, <<"kind", Union("field_kind")>>,
                    <<"predicate", Union("predicate")>> >>

ReadFields(struct) ==
    CASE struct = "program"  -> Sections
      [] struct = "metadata" -> MetadataFields
      [] struct = "probe"    -> << <<"key", Str>>, <<"value", Union("probe_kind")>> >>
      [] struct = "socket"   -> SocketFields
      [] struct = "http"     -> HttpFields
      [] struct = "pair"     -> << <<"key", Str>>, <<"value", Str>> >>
      [] struct = "member"   -> << <<"key", Str>>, <<"value", Union("body_value")>> >>
      [] struct = "matcher"  -> MatcherFields
      [] OTHER -> << >>

ReadSeverity == <<"Low", "Medium", "High", "Critical", "Info">>
ReadHttpMethod == <<"Get", "Post", "Put", "Patch", "Delete", "Head", "Options">>
ReadCmpOp == <<"Eq", "Ne", "Lt", "Gt", "Le", "Ge">>

Labels(enum) ==
    CASE enum = "severity" -> ReadSeverity
      [] enum = "method" -> ReadHttpMethod
      [] enum = "cmp_op" -> ReadCmpOp

\* read_instr, by the opcode.
ReadOperands(op) ==
    CASE op = "Set"     -> << <<"name", U32>>, <<"value", U32>> >>
      [] op = "SetList" -> << <<"name", U32>>, <<"start", U32>>, <<"len", U16>> >>
      [] op = "Send"    -> << <<"probe", U32>>, <<"payload", Opt(U32)>> >>
      [] op \in {"Match", "Assert"} -> << <<"matcher", U32>> >>
      [] op \in {"MatchAll", "MatchAny"} -> << <<"start", U32>>, <<"len", U16>> >>
      [] op = "Extract" -> << <<"name", U32>>, <<"source", U32>> >>
      [] op = "IfMatch" -> << <<"matcher", U32>>, <<"else_pc", U32>> >>
      [] op = "ForList" -> << <<"item", U32>>, <<"start", U32>>, <<"len", U16>>,
                              <<"end_pc", U32>> >>
      [] op = "ForVar"  -> << <<"item", U32>>, <<"list", U32>>, <<"end_pc", U32>> >>
      [] op = "Save"    -> << <<"from", U32>>, <<"to", U32>> >>
      [] op = "Evidence" -> << <<"evidence", U32>> >>
      [] op = "Retry"   -> << <<"probe", U32>>, <<"count", U32>> >>
      [] op \in {"RetryDelay", "Sleep"} -> << <<"value", U32>> >>
      [] OTHER -> << >>

\* A tagged union whose tags count from 0.
FromZero(arms) == [tag \in 0..(Len(arms) - 1) |-> arms[tag + 1]]

Text == << <<"text", Str>> >>

ReadProbeKind == FromZero(<<
    Arm("Http", << <<"spec", Struct("http")>> >>),
    Arm("Dns", << <<"spec", Struct("socket")>> >>),
    Arm("Tcp", << <<"spec", Struct("socket")>> >>),
    Arm("Udp", << <<"spec", Struct("socket")>> >>) >>)

ReadBodyValue == FromZero(<<
    Arm("String", Text), Arm("Interpolation", Text),
    Arm("Object", << <<"pairs", Object>> >>), Arm("Bytes", Text),
    Arm("Part", << <<"filename", Opt(Str)>>, <<"body", Union("part_body")>> >>) >>)

\* Every tag but 1 is a text.
ReadPartBody == [tag \in 0..(Radix - 1) |-> Arm(IF tag = 1 THEN "Bytes" ELSE "Text", Text)]

ReadFieldKind == FromZero(<<
    Arm("Status", << >>), Arm("Body", << >>), Arm("Header", << <<"name", Str>> >>),
    Arm("ResponseTime", << >>), Arm("ResponseSize", << >>), Arm("Answer", << >>),
    Arm("Banner", << >>), Arm("Response", << >>) >>)

ReadPredicate == FromZero(<<
    Arm("Compare", << <<"op", Enum("cmp_op")>>, <<"value", Union("cmp_value")>> >>),
    Arm("Contains", Text), Arm("NotContains", Text), Arm("Regex", Text) >>)

ReadCmpValue == FromZero(<<
    Arm("Number", << <<"number", U64>> >>), Arm("String", Text), Arm("Duration", Text) >>)

ReadExtract == FromZero(<<
    Arm("Body", << <<"target", Str>>, <<"regex", Opt(Str)>> >>),
    Arm("Header", << <<"target", Str>>, <<"name", Str>> >>) >>)

ReadEvidenceKind == FromZero(<<
    Arm("Body", << <<"target", Str>>, <<"pattern", Opt(Str)>> >>),
    Arm("Response", << <<"target", Str>>, <<"pattern", Opt(Str)>> >>),
    Arm("Header", << <<"target", Str>>, <<"name", Str>>, <<"pattern", Opt(Str)>> >>) >>)

ReadInstr ==
    [tag \in {OpCode[op] : op \in DOMAIN OpCode} |->
        LET op == CHOOSE o \in DOMAIN OpCode : OpCode[o] = tag IN Arm(op, ReadOperands(op))]

\* The arms that a read_ function tells apart by the tag it reads.
ReadArms(union) ==
    CASE union = "probe_kind" -> ReadProbeKind
      [] union = "body_value" -> ReadBodyValue
      [] union = "part_body"  -> ReadPartBody
      [] union = "field_kind" -> ReadFieldKind
      [] union = "predicate"  -> ReadPredicate
      [] union = "cmp_value"  -> ReadCmpValue
      [] union = "extract"    -> ReadExtract
      [] union = "evidence"   -> ReadEvidenceKind
      [] union = "instr"      -> ReadInstr
      [] OTHER -> FromZero(<< >>)

FileTypes == <<MagicBytes, VersionByte, Struct("program")>>

\* The types of the parts of a value, as its head tells them.
PartTypes(type, head) ==
    LET kind == type[1]
        fields == IF kind = "union" THEN ReadArms(type[2])[head].fields ELSE ReadFields(type[2]) IN
    CASE kind = "file" -> FileTypes
      [] kind = "opt" -> IF head = 0 THEN << >> ELSE <<type[2]>>
      [] kind \in {"list", "table"} -> [k \in 1..head |-> type[2]]
      [] kind \in {"struct", "union"} -> [k \in DOMAIN fields |-> fields[k][2]]
      [] OTHER -> << >>

-----------------------------------------------------------------------------
(* The Reader.                                                             *)
Remaining == Len(bytes) - pos
Slice(from, n) == SubSeq(bytes, from + 1, from + n)

\* from_le_bytes, of up to four bytes.
Number(data) ==
    LET digit(k) == IF k <= Len(data) THEN data[k] ELSE 0 IN
    digit(1) + Radix * (digit(2) + Radix * (digit(3) + Radix * digit(4)))

ReadCall(type, head) ==
    [type |-> type, head |-> head, parts |-> PartTypes(type, head), read |-> << >>]

\* decode, before it reads.
Start == <<ReadCall(File, 0)>>

Init(input) ==
    /\ bytes = input
    /\ pos = 0
    /\ reads = Start
    /\ outcome = "none"

\* The call whose parts are being read, and the type of its next part.
Reading == reads[Len(reads)]
Type == Reading.parts[Len(Reading.read) + 1]

InParts == outcome = "none" /\ reads # << >> /\ Len(Reading.read) < Len(Reading.parts)
Reads(kinds) == InParts /\ Type[1] \in kinds

Enter(head, n) ==
    /\ reads' = Append(reads, ReadCall(Type, head))
    /\ pos' = pos + n
    /\ UNCHANGED <<bytes, outcome>>
Error(why) == outcome' = why /\ UNCHANGED <<bytes, pos, reads>>

\* need
Fits(n) == pos + n <= Len(bytes)

\* What the next part needs at its start: a text, a list and a table their u32.
Need == Width[Type[1]]

\* read_object calls read_body_value and is called by it, to any depth.
Nested(calls) == Cardinality({d \in DOMAIN calls : calls[d].type = Union("body_value")})
StackFull == Type = Union("body_value") /\ Nested(reads) >= MaxNested

\* The call comes before anything is read.
Overflow == InParts /\ StackFull /\ Error("overflow")

UnexpectedEnd == InParts /\ ~ StackFull /\ ~ Fits(Need) /\ Error("corrupt")

\* consume_magic
ReadMagic ==
    /\ Reads({"magic"}) /\ Fits(4)
    /\ IF Slice(pos, 4) = Magic THEN Enter(Magic, 4) ELSE Error("bad_magic")

\* Fault: the version is not compared.
ReadVersionUnchecked == Reads({"version"}) /\ Fits(1) /\ Enter(Version, 1)

ReadVersion ==
    /\ Reads({"version"}) /\ Fits(1)
    /\ IF bytes[pos + 1] = Version THEN Enter(Version, 1) ELSE Error("bad_version")

ReadNumber == Reads({"u16", "u32"}) /\ Fits(Need) /\ Enter(Number(Slice(pos, Need)), Need)

ReadU64 == Reads({"u64"}) /\ Fits(8) /\ Enter(Slice(pos, 8), 8)

ReadBool == Reads({"bool"}) /\ Fits(1) /\ Enter(bytes[pos + 1] # 0, 1)

\* str, and the bytes of opt_bytes and read_payloads.
ReadText ==
    /\ Reads({"str", "bytes"}) /\ Fits(4)
    /\ LET len == Number(Slice(pos, 4))
           data == Slice(pos + 4, len) IN
       IF len > Remaining - 4 \/ (Type[1] = "str" /\ ~ Utf8(data))
       THEN Error("corrupt")
       ELSE Enter(data, 4 + len)

\* opt_str, opt_bytes, opt_u16, read_opt_bool, read_opt_object and their like.
ReadOption == Reads({"opt"}) /\ Fits(1) /\ Enter(bytes[pos + 1], 1)

ReadEnum ==
    /\ Reads({"enum"}) /\ Fits(1)
    /\ LET labels == Labels(Type[2])
           tag == bytes[pos + 1] IN
       IF tag < Len(labels) THEN Enter(labels[tag + 1], 1) ELSE Error("corrupt")

ReadUnion ==
    /\ Reads({"union"}) /\ ~ StackFull /\ Fits(1)
    /\ IF bytes[pos + 1] \in DOMAIN ReadArms(Type[2])
       THEN Enter(bytes[pos + 1], 1)
       ELSE Error("corrupt")

\* Fault: the count is believed.
BoundedNever(count) == count \in Nat

\* bounded_count, asked before the elements are reserved.
Bounded(count) == count <= Remaining - 4

ReadList ==
    /\ Reads({"list", "table"}) /\ Fits(4)
    /\ LET count == Number(Slice(pos, 4)) IN
       IF Bounded(count) THEN Enter(count, 4) ELSE Error("corrupt")

ReadStruct == Reads({"struct"}) /\ Enter(0, 0)

-----------------------------------------------------------------------------
(* The values that the read_ functions return.                             *)
FieldRead(fields, read, name) == read[CHOOSE k \in DOMAIN fields : fields[k][1] = name]

Record(fields, read) == [f \in FieldNames(fields) |-> FieldRead(fields, read, f)]

Tagged(union, arm, read) ==
    [f \in FieldNames(arm.fields) \cup {TagName(union)} |->
        IF f = TagName(union) THEN arm.label ELSE FieldRead(arm.fields, read, f)]

\* A later pair replaces an earlier one of the same name.
Indexed(pairs) ==
    [key \in {pairs[k].key : k \in DOMAIN pairs} |->
        pairs[CHOOSE k \in DOMAIN pairs :
                  /\ pairs[k].key = key
                  /\ \A j \in DOMAIN pairs : pairs[j].key = key => j <= k].value]

\* What a call makes of its head and of the values of its parts.
Made(type, head, read) ==
    LET kind == type[1] IN
    CASE kind = "file" -> read[3]
      [] kind = "opt" -> IF head = 0 THEN None ELSE read[1]
      [] kind = "list" -> read
      [] kind = "table" -> Indexed(read)
      [] kind = "struct" -> Record(ReadFields(type[2]), read)
      [] kind = "union" -> Tagged(type[2], ReadArms(type[2])[head], read)
      [] OTHER -> head

AllRead == outcome = "none" /\ reads # << >> /\ Len(Reading.read) = Len(Reading.parts)

Return ==
    /\ AllRead /\ Len(reads) > 1
    /\ LET n == Len(reads) - 1
           value == Made(Reading.type, Reading.head, Reading.read) IN
       reads' = [SubSeq(reads, 1, n) EXCEPT ![n].read = Append(@, value)]
    /\ UNCHANGED <<bytes, pos, outcome>>

-----------------------------------------------------------------------------
\* The program that decode has read.
Program == Made(File, 0, reads[1].read)
Valid(p) == Validate([p EXCEPT !.payloads = Len(p.payloads)])

\* Fault: what follows the program is not looked at.
AcceptableLoosely == Valid(Program)
Acceptable == Remaining = 0 /\ Valid(Program)

\* decode, after read_code.
Conclude ==
    /\ AllRead /\ Len(reads) = 1
    /\ Error(IF Acceptable THEN "ok" ELSE "corrupt")

Step ==
    \/ UnexpectedEnd \/ ReadMagic \/ ReadVersion \/ ReadNumber \/ ReadU64 \/ ReadBool
    \/ ReadText \/ ReadOption \/ ReadEnum \/ ReadUnion \/ ReadList \/ ReadStruct
    \/ Overflow \/ Return \/ Conclude

\* decode on any input.
Decoding == (\E input \in Seq(0..(Radix - 1)) : Init(input)) /\ [][Step]_vars

-----------------------------------------------------------------------------
(* Properties.                                                             *)

\* binary.rs:100, "no out-of-buffer reads and no OOM allocations": the reader never
\* passes the end, and each list it makes room for has at most as many elements as
\* the input has bytes.  The bound is one of elements, list by list: an element
\* takes more room in memory than a byte, and a list inside another reserves its
\* own.
ReadsFit ==
    /\ pos <= Len(bytes)
    /\ \A d \in DOMAIN reads :
          reads[d].type[1] \in {"list", "table"} => reads[d].head <= Len(bytes)

\* binary.rs:5, "rejecting anything else up front with BadVersion (never a cryptic
\* mid-decode Corrupt)": the version decides before the rest is read.
VersionFirst ==
    (outcome # "none" /\ Len(bytes) > 4 /\ SubSeq(bytes, 1, 4) = Magic) =>
        (outcome = "bad_version" <=> bytes[5] # Version)

\* binary.rs:106, "A malicious or corrupt `.rbc` [...] must surface as a clean
\* `Corrupt` error, not a panic", and :108, "the 'untrusted bytecode is safe to
\* decode' guarantee holds end to end".  So decode gives an answer, a program or
\* an error, on whatever it reads.
DecodeAnswers == outcome # "overflow"
=============================================================================
