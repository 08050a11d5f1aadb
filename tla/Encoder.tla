------------------------------- MODULE Encoder -------------------------------
(***************************************************************************)
(* encode of binary.rs: the write_ functions as tables of what each        *)
(* writes, in order, and the Writer.  A call writes what stands in front   *)
(* of its parts, then calls the write_ function of each part; the calls    *)
(* that have not returned are the stack `writes`.                          *)
(***************************************************************************)
EXTENDS Wire, FiniteSets

VARIABLES
    out,      \* the Writer's bytes
    writes    \* the calls that have not returned: [type, value, parts, next]

-----------------------------------------------------------------------------
(* What the write_ functions write.                                        *)
WriteSections == <<
    <<"metadata", Struct("metadata")>>, <<"probes", Table(Struct("probe"))>>,
    <<"strings", List(Str)>>, <<"payloads", List(Bytes)>>,
    <<"matchers", List(Struct("matcher"))>>, <<"extracts", List(Union("extract"))>>,
    <<"evidence", List(Union("evidence"))>>, <<"code", List(Union("instr"))>> >>

WriteMetadata == <<
    <<"name", Opt(Str)>>, <<"description", Opt(Str)>>, <<"impact", Opt(Str)>>,
    <<"severity", Opt(Enum("severity"))>>, <<"author", Opt(Str)>>,
    <<"cve", List(Str)>>, <<"cwe", List(Str)>>, <<"references", List(Str)>>,
    <<"cvss", List(Str)>>, <<"cvss_score", List(Str)>>, <<"mitigation", Opt(Str)>>,
    <<"tags", List(Str)>>, <<"version", Opt(Str)>>, <<"family", Opt(Str)>> >>

WriteSocketProbe == <<
    <<"host", Str>>, <<"port", Opt(U16)>>, <<"payload", Opt(Bytes)>>, <<"tls", Bool>>,
    <<"session", Bool>>, <<"read_max", U32>>, <<"read_idle_ms", U32>> >>

WriteHttpSpec == <<
    <<"method", Enum("method")>>, <<"path", Str>>, <<"timeout", Opt(Str)>>,
    <<"follow_redirect", Opt(Bool)>>, <<"verify_ssl", Opt(Bool)>>,
    <<"proxy", Opt(Str)>>, <<"user_agent", Opt(Str)>>,
    <<"headers", List(Struct("pair"))>>, <<"cookies", List(Struct("pair"))>>,
    <<"queries", List(Struct("pair"))>>, <<"data_body", Opt(List(Struct("member")))>>,
    <<"json_body", Opt(List(Struct("member")))>>, <<"raw_body", Opt(Str)>>,
    <<"body_bytes", Opt(Str)>>, <<"multipart_body", Opt(List(Struct("member")))>> >>

WriteHeader == << <<"key", Str>>, <<"value", Str>> >>

WriteMember == << <<"key", Str>>, <<"value", Union("body_value")>> >>

\* An entry of the table that write_probes writes.
WriteProbe == << <<"key", Str>>, <<"value", Union("probe_kind")>> >>

WriteMatcher == << <<"target", Str>>, <<"kind", Union("field_kind")>>,
                   <<"predicate", Union("predicate")>> >>

WriteFields(struct) ==
    CASE struct = "program" -> WriteSections
      [] struct = "metadata" -> WriteMetadata
      [] struct = "probe" -> WriteProbe
      [] struct = "socket" -> WriteSocketProbe
      [] struct = "http" -> WriteHttpSpec
      [] struct = "pair" -> WriteHeader
      [] struct = "member" -> WriteMember
      [] struct = "matcher" -> WriteMatcher

WriteSeverity == <<"Low", "Medium", "High", "Critical", "Info">>
WriteHttpMethod == <<"Get", "Post", "Put", "Patch", "Delete", "Head", "Options">>
WriteCmpOp == <<"Eq", "Ne", "Lt", "Gt", "Le", "Ge">>

WriteLabels(enum) ==
    CASE enum = "severity" -> WriteSeverity
      [] enum = "method" -> WriteHttpMethod
      [] enum = "cmp_op" -> WriteCmpOp

\* An arm that is one text, or nothing but its tag.
WriteText(label) == Arm(label, << <<"text", Str>> >>)
WriteTag(label) == Arm(label, << >>)

\* The arms of each union in the order of their tags, from 0.
WriteProbeKind == <<
    Arm("Http", << <<"spec", Struct("http")>> >>), Arm("Dns", << <<"spec", Struct("socket")>> >>),
    Arm("Tcp", << <<"spec", Struct("socket")>> >>),
    Arm("Udp", << <<"spec", Struct("socket")>> >>) >>

WriteBodyValue == <<
    WriteText("String"), WriteText("Interpolation"),
    Arm("Object", << <<"pairs", List(Struct("member"))>> >>), WriteText("Bytes"),
    Arm("Part", << <<"filename", Opt(Str)>>, <<"body", Union("part_body")>> >>) >>

WritePartBody == << WriteText("Text"), WriteText("Bytes") >>

WriteFieldKind == <<
    WriteTag("Status"), WriteTag("Body"), Arm("Header", << <<"name", Str>> >>),
    WriteTag("ResponseTime"), WriteTag("ResponseSize"), WriteTag("Answer"),
    WriteTag("Banner"), WriteTag("Response") >>

WritePredicate == <<
    Arm("Compare", << <<"op", Enum("cmp_op")>>, <<"value", Union("cmp_value")>> >>),
    WriteText("Contains"), WriteText("NotContains"), WriteText("Regex") >>

WriteCmpValue == <<
    Arm("Number", << <<"number", U64>> >>), WriteText("String"), WriteText("Duration") >>

WriteExtract == <<
    Arm("Body", << <<"target", Str>>, <<"regex", Opt(Str)>> >>),
    Arm("Header", << <<"target", Str>>, <<"name", Str>> >>) >>

WriteEvidenceKind == <<
    Arm("Body", << <<"target", Str>>, <<"pattern", Opt(Str)>> >>),
    Arm("Response", << <<"target", Str>>, <<"pattern", Opt(Str)>> >>),
    Arm("Header", << <<"target", Str>>, <<"name", Str>>, <<"pattern", Opt(Str)>> >>) >>

WriteArms(union) ==
    CASE union = "probe_kind" -> WriteProbeKind
      [] union = "body_value" -> WriteBodyValue
      [] union = "part_body" -> WritePartBody
      [] union = "field_kind" -> WriteFieldKind
      [] union = "predicate" -> WritePredicate
      [] union = "cmp_value" -> WriteCmpValue
      [] union = "extract" -> WriteExtract
      [] union = "evidence" -> WriteEvidenceKind

\* write_instr, after the opcode.
WriteOperands(op) ==
    CASE op = "Set"       -> << <<"name", U32>>, <<"value", U32>> >>
      [] op = "SetList"   -> << <<"name", U32>>, <<"start", U32>>, <<"len", U16>> >>
      [] op = "Send"      -> << <<"probe", U32>>, <<"payload", Opt(U32)>> >>
      [] op = "Match"     -> << <<"matcher", U32>> >>
      [] op = "MatchAll"  -> << <<"start", U32>>, <<"len", U16>> >>
      [] op = "MatchAny"  -> << <<"start", U32>>, <<"len", U16>> >>
      [] op = "Assert"    -> << <<"matcher", U32>> >>
      [] op = "Extract"   -> << <<"name", U32>>, <<"source", U32>> >>
      [] op = "IfMatch"   -> << <<"matcher", U32>>, <<"else_pc", U32>> >>
      [] op = "ForList"   -> << <<"item", U32>>, <<"start", U32>>, <<"len", U16>>,
                                <<"end_pc", U32>> >>
      [] op = "ForVar"    -> << <<"item", U32>>, <<"list", U32>>, <<"end_pc", U32>> >>
      [] op = "Save"      -> << <<"from", U32>>, <<"to", U32>> >>
      [] op = "Evidence"  -> << <<"evidence", U32>> >>
      [] op = "Retry"     -> << <<"probe", U32>>, <<"count", U32>> >>
      [] op = "RetryDelay" -> << <<"value", U32>> >>
      [] op = "Sleep"     -> << <<"value", U32>> >>
      [] OTHER -> << >>

-----------------------------------------------------------------------------
(* The Writer.                                                             *)
\* to_le_bytes of a number of up to four bytes; a length is cut to its u32.
LittleEndian(n, width) ==
    LET second == n \div Radix
        third == second \div Radix
        fourth == third \div Radix IN
    SubSeq(<<n % Radix, second % Radix, third % Radix, fourth % Radix>>, 1, width)

IndexOf(labels, label) == CHOOSE k \in DOMAIN labels : labels[k] = label

\* The arm of a value, and its tag.
WriteArm(union, v) ==
    IF union = "instr" THEN Arm(v.op, WriteOperands(v.op))
    ELSE LET arms == WriteArms(union) IN
         arms[CHOOSE k \in DOMAIN arms : arms[k].label = v.tag]
WriteTagOf(union, v) ==
    IF union = "instr" THEN OpCode[v.op]
    ELSE LET arms == WriteArms(union) IN
         (CHOOSE k \in DOMAIN arms : arms[k].label = v.tag) - 1

\* What a call writes before its parts.
Front(type, v) ==
    LET kind == type[1] IN
    CASE kind = "magic" -> Magic
      [] kind = "version" -> <<Version>>
      [] kind \in {"u16", "u32"} -> LittleEndian(v, Width[kind])
      [] kind = "u64" -> v
      [] kind = "bool" -> IF v THEN <<1>> ELSE <<0>>
      [] kind \in {"str", "bytes"} -> LittleEndian(Len(v), 4) \o v
      [] kind = "opt" -> IF v = None THEN <<0>> ELSE <<1>>
      [] kind = "list" -> LittleEndian(Len(v), 4)
      [] kind = "table" -> LittleEndian(Cardinality(DOMAIN v), 4)
      [] kind = "enum" -> <<IndexOf(WriteLabels(type[2]), v) - 1>>
      [] kind = "union" -> <<WriteTagOf(type[2], v)>>
      [] kind \in {"struct", "file"} -> << >>

\* Names are sorted byte by byte.
Before(a, b) ==
    /\ a # b
    /\ \/ Len(a) <= Len(b) /\ SubSeq(b, 1, Len(a)) = a
       \/ \E k \in DOMAIN a \cap DOMAIN b :
             SubSeq(a, 1, k - 1) = SubSeq(b, 1, k - 1) /\ a[k] < b[k]
Sorted(names) ==
    {row \in [1..Cardinality(names) -> names] :
        /\ \A n \in names : \E k \in DOMAIN row : row[k] = n
        /\ \A j, k \in DOMAIN row : j < k => Before(row[j], row[k])}

\* The parts of a value, each with its type.
FieldParts(fields, v) == [k \in DOMAIN fields |-> <<fields[k][2], v[fields[k][1]]>>]
FileParts(program) ==
    << <<MagicBytes, Magic>>, <<VersionByte, Version>>, <<Struct("program"), program>> >>

\* One way for most values; a table has one for each sorted row of its names.
Parts(type, v) ==
    LET kind == type[1] IN
    CASE kind = "file" -> {FileParts(v)}
      [] kind = "opt" -> {IF v = None THEN << >> ELSE << <<type[2], v>> >>}
      [] kind = "list" -> {[k \in DOMAIN v |-> <<type[2], v[k]>>]}
      [] kind = "table" ->
            {[k \in DOMAIN row |-> <<type[2], [key |-> row[k], value |-> v[row[k]]]>>] :
                row \in Sorted(DOMAIN v)}
      [] kind = "struct" -> {FieldParts(WriteFields(type[2]), v)}
      [] kind = "union" -> {FieldParts(WriteArm(type[2], v).fields, v)}
      [] OTHER -> {<< >>}

WriteCall(type, v, parts) == [type |-> type, value |-> v, parts |-> parts, next |-> 0]

\* encode, before it writes.
Begun(program) == <<WriteCall(File, program, FileParts(program))>>

Writing == writes[Len(writes)]

WritePart ==
    /\ writes # << >> /\ Writing.next < Len(Writing.parts)
    /\ LET type == Writing.parts[Writing.next + 1][1]
           v == Writing.parts[Writing.next + 1][2] IN
       /\ out' = out \o Front(type, v)
       /\ \E parts \in Parts(type, v) : writes' = Append(writes, WriteCall(type, v, parts))

WriteReturns ==
    /\ Len(writes) > 1 /\ Writing.next = Len(Writing.parts)
    /\ LET n == Len(writes) - 1 IN
       writes' = [SubSeq(writes, 1, n) EXCEPT ![n].next = @ + 1]
    /\ UNCHANGED out

\* encode returns its bytes.
Encoded == Len(writes) = 1 /\ Writing.next = Len(Writing.parts)
=============================================================================
