----------------------------- MODULE WireProofs ------------------------------
(***************************************************************************)
(* What the tables of Encoder and those of Decoder have to do with each    *)
(* other, for every program and every value: the reader finds its way by   *)
(* what the writer puts first, expects the parts that are written, makes   *)
(* the value of them that was written, and makes of whatever it reads a    *)
(* value that can be written.                                              *)
(***************************************************************************)
EXTENDS Codec, SequenceTheorems, FiniteSetTheorems, WellFoundedInduction, TLAPS

Byte == 0..(Radix - 1)

Structs == {"program", "metadata", "probe", "socket", "http", "pair", "member", "matcher"}
Enums == {"severity", "method", "cmp_op"}
Unions == {"probe_kind", "body_value", "part_body", "field_kind", "predicate", "cmp_value",
           "extract", "evidence", "instr"}

\* The types that the tables of the reader lead to.
ValueTypes == {U16, U32, U64, Bool, Str, Bytes, Enum("severity"), Enum("method"), Enum("cmp_op")}
OptionTypes == {U16, U32, Bool, Str, Bytes, Enum("severity"), List(Struct("member"))}
ElementTypes == {Str, Bytes, Struct("pair"), Struct("member"), Struct("matcher"),
                 Union("extract"), Union("evidence"), Union("instr")}
BodyTypes == ValueTypes \cup {Table(Struct("probe"))}
             \cup {Struct(s) : s \in Structs} \cup {Union(u) : u \in Unions}
             \cup {Opt(t) : t \in OptionTypes} \cup {List(t) : t \in ElementTypes}

\* With what stands before the program, and the types of all calls: a file is no
\* part of anything.
PlainTypes == {MagicBytes, VersionByte} \cup ValueTypes
WireTypes == {MagicBytes, VersionByte} \cup BodyTypes
CallTypes == WireTypes \cup {File}

-----------------------------------------------------------------------------
(* The tables.                                                             *)

\* Fields that differ in their names and have types of the wire format.
GoodFields(fields) ==
    /\ Len(fields) \in Nat /\ DOMAIN fields = 1..Len(fields)
    /\ \A k \in DOMAIN fields : fields[k][2] \in BodyTypes
    /\ \A j, k \in DOMAIN fields : fields[j][1] = fields[k][1] => j = k

\* Both sides have the same fields in the same order, struct by struct.
LEMMA FieldsOfStructs == \A s \in Structs : WriteFields(s) = ReadFields(s)
  <1>1. WriteSections = Sections /\ WriteMetadata = MetadataFields /\ WriteSocketProbe = SocketFields
        /\ WriteHttpSpec = HttpFields /\ WriteMatcher = MatcherFields
    BY DEF WriteSections, Sections, WriteMetadata, MetadataFields, WriteSocketProbe, SocketFields,
           WriteHttpSpec, HttpFields, Pairs, Object, WriteMatcher, MatcherFields
  <1> QED
    BY <1>1 DEF WriteFields, ReadFields, Structs, WriteHeader, WriteMember, WriteProbe

\* Both sides number the labels of an enum alike.
LEMMA LabelsOfEnums == \A e \in Enums : WriteLabels(e) = Labels(e)
  BY DEF WriteLabels, Labels, Enums, WriteSeverity, ReadSeverity, WriteHttpMethod, ReadHttpMethod,
         WriteCmpOp, ReadCmpOp

\* Both sides have the same operands in the same order, op by op.
LEMMA OperandsOfOps == \A op \in DOMAIN OpCode : WriteOperands(op) = ReadOperands(op)
  BY DEF WriteOperands, ReadOperands, OpCode

\* Which types the tables lead to.
LEMMA TypesOnWire ==
    /\ ValueTypes \subseteq BodyTypes
    /\ \A s \in Structs : Struct(s) \in BodyTypes
    /\ \A u \in Unions : Union(u) \in BodyTypes
    /\ \A t \in OptionTypes : Opt(t) \in BodyTypes /\ t \in BodyTypes
    /\ \A t \in ElementTypes : List(t) \in BodyTypes /\ t \in BodyTypes
    /\ Table(Struct("probe")) \in BodyTypes
  BY DEF BodyTypes, OptionTypes, ElementTypes, ValueTypes, Structs, Unions

\* They are all on the wire, and so are magic and version.
LEMMA BodyOnWire == BodyTypes \subseteq WireTypes /\ PlainTypes \subseteq WireTypes
  BY TypesOnWire DEF WireTypes, PlainTypes

\* The fields of each struct differ in their names, and have types of the wire format.
LEMMA MetadataFieldsGood == GoodFields(MetadataFields)
  <1> DEFINE fields == MetadataFields
  <1>1. Len(fields) = 14 /\ DOMAIN fields = 1..14
    BY DEF MetadataFields
  <1>2. /\ fields[1] = <<"name", Opt(Str)>>
        /\ fields[2] = <<"description", Opt(Str)>>
        /\ fields[3] = <<"impact", Opt(Str)>>
        /\ fields[4] = <<"severity", Opt(Enum("severity"))>>
        /\ fields[5] = <<"author", Opt(Str)>>
        /\ fields[6] = <<"cve", List(Str)>>
        /\ fields[7] = <<"cwe", List(Str)>>
        /\ fields[8] = <<"references", List(Str)>>
        /\ fields[9] = <<"cvss", List(Str)>>
        /\ fields[10] = <<"cvss_score", List(Str)>>
        /\ fields[11] = <<"mitigation", Opt(Str)>>
        /\ fields[12] = <<"tags", List(Str)>>
        /\ fields[13] = <<"version", Opt(Str)>>
        /\ fields[14] = <<"family", Opt(Str)>>
    BY DEF MetadataFields
  <1>3. {Opt(Str), Opt(Enum("severity")), List(Str)} \subseteq BodyTypes
    BY TypesOnWire DEF OptionTypes, ElementTypes, ValueTypes, Structs, Pairs, Object
  <1>4. \A k \in 1..14 : k \in {1, 2, 3, 4, 5, 6, 7, 8, 9, 10, 11, 12, 13, 14}
    OBVIOUS
  <1> HIDE DEF fields
  <1>5. \A k \in DOMAIN fields : fields[k][2] \in BodyTypes
    BY <1>1, <1>2, <1>3, <1>4
  <1>6. \A j, k \in DOMAIN fields : fields[j][1] = fields[k][1] => j = k
    BY <1>1, <1>2, <1>4
  <1>7. Len(fields) \in Nat /\ DOMAIN fields = 1..Len(fields)
    BY <1>1
  <1>8. GoodFields(fields)
    BY <1>5, <1>6, <1>7 DEF GoodFields
  <1> QED
    BY <1>8 DEF fields

\* Those of a socket probe.
LEMMA SocketFieldsGood == GoodFields(SocketFields)
  <1> DEFINE fields == SocketFields
  <1>1. Len(fields) = 7 /\ DOMAIN fields = 1..7
    BY DEF SocketFields
  <1>2. /\ fields[1] = <<"host", Str>>
        /\ fields[2] = <<"port", Opt(U16)>>
        /\ fields[3] = <<"payload", Opt(Bytes)>>
        /\ fields[4] = <<"tls", Bool>>
        /\ fields[5] = <<"session", Bool>>
        /\ fields[6] = <<"read_max", U32>>
        /\ fields[7] = <<"read_idle_ms", U32>>
    BY DEF SocketFields
  <1>3. {Str, Opt(U16), Opt(Bytes), Bool, U32} \subseteq BodyTypes
    BY TypesOnWire DEF OptionTypes, ElementTypes, ValueTypes, Structs, Pairs, Object
  <1>4. \A k \in 1..7 : k \in {1, 2, 3, 4, 5, 6, 7}
    OBVIOUS
  <1> HIDE DEF fields
  <1>5. \A k \in DOMAIN fields : fields[k][2] \in BodyTypes
    BY <1>1, <1>2, <1>3, <1>4
  <1>6. \A j, k \in DOMAIN fields : fields[j][1] = fields[k][1] => j = k
    BY <1>1, <1>2, <1>4
  <1>7. Len(fields) \in Nat /\ DOMAIN fields = 1..Len(fields)
    BY <1>1
  <1>8. GoodFields(fields)
    BY <1>5, <1>6, <1>7 DEF GoodFields
  <1> QED
    BY <1>8 DEF fields

\* Those of an HTTP spec.
LEMMA HttpFieldsGood == GoodFields(HttpFields)
  <1> DEFINE fields == HttpFields
  <1>1. Len(fields) = 15 /\ DOMAIN fields = 1..15
    BY DEF HttpFields
  <1>2. /\ fields[1] = <<"method", Enum("method")>>
        /\ fields[2] = <<"path", Str>>
        /\ fields[3] = <<"timeout", Opt(Str)>>
        /\ fields[4] = <<"follow_redirect", Opt(Bool)>>
        /\ fields[5] = <<"verify_ssl", Opt(Bool)>>
        /\ fields[6] = <<"proxy", Opt(Str)>>
        /\ fields[7] = <<"user_agent", Opt(Str)>>
        /\ fields[8] = <<"headers", Pairs>>
        /\ fields[9] = <<"cookies", Pairs>>
        /\ fields[10] = <<"queries", Pairs>>
        /\ fields[11] = <<"data_body", Opt(Object)>>
        /\ fields[12] = <<"json_body", Opt(Object)>>
        /\ fields[13] = <<"raw_body", Opt(Str)>>
        /\ fields[14] = <<"body_bytes", Opt(Str)>>
        /\ fields[15] = <<"multipart_body", Opt(Object)>>
    BY DEF HttpFields
  <1>3. {Enum("method"), Str, Opt(Str), Opt(Bool), Pairs, Opt(Object)} \subseteq BodyTypes
    BY TypesOnWire DEF OptionTypes, ElementTypes, ValueTypes, Structs, Pairs, Object
  <1>4. \A k \in 1..15 : k \in {1, 2, 3, 4, 5, 6, 7, 8, 9, 10, 11, 12, 13, 14, 15}
    OBVIOUS
  <1> HIDE DEF fields
  <1>5. \A k \in DOMAIN fields : fields[k][2] \in BodyTypes
    BY <1>1, <1>2, <1>3, <1>4
  <1>6. \A j, k \in DOMAIN fields : fields[j][1] = fields[k][1] => j = k
    BY <1>1, <1>2, <1>4
  <1>7. Len(fields) \in Nat /\ DOMAIN fields = 1..Len(fields)
    BY <1>1
  <1>8. GoodFields(fields)
    BY <1>5, <1>6, <1>7 DEF GoodFields
  <1> QED
    BY <1>8 DEF fields

\* Those of a program: its sections.
LEMMA SectionsGood == GoodFields(Sections)
  <1> DEFINE fields == Sections
  <1>1. Len(fields) = 8 /\ DOMAIN fields = 1..8
    BY DEF Sections
  <1>2. /\ fields[1] = <<"metadata", Struct("metadata")>>
        /\ fields[2] = <<"probes", Table(Struct("probe"))>>
        /\ fields[3] = <<"strings", List(Str)>>
        /\ fields[4] = <<"payloads", List(Bytes)>>
        /\ fields[5] = <<"matchers", List(Struct("matcher"))>>
        /\ fields[6] = <<"extracts", List(Union("extract"))>>
        /\ fields[7] = <<"evidence", List(Union("evidence"))>>
        /\ fields[8] = <<"code", List(Union("instr"))>>
    BY DEF Sections
  <1>3. {Struct("metadata"), Table(Struct("probe")), List(Str), List(Bytes),
         List(Struct("matcher")), List(Union("extract")), List(Union("evidence")),
         List(Union("instr"))} \subseteq BodyTypes
    BY TypesOnWire DEF OptionTypes, ElementTypes, ValueTypes, Structs, Pairs, Object
  <1>4. \A k \in 1..8 : k \in {1, 2, 3, 4, 5, 6, 7, 8}
    OBVIOUS
  <1> HIDE DEF fields
  <1>5. \A k \in DOMAIN fields : fields[k][2] \in BodyTypes
    BY <1>1, <1>2, <1>3, <1>4
  <1>6. \A j, k \in DOMAIN fields : fields[j][1] = fields[k][1] => j = k
    BY <1>1, <1>2, <1>4
  <1>7. Len(fields) \in Nat /\ DOMAIN fields = 1..Len(fields)
    BY <1>1
  <1>8. GoodFields(fields)
    BY <1>5, <1>6, <1>7 DEF GoodFields
  <1> QED
    BY <1>8 DEF fields

\* Those of an arm or of operands: none to four fields of different names are good.
LEMMA NoFields == GoodFields(<< >>) /\ FieldNames(<< >>) = {}
  BY DEF GoodFields, FieldNames

\* One field.
LEMMA OneField ==
    ASSUME NEW a, NEW t \in BodyTypes
    PROVE  GoodFields(<< <<a, t>> >>) /\ FieldNames(<< <<a, t>> >>) = {a}
  BY DEF GoodFields, FieldNames

\* Two fields.
LEMMA TwoFields ==
    ASSUME NEW a, NEW b, a # b, NEW t \in BodyTypes, NEW u \in BodyTypes
    PROVE  /\ GoodFields(<< <<a, t>>, <<b, u>> >>)
           /\ FieldNames(<< <<a, t>>, <<b, u>> >>) = {a, b}
  <1> DEFINE fields == << <<a, t>>, <<b, u>> >>
  <1>1. Len(fields) = 2 /\ DOMAIN fields = 1..2 /\ fields[1] = <<a, t>> /\ fields[2] = <<b, u>>
    OBVIOUS
  <1> HIDE DEF fields
  <1>2. GoodFields(fields) /\ FieldNames(fields) = {a, b}
    BY <1>1 DEF GoodFields, FieldNames
  <1> QED
    BY <1>2 DEF fields

\* Three fields.
LEMMA ThreeFields ==
    ASSUME NEW a, NEW b, NEW c, a # b, a # c, b # c,
           NEW t \in BodyTypes, NEW u \in BodyTypes, NEW w \in BodyTypes
    PROVE  /\ GoodFields(<< <<a, t>>, <<b, u>>, <<c, w>> >>)
           /\ FieldNames(<< <<a, t>>, <<b, u>>, <<c, w>> >>) = {a, b, c}
  <1> DEFINE fields == << <<a, t>>, <<b, u>>, <<c, w>> >>
  <1>1. /\ Len(fields) = 3 /\ DOMAIN fields = 1..3 /\ fields[1] = <<a, t>>
        /\ fields[2] = <<b, u>> /\ fields[3] = <<c, w>>
    OBVIOUS
  <1> HIDE DEF fields
  <1>2. GoodFields(fields) /\ FieldNames(fields) = {a, b, c}
    BY <1>1 DEF GoodFields, FieldNames
  <1> QED
    BY <1>2 DEF fields

\* Four fields.
LEMMA FourFields ==
    ASSUME NEW a, NEW b, NEW c, NEW d, a # b, a # c, b # c, a # d, b # d, c # d,
           NEW t \in BodyTypes, NEW u \in BodyTypes, NEW w \in BodyTypes, NEW x \in BodyTypes
    PROVE  /\ GoodFields(<< <<a, t>>, <<b, u>>, <<c, w>>, <<d, x>> >>)
           /\ FieldNames(<< <<a, t>>, <<b, u>>, <<c, w>>, <<d, x>> >>) = {a, b, c, d}
  <1> DEFINE fields == << <<a, t>>, <<b, u>>, <<c, w>>, <<d, x>> >>
  <1>1. /\ Len(fields) = 4 /\ DOMAIN fields = 1..4 /\ fields[1] = <<a, t>>
        /\ fields[2] = <<b, u>> /\ fields[3] = <<c, w>> /\ fields[4] = <<d, x>>
    OBVIOUS
  <1> HIDE DEF fields
  <1>2. GoodFields(fields) /\ FieldNames(fields) = {a, b, c, d}
    BY <1>1 DEF GoodFields, FieldNames
  <1> QED
    BY <1>2 DEF fields

\* So the fields of every struct are good.
LEMMA StructsGood == \A s \in Structs : GoodFields(ReadFields(s))
  <1>1. /\ GoodFields(<< <<"key", Str>>, <<"value", Str>> >>)
        /\ GoodFields(<< <<"key", Str>>, <<"value", Union("body_value")>> >>)
        /\ GoodFields(<< <<"key", Str>>, <<"value", Union("probe_kind")>> >>)
    BY TwoFields, TypesOnWire DEF ValueTypes, Unions
  <1>2. GoodFields(MatcherFields)
    BY ThreeFields, TypesOnWire DEF ValueTypes, Unions, MatcherFields
  <1> QED
    BY <1>1, <1>2, MetadataFieldsGood, SocketFieldsGood, HttpFieldsGood, SectionsGood
    DEF Structs, ReadFields

GoodArm(fields) == GoodFields(fields) /\ "tag" \notin FieldNames(fields)

\* So are the fields of every arm, none of which is called like its tag.
LEMMA ArmFields ==
    /\ GoodArm(<< >>)
    /\ GoodArm(<< <<"text", Str>> >>)
    /\ GoodArm(<< <<"spec", Struct("http")>> >>)
    /\ GoodArm(<< <<"spec", Struct("socket")>> >>)
    /\ GoodArm(<< <<"pairs", List(Struct("member"))>> >>)
    /\ GoodArm(<< <<"filename", Opt(Str)>>, <<"body", Union("part_body")>> >>)
    /\ GoodArm(<< <<"name", Str>> >>)
    /\ GoodArm(<< <<"op", Enum("cmp_op")>>, <<"value", Union("cmp_value")>> >>)
    /\ GoodArm(<< <<"number", U64>> >>)
    /\ GoodArm(<< <<"target", Str>>, <<"regex", Opt(Str)>> >>)
    /\ GoodArm(<< <<"target", Str>>, <<"name", Str>> >>)
    /\ GoodArm(<< <<"target", Str>>, <<"pattern", Opt(Str)>> >>)
    /\ GoodArm(<< <<"target", Str>>, <<"name", Str>>, <<"pattern", Opt(Str)>> >>)
  <1>1. /\ {Str, U64, Opt(Str), Struct("http"), Struct("socket"), Union("part_body"),
             Enum("cmp_op"), Union("cmp_value")} \subseteq BodyTypes
        /\ List(Struct("member")) \in BodyTypes
    BY TypesOnWire DEF OptionTypes, ElementTypes, ValueTypes, Structs, Unions
  <1>2. GoodArm(<< >>)
    BY <1>1, NoFields DEF GoodArm
  <1>3. GoodArm(<< <<"text", Str>> >>)
    BY <1>1, OneField DEF GoodArm
  <1>4. GoodArm(<< <<"spec", Struct("http")>> >>)
    BY <1>1, OneField DEF GoodArm
  <1>5. GoodArm(<< <<"spec", Struct("socket")>> >>)
    BY <1>1, OneField DEF GoodArm
  <1>6. GoodArm(<< <<"pairs", List(Struct("member"))>> >>)
    BY <1>1, OneField DEF GoodArm
  <1>7. GoodArm(<< <<"filename", Opt(Str)>>, <<"body", Union("part_body")>> >>)
    BY <1>1, TwoFields DEF GoodArm
  <1>8. GoodArm(<< <<"name", Str>> >>)
    BY <1>1, OneField DEF GoodArm
  <1>9. GoodArm(<< <<"op", Enum("cmp_op")>>, <<"value", Union("cmp_value")>> >>)
    BY <1>1, TwoFields DEF GoodArm
  <1>10. GoodArm(<< <<"number", U64>> >>)
    BY <1>1, OneField DEF GoodArm
  <1>11. GoodArm(<< <<"target", Str>>, <<"regex", Opt(Str)>> >>)
    BY <1>1, TwoFields DEF GoodArm
  <1>12. GoodArm(<< <<"target", Str>>, <<"name", Str>> >>)
    BY <1>1, TwoFields DEF GoodArm
  <1>13. GoodArm(<< <<"target", Str>>, <<"pattern", Opt(Str)>> >>)
    BY <1>1, TwoFields DEF GoodArm
  <1>14. GoodArm(<< <<"target", Str>>, <<"name", Str>>, <<"pattern", Opt(Str)>> >>)
    BY <1>1, ThreeFields DEF GoodArm
  <1> QED
    BY <1>2, <1>3, <1>4, <1>5, <1>6, <1>7, <1>8, <1>9, <1>10, <1>11, <1>12, <1>13, <1>14

\* Arms of good fields that differ in their labels.
GoodArms(arms) ==
    /\ Len(arms) \in 1..8 /\ DOMAIN arms = 1..Len(arms)
    /\ \A k \in DOMAIN arms : GoodArm(arms[k].fields)
    /\ \A j, k \in DOMAIN arms : arms[j].label = arms[k].label => j = k

\* The arms of each union differ in their labels.
LEMMA WriteProbeKindGood == GoodArms(WriteProbeKind)
  <1> DEFINE arms == WriteProbeKind
  <1>1. Len(arms) = 4 /\ DOMAIN arms = 1..4
    BY DEF WriteProbeKind
  <1>2. /\ arms[1].label = "Http" /\ arms[1].fields = << <<"spec", Struct("http")>> >>
        /\ arms[2].label = "Dns" /\ arms[2].fields = << <<"spec", Struct("socket")>> >>
        /\ arms[3].label = "Tcp" /\ arms[3].fields = << <<"spec", Struct("socket")>> >>
        /\ arms[4].label = "Udp" /\ arms[4].fields = << <<"spec", Struct("socket")>> >>
    BY DEF WriteProbeKind, Arm, WriteText, WriteTag
  <1>3. \A k \in 1..4 : k \in {1, 2, 3, 4}
    OBVIOUS
  <1> HIDE DEF arms
  <1>4. \A k \in DOMAIN arms : GoodArm(arms[k].fields)
    BY <1>1, <1>2, <1>3, ArmFields
  <1>5. \A j, k \in DOMAIN arms : arms[j].label = arms[k].label => j = k
    BY <1>1, <1>2, <1>3
  <1>6. GoodArms(arms)
    BY <1>1, <1>4, <1>5 DEF GoodArms
  <1> QED
    BY <1>6 DEF arms

\* Those of a body value.
LEMMA WriteBodyValueGood == GoodArms(WriteBodyValue)
  <1> DEFINE arms == WriteBodyValue
  <1>1. Len(arms) = 5 /\ DOMAIN arms = 1..5
    BY DEF WriteBodyValue
  <1>2. /\ arms[1].label = "String" /\ arms[1].fields = << <<"text", Str>> >>
        /\ arms[2].label = "Interpolation" /\ arms[2].fields = << <<"text", Str>> >>
        /\ arms[3].label = "Object" /\ arms[3].fields = << <<"pairs", List(Struct("member"))>> >>
        /\ arms[4].label = "Bytes" /\ arms[4].fields = << <<"text", Str>> >>
        /\ arms[5].label = "Part" /\ arms[5].fields = << <<"filename", Opt(Str)>>, <<"body", Union("part_body")>> >>
    BY DEF WriteBodyValue, Arm, WriteText, WriteTag
  <1>3. \A k \in 1..5 : k \in {1, 2, 3, 4, 5}
    OBVIOUS
  <1> HIDE DEF arms
  <1>4. \A k \in DOMAIN arms : GoodArm(arms[k].fields)
    BY <1>1, <1>2, <1>3, ArmFields
  <1>5. \A j, k \in DOMAIN arms : arms[j].label = arms[k].label => j = k
    BY <1>1, <1>2, <1>3
  <1>6. GoodArms(arms)
    BY <1>1, <1>4, <1>5 DEF GoodArms
  <1> QED
    BY <1>6 DEF arms

\* Those of the body of a part.
LEMMA WritePartBodyGood == GoodArms(WritePartBody)
  <1> DEFINE arms == WritePartBody
  <1>1. Len(arms) = 2 /\ DOMAIN arms = 1..2
    BY DEF WritePartBody
  <1>2. /\ arms[1].label = "Text" /\ arms[1].fields = << <<"text", Str>> >>
        /\ arms[2].label = "Bytes" /\ arms[2].fields = << <<"text", Str>> >>
    BY DEF WritePartBody, Arm, WriteText, WriteTag
  <1>3. \A k \in 1..2 : k \in {1, 2}
    OBVIOUS
  <1> HIDE DEF arms
  <1>4. \A k \in DOMAIN arms : GoodArm(arms[k].fields)
    BY <1>1, <1>2, <1>3, ArmFields
  <1>5. \A j, k \in DOMAIN arms : arms[j].label = arms[k].label => j = k
    BY <1>1, <1>2, <1>3
  <1>6. GoodArms(arms)
    BY <1>1, <1>4, <1>5 DEF GoodArms
  <1> QED
    BY <1>6 DEF arms

\* Those of the field that a matcher looks at.
LEMMA WriteFieldKindGood == GoodArms(WriteFieldKind)
  <1> DEFINE arms == WriteFieldKind
  <1>1. Len(arms) = 8 /\ DOMAIN arms = 1..8
    BY DEF WriteFieldKind
  <1>2. /\ arms[1].label = "Status" /\ arms[1].fields = << >>
        /\ arms[2].label = "Body" /\ arms[2].fields = << >>
        /\ arms[3].label = "Header" /\ arms[3].fields = << <<"name", Str>> >>
        /\ arms[4].label = "ResponseTime" /\ arms[4].fields = << >>
        /\ arms[5].label = "ResponseSize" /\ arms[5].fields = << >>
        /\ arms[6].label = "Answer" /\ arms[6].fields = << >>
        /\ arms[7].label = "Banner" /\ arms[7].fields = << >>
        /\ arms[8].label = "Response" /\ arms[8].fields = << >>
    BY DEF WriteFieldKind, Arm, WriteText, WriteTag
  <1>3. \A k \in 1..8 : k \in {1, 2, 3, 4, 5, 6, 7, 8}
    OBVIOUS
  <1> HIDE DEF arms
  <1>4. \A k \in DOMAIN arms : GoodArm(arms[k].fields)
    <2> SUFFICES ASSUME NEW k \in 1..8 PROVE GoodArm(arms[k].fields)
      BY <1>1
    <2>1. k \in {1, 2, 4, 5, 6, 7, 8} => arms[k].fields = << >>
      BY <1>2
    <2>2. k = 3 => arms[k].fields = << <<"name", Str>> >>
      BY <1>2
    <2>3. k \in {1, 2, 4, 5, 6, 7, 8} \/ k = 3
      BY <1>3
    <2> QED
      BY <2>1, <2>2, <2>3, ArmFields
  <1>5. \A j, k \in DOMAIN arms : arms[j].label = arms[k].label => j = k
    BY <1>1, <1>2, <1>3
  <1>6. GoodArms(arms)
    BY <1>1, <1>4, <1>5 DEF GoodArms
  <1> QED
    BY <1>6 DEF arms

\* Those of a predicate.
LEMMA WritePredicateGood == GoodArms(WritePredicate)
  <1> DEFINE arms == WritePredicate
  <1>1. Len(arms) = 4 /\ DOMAIN arms = 1..4
    BY DEF WritePredicate
  <1>2. /\ arms[1].label = "Compare" /\ arms[1].fields = << <<"op", Enum("cmp_op")>>, <<"value", Union("cmp_value")>> >>
        /\ arms[2].label = "Contains" /\ arms[2].fields = << <<"text", Str>> >>
        /\ arms[3].label = "NotContains" /\ arms[3].fields = << <<"text", Str>> >>
        /\ arms[4].label = "Regex" /\ arms[4].fields = << <<"text", Str>> >>
    BY DEF WritePredicate, Arm, WriteText, WriteTag
  <1>3. \A k \in 1..4 : k \in {1, 2, 3, 4}
    OBVIOUS
  <1> HIDE DEF arms
  <1>4. \A k \in DOMAIN arms : GoodArm(arms[k].fields)
    BY <1>1, <1>2, <1>3, ArmFields
  <1>5. \A j, k \in DOMAIN arms : arms[j].label = arms[k].label => j = k
    BY <1>1, <1>2, <1>3
  <1>6. GoodArms(arms)
    BY <1>1, <1>4, <1>5 DEF GoodArms
  <1> QED
    BY <1>6 DEF arms

\* Those of the value it compares with.
LEMMA WriteCmpValueGood == GoodArms(WriteCmpValue)
  <1> DEFINE arms == WriteCmpValue
  <1>1. Len(arms) = 3 /\ DOMAIN arms = 1..3
    BY DEF WriteCmpValue
  <1>2. /\ arms[1].label = "Number" /\ arms[1].fields = << <<"number", U64>> >>
        /\ arms[2].label = "String" /\ arms[2].fields = << <<"text", Str>> >>
        /\ arms[3].label = "Duration" /\ arms[3].fields = << <<"text", Str>> >>
    BY DEF WriteCmpValue, Arm, WriteText, WriteTag
  <1>3. \A k \in 1..3 : k \in {1, 2, 3}
    OBVIOUS
  <1> HIDE DEF arms
  <1>4. \A k \in DOMAIN arms : GoodArm(arms[k].fields)
    BY <1>1, <1>2, <1>3, ArmFields
  <1>5. \A j, k \in DOMAIN arms : arms[j].label = arms[k].label => j = k
    BY <1>1, <1>2, <1>3
  <1>6. GoodArms(arms)
    BY <1>1, <1>4, <1>5 DEF GoodArms
  <1> QED
    BY <1>6 DEF arms

\* Those of an extract.
LEMMA WriteExtractGood == GoodArms(WriteExtract)
  <1> DEFINE arms == WriteExtract
  <1>1. Len(arms) = 2 /\ DOMAIN arms = 1..2
    BY DEF WriteExtract
  <1>2. /\ arms[1].label = "Body" /\ arms[1].fields = << <<"target", Str>>, <<"regex", Opt(Str)>> >>
        /\ arms[2].label = "Header" /\ arms[2].fields = << <<"target", Str>>, <<"name", Str>> >>
    BY DEF WriteExtract, Arm, WriteText, WriteTag
  <1>3. \A k \in 1..2 : k \in {1, 2}
    OBVIOUS
  <1> HIDE DEF arms
  <1>4. \A k \in DOMAIN arms : GoodArm(arms[k].fields)
    BY <1>1, <1>2, <1>3, ArmFields
  <1>5. \A j, k \in DOMAIN arms : arms[j].label = arms[k].label => j = k
    BY <1>1, <1>2, <1>3
  <1>6. GoodArms(arms)
    BY <1>1, <1>4, <1>5 DEF GoodArms
  <1> QED
    BY <1>6 DEF arms

\* Those of an evidence.
LEMMA WriteEvidenceKindGood == GoodArms(WriteEvidenceKind)
  <1> DEFINE arms == WriteEvidenceKind
  <1>1. Len(arms) = 3 /\ DOMAIN arms = 1..3
    BY DEF WriteEvidenceKind
  <1>2. /\ arms[1].label = "Body" /\ arms[1].fields = << <<"target", Str>>, <<"pattern", Opt(Str)>> >>
        /\ arms[2].label = "Response" /\ arms[2].fields = << <<"target", Str>>, <<"pattern", Opt(Str)>> >>
        /\ arms[3].label = "Header" /\ arms[3].fields = << <<"target", Str>>, <<"name", Str>>, <<"pattern", Opt(Str)>> >>
    BY DEF WriteEvidenceKind, Arm, WriteText, WriteTag
  <1>3. \A k \in 1..3 : k \in {1, 2, 3}
    OBVIOUS
  <1> HIDE DEF arms
  <1>4. \A k \in DOMAIN arms : GoodArm(arms[k].fields)
    BY <1>1, <1>2, <1>3, ArmFields
  <1>5. \A j, k \in DOMAIN arms : arms[j].label = arms[k].label => j = k
    BY <1>1, <1>2, <1>3
  <1>6. GoodArms(arms)
    BY <1>1, <1>4, <1>5 DEF GoodArms
  <1> QED
    BY <1>6 DEF arms

-----------------------------------------------------------------------------
(* The arms of the unions.                                                 *)

\* Opcodes are small, and no two ops have the same.
LEMMA Opcodes ==
    /\ DOMAIN OpCode = {"Set", "Send", "Match", "MatchAll", "MatchAny", "Assert", "Extract",
                        "IfMatch", "Save", "Evidence", "Retry", "RetryDelay", "Sleep", "Stop",
                        "Fail", "Continue", "Exit", "LoopBack", "Break", "SetList", "ForList",
                        "ForVar"}
    /\ \A op \in DOMAIN OpCode : OpCode[op] \in 1..23
    /\ \A o, p \in DOMAIN OpCode : OpCode[o] = OpCode[p] => o = p
  <1>1. DOMAIN OpCode = {"Set", "Send", "Match", "MatchAll", "MatchAny", "Assert", "Extract",
                         "IfMatch", "Save", "Evidence", "Retry", "RetryDelay", "Sleep", "Stop",
                         "Fail", "Continue", "Exit", "LoopBack", "Break", "SetList", "ForList",
                         "ForVar"}
    BY DEF OpCode
  <1>2. /\ OpCode["Set"] = 1 /\ OpCode["Send"] = 2 /\ OpCode["Match"] = 3
        /\ OpCode["MatchAll"] = 4 /\ OpCode["MatchAny"] = 5 /\ OpCode["Assert"] = 6
        /\ OpCode["Extract"] = 7 /\ OpCode["IfMatch"] = 8 /\ OpCode["Save"] = 9
        /\ OpCode["Evidence"] = 10 /\ OpCode["Retry"] = 11 /\ OpCode["RetryDelay"] = 12
        /\ OpCode["Sleep"] = 13 /\ OpCode["Stop"] = 14 /\ OpCode["Fail"] = 15
        /\ OpCode["Continue"] = 16 /\ OpCode["Exit"] = 17 /\ OpCode["LoopBack"] = 19
        /\ OpCode["Break"] = 20 /\ OpCode["SetList"] = 21 /\ OpCode["ForList"] = 22
        /\ OpCode["ForVar"] = 23
    BY DEF OpCode
  <1>3. \A op \in DOMAIN OpCode : OpCode[op] \in 1..23
    BY <1>1, <1>2
  <1>4. \A o, p \in DOMAIN OpCode : OpCode[o] = OpCode[p] => o = p
    BY <1>1, <1>2
  <1> QED
    BY <1>1, <1>3, <1>4

GoodOperands(fields) == GoodFields(fields) /\ "op" \notin FieldNames(fields)

\* Every list of operands is good, and none of them is called op.
LEMMA OperandFields ==
    /\ GoodOperands(<< >>)
    /\ GoodOperands(<< <<"name", U32>>, <<"value", U32>> >>)
    /\ GoodOperands(<< <<"name", U32>>, <<"start", U32>>, <<"len", U16>> >>)
    /\ GoodOperands(<< <<"probe", U32>>, <<"payload", Opt(U32)>> >>)
    /\ GoodOperands(<< <<"matcher", U32>> >>)
    /\ GoodOperands(<< <<"start", U32>>, <<"len", U16>> >>)
    /\ GoodOperands(<< <<"name", U32>>, <<"source", U32>> >>)
    /\ GoodOperands(<< <<"matcher", U32>>, <<"else_pc", U32>> >>)
    /\ GoodOperands(<< <<"item", U32>>, <<"start", U32>>, <<"len", U16>>, <<"end_pc", U32>> >>)
    /\ GoodOperands(<< <<"item", U32>>, <<"list", U32>>, <<"end_pc", U32>> >>)
    /\ GoodOperands(<< <<"from", U32>>, <<"to", U32>> >>)
    /\ GoodOperands(<< <<"evidence", U32>> >>)
    /\ GoodOperands(<< <<"probe", U32>>, <<"count", U32>> >>)
    /\ GoodOperands(<< <<"value", U32>> >>)
  <1>1. {U16, U32, Opt(U32)} \subseteq BodyTypes
    BY TypesOnWire DEF OptionTypes, ValueTypes
  <1>2. GoodOperands(<< >>)
    BY <1>1, NoFields DEF GoodOperands
  <1>3. GoodOperands(<< <<"name", U32>>, <<"value", U32>> >>)
    BY <1>1, TwoFields DEF GoodOperands
  <1>4. GoodOperands(<< <<"name", U32>>, <<"start", U32>>, <<"len", U16>> >>)
    BY <1>1, ThreeFields DEF GoodOperands
  <1>5. GoodOperands(<< <<"probe", U32>>, <<"payload", Opt(U32)>> >>)
    BY <1>1, TwoFields DEF GoodOperands
  <1>6. GoodOperands(<< <<"matcher", U32>> >>)
    BY <1>1, OneField DEF GoodOperands
  <1>7. GoodOperands(<< <<"start", U32>>, <<"len", U16>> >>)
    BY <1>1, TwoFields DEF GoodOperands
  <1>8. GoodOperands(<< <<"name", U32>>, <<"source", U32>> >>)
    BY <1>1, TwoFields DEF GoodOperands
  <1>9. GoodOperands(<< <<"matcher", U32>>, <<"else_pc", U32>> >>)
    BY <1>1, TwoFields DEF GoodOperands
  <1>10. GoodOperands(<< <<"item", U32>>, <<"start", U32>>, <<"len", U16>>, <<"end_pc", U32>> >>)
    BY <1>1, FourFields DEF GoodOperands
  <1>11. GoodOperands(<< <<"item", U32>>, <<"list", U32>>, <<"end_pc", U32>> >>)
    BY <1>1, ThreeFields DEF GoodOperands
  <1>12. GoodOperands(<< <<"from", U32>>, <<"to", U32>> >>)
    BY <1>1, TwoFields DEF GoodOperands
  <1>13. GoodOperands(<< <<"evidence", U32>> >>)
    BY <1>1, OneField DEF GoodOperands
  <1>14. GoodOperands(<< <<"probe", U32>>, <<"count", U32>> >>)
    BY <1>1, TwoFields DEF GoodOperands
  <1>15. GoodOperands(<< <<"value", U32>> >>)
    BY <1>1, OneField DEF GoodOperands
  <1> QED
    BY <1>2, <1>3, <1>4, <1>5, <1>6, <1>7, <1>8, <1>9, <1>10, <1>11, <1>12, <1>13, <1>14, <1>15

\* So the operands of every op are.
LEMMA OperandsGood == \A op \in DOMAIN OpCode : GoodOperands(ReadOperands(op))
  BY OperandFields, Opcodes DEF ReadOperands

\* The unions that both sides number from 0.
Numbered == Unions \ {"part_body", "instr"}

\* The reader has the writer's arms under the tags that the writer counts from 0.
LEMMA ArmsOfUnions ==
    /\ \A u \in Unions \ {"instr"} : GoodArms(WriteArms(u))
    /\ \A u \in Numbered : ReadArms(u) = FromZero(WriteArms(u))
  <1>1. \A u \in Unions \ {"instr"} : GoodArms(WriteArms(u))
    BY WriteProbeKindGood, WriteBodyValueGood, WritePartBodyGood, WriteFieldKindGood,
       WritePredicateGood, WriteCmpValueGood, WriteExtractGood, WriteEvidenceKindGood
    DEF Unions, WriteArms
  <1>2. /\ ReadProbeKind = FromZero(WriteProbeKind)
        /\ ReadBodyValue = FromZero(WriteBodyValue)
        /\ ReadFieldKind = FromZero(WriteFieldKind)
        /\ ReadPredicate = FromZero(WritePredicate)
    BY DEF ReadProbeKind, WriteProbeKind, ReadBodyValue, WriteBodyValue, ReadFieldKind,
           WriteFieldKind, ReadPredicate, WritePredicate, WriteText, WriteTag, Text, Object
  <1>3. /\ ReadCmpValue = FromZero(WriteCmpValue)
        /\ ReadExtract = FromZero(WriteExtract)
        /\ ReadEvidenceKind = FromZero(WriteEvidenceKind)
    BY DEF ReadCmpValue, WriteCmpValue, ReadExtract, WriteExtract, ReadEvidenceKind,
           WriteEvidenceKind, WriteText, Text
  <1>4. \A u \in Numbered : ReadArms(u) = FromZero(WriteArms(u))
    BY <1>2, <1>3 DEF Numbered, Unions, WriteArms, ReadArms
  <1> QED
    BY <1>1, <1>4

\* The body of a part is the exception: every tag but 1 is read as a text.
LEMMA PartBodyArms ==
    /\ DOMAIN ReadArms("part_body") = Byte
    /\ ReadArms("part_body")[0] = WriteArms("part_body")[1]
    /\ ReadArms("part_body")[1] = WriteArms("part_body")[2]
    /\ \A tag \in Byte : ReadArms("part_body")[tag] = WriteArms("part_body")[IF tag = 1 THEN 2 ELSE 1]
    /\ Len(WriteArms("part_body")) = 2
  <1>1. ReadArms("part_body") = ReadPartBody /\ WriteArms("part_body") = WritePartBody
    BY DEF ReadArms, WriteArms
  <1>2. 0 \in Byte /\ 1 \in Byte
    BY WireAssumption DEF Byte
  <1>3. Len(WritePartBody) = 2 /\ WritePartBody[1] = Arm("Text", Text) /\ WritePartBody[2] = Arm("Bytes", Text)
    BY DEF WritePartBody, WriteText, Text
  <1>4. DOMAIN ReadPartBody = Byte
        /\ \A tag \in Byte : ReadPartBody[tag] = Arm(IF tag = 1 THEN "Bytes" ELSE "Text", Text)
    BY DEF ReadPartBody, Byte
  <1> QED
    BY <1>1, <1>2, <1>3, <1>4

\* And so are instructions, whose tags are opcodes.
LEMMA InstrArms ==
    /\ DOMAIN ReadArms("instr") = {OpCode[op] : op \in DOMAIN OpCode}
    /\ \A op \in DOMAIN OpCode : ReadArms("instr")[OpCode[op]] = Arm(op, WriteOperands(op))
  <1>1. ReadArms("instr") = ReadInstr
    BY DEF ReadArms
  <1>2. DOMAIN ReadInstr = {OpCode[op] : op \in DOMAIN OpCode}
    BY DEF ReadInstr
  <1>3. ASSUME NEW op \in DOMAIN OpCode
        PROVE  ReadInstr[OpCode[op]] = Arm(op, ReadOperands(op))
    <2> DEFINE found == CHOOSE o \in DOMAIN OpCode : OpCode[o] = OpCode[op]
    <2>1. found = op
      BY Opcodes
    <2>2. ReadInstr[OpCode[op]] = Arm(found, ReadOperands(found))
      BY DEF ReadInstr
    <2> QED
      BY <2>1, <2>2
  <1> QED
    BY <1>1, <1>2, <1>3, OperandsOfOps

-----------------------------------------------------------------------------
(* The tag that is written tells the arm.                                  *)

\* A byte holds a small number.
LEMMA RadixIsNat == Radix \in Nat /\ Radix > 23
  BY WireAssumption

\* A small number is a byte.
LEMMA SmallBytes == \A n \in 0..23 : n \in Byte
  BY RadixIsNat DEF Byte

\* The writer's arms by their tags, and back.
LEMMA FoundArm ==
    ASSUME NEW arms, GoodArms(arms), NEW label, NEW j \in DOMAIN arms, arms[j].label = label
    PROVE  (CHOOSE k \in DOMAIN arms : arms[k].label = label) = j
  BY DEF GoodArms

\* Every value of a union is told apart by the tag that is written for it.
LEMMA WrittenArm ==
    ASSUME NEW u \in Unions, NEW v, Holds(Union(u), v)
    PROVE  /\ WriteTagOf(u, v) \in Byte /\ WriteTagOf(u, v) \in DOMAIN ReadArms(u)
           /\ ReadArms(u)[WriteTagOf(u, v)] = WriteArm(u, v)
           /\ WriteArm(u, v).label = v[TagName(u)]
           /\ GoodFields(WriteArm(u, v).fields)
           /\ TagName(u) \notin FieldNames(WriteArm(u, v).fields)
  <1>1. CASE u = "instr"
    <2>1. v.op \in DOMAIN OpCode
      BY <1>1 DEF Holds, Union
    <2>2. WriteTagOf(u, v) = OpCode[v.op] /\ WriteArm(u, v) = Arm(v.op, WriteOperands(v.op))
      BY <1>1 DEF WriteTagOf, WriteArm
    <2>3. OpCode[v.op] \in 1..23 /\ OpCode[v.op] \in Byte
      BY <2>1, Opcodes, SmallBytes
    <2>4. GoodOperands(WriteOperands(v.op))
      BY <2>1, OperandsGood, OperandsOfOps
    <2>5. TagName(u) = "op" /\ v[TagName(u)] = v.op
      BY <1>1 DEF TagName
    <2> QED
      BY <1>1, <2>1, <2>2, <2>3, <2>4, <2>5, InstrArms DEF GoodOperands, Arm
  <1>2. CASE u # "instr"
    <2> DEFINE arms == WriteArms(u)
               found == CHOOSE k \in DOMAIN arms : arms[k].label = v.tag
    <2>1. PICK j \in DOMAIN arms : arms[j].label = v.tag
      BY <1>2 DEF Holds, Union
    <2>2. GoodArms(arms)
      BY <1>2, ArmsOfUnions
    <2>3. found = j
      BY <2>1, <2>2, FoundArm
    <2>4. WriteTagOf(u, v) = j - 1 /\ WriteArm(u, v) = arms[j]
      BY <1>2, <2>3 DEF WriteTagOf, WriteArm
    <2>5. j \in 1..Len(arms) /\ Len(arms) \in 1..8 /\ GoodArm(arms[j].fields)
      BY <2>1, <2>2 DEF GoodArms
    <2>6. j - 1 \in Byte
      <3>1. j \in 1..Len(arms) /\ Len(arms) \in 1..8
        BY <2>5
      <3> HIDE DEF arms, found
      <3>2. j - 1 \in 0..23
        BY <3>1, SMTT(30)
      <3> QED
        BY <3>2, SmallBytes
    <2>7. TagName(u) = "tag" /\ v[TagName(u)] = v.tag
      BY <1>2 DEF TagName
    <2>8. j - 1 \in DOMAIN ReadArms(u) /\ ReadArms(u)[j - 1] = arms[j]
      <3>1. CASE u = "part_body"
        BY <3>1, <2>5, <2>6, PartBodyArms
      <3>2. CASE u # "part_body"
        <4>1. ReadArms(u) = FromZero(arms)
          BY <1>2, <3>2, ArmsOfUnions DEF Numbered
        <4>2. j - 1 \in 0..(Len(arms) - 1) /\ (j - 1) + 1 = j
          BY <2>5
        <4> HIDE DEF arms
        <4> QED
          BY <4>1, <4>2 DEF FromZero
      <3> QED
        BY <3>1, <3>2
    <2> HIDE DEF arms
    <2> QED
      BY <2>1, <2>4, <2>5, <2>6, <2>7, <2>8 DEF GoodArm
  <1> QED
    BY <1>1, <1>2

\* An arm that is read is one that is written.
LEMMA ReadArmIsWritten ==
    ASSUME NEW u \in Unions, NEW tag \in DOMAIN ReadArms(u),
           NEW v, v[TagName(u)] = ReadArms(u)[tag].label
    PROVE  /\ IF u = "instr" THEN v.op \in DOMAIN OpCode
              ELSE \E k \in DOMAIN WriteArms(u) : WriteArms(u)[k].label = v.tag
           /\ WriteArm(u, v) = ReadArms(u)[tag]
           /\ GoodFields(ReadArms(u)[tag].fields)
           /\ TagName(u) \notin FieldNames(ReadArms(u)[tag].fields)
  <1>1. CASE u = "instr"
    <2>1. PICK op \in DOMAIN OpCode : tag = OpCode[op]
      BY <1>1, InstrArms
    <2>2. ReadArms(u)[tag] = Arm(op, WriteOperands(op)) /\ TagName(u) = "op"
      BY <1>1, <2>1, InstrArms DEF TagName
    <2>3. v.op = op
      BY <2>2 DEF Arm
    <2>4. GoodOperands(WriteOperands(op))
      BY <2>1, OperandsGood, OperandsOfOps
    <2> QED
      BY <1>1, <2>1, <2>2, <2>3, <2>4 DEF WriteArm, GoodOperands, Arm
  <1>2. CASE u # "instr"
    <2> DEFINE arms == WriteArms(u)
               found == CHOOSE k \in DOMAIN arms : arms[k].label = v.tag
    <2>1. GoodArms(arms)
      BY <1>2, ArmsOfUnions
    <2>2. PICK j \in DOMAIN arms : ReadArms(u)[tag] = arms[j]
      <3>1. CASE u = "part_body"
        <4>1. DOMAIN arms = 1..2 /\ tag \in Byte
          BY <3>1, <2>1, PartBodyArms DEF GoodArms
        <4> QED
          BY <3>1, <4>1, PartBodyArms
      <3>2. CASE u # "part_body"
        <4>1. ReadArms(u) = FromZero(arms)
          BY <1>2, <3>2, ArmsOfUnions DEF Numbered
        <4>2. Len(arms) \in 1..8 /\ DOMAIN arms = 1..Len(arms)
          BY <2>1 DEF GoodArms
        <4> HIDE DEF arms
        <4>3. tag \in 0..(Len(arms) - 1) /\ FromZero(arms)[tag] = arms[tag + 1]
          BY <4>1 DEF FromZero
        <4>4. tag + 1 \in DOMAIN arms
          BY <4>2, <4>3
        <4> QED
          BY <4>1, <4>3, <4>4
      <3> QED
        BY <3>1, <3>2
    <2>3. TagName(u) = "tag" /\ v.tag = arms[j].label
      BY <1>2, <2>2 DEF TagName
    <2>4. found = j
      BY <2>1, <2>2, <2>3, FoundArm
    <2>5. WriteArm(u, v) = arms[j]
      BY <1>2, <2>4 DEF WriteArm
    <2>6. GoodArm(arms[j].fields)
      BY <2>1, <2>2 DEF GoodArms
    <2> QED
      BY <1>2, <2>2, <2>3, <2>5, <2>6 DEF GoodArm
  <1> QED
    BY <1>1, <1>2

-----------------------------------------------------------------------------
(* Numbers and their bytes.                                                *)

\* A number is made of its last digit and the rest.
LEMMA DivMod ==
    ASSUME NEW n \in Nat
    PROVE  /\ n \div Radix \in Nat /\ n % Radix \in Byte
           /\ n = (n % Radix) + Radix * (n \div Radix)
  BY RadixIsNat DEF Byte

\* A product grows with its factor.
LEMMA TimesMonotone ==
    ASSUME NEW a \in Nat, NEW b \in Nat, NEW c \in Nat, a <= b
    PROVE  c * a <= c * b
  OBVIOUS

\* A product of naturals is natural.
LEMMA TimesIsNat == \A a, b \in Nat : a * b \in Nat
  OBVIOUS

\* The rest of a number without its last digit has one digit less.
LEMMA DivBound ==
    ASSUME NEW n \in Nat, NEW m \in Nat, n < Radix * m
    PROVE  n \div Radix < m
  BY DivMod, RadixIsNat, TimesMonotone DEF Byte

\* A digit in front of a number adds one digit.
LEMMA DigitBound ==
    ASSUME NEW d \in Byte, NEW a \in Nat, NEW m \in Nat, a < m
    PROVE  d + Radix * a \in Nat /\ d + Radix * a < Radix * m
  <1>1. a + 1 \in Nat /\ a + 1 <= m /\ Radix \in Nat /\ d \in Nat /\ d < Radix
    BY RadixIsNat DEF Byte
  <1>2. Radix * (a + 1) <= Radix * m
    BY <1>1, TimesMonotone
  <1>3. Radix * (a + 1) = Radix * a + Radix /\ Radix * a \in Nat
    BY <1>1
  <1>4. Radix * m \in Nat
    BY <1>1, TimesIsNat
  <1> QED
    BY <1>1, <1>2, <1>3, <1>4

\* What two and four bytes count up to.
LEMMA TwoAndFour == Two \in Nat /\ Four \in Nat /\ Radix * (Radix * Radix) \in Nat
                    /\ Four = Radix * (Radix * (Radix * Radix)) /\ Two = Radix * Radix
  BY RadixIsNat, TimesIsNat DEF Two, Four

\* The digits that are kept of four.
LEMMA Digits ==
    ASSUME NEW x \in Byte, NEW y \in Byte, NEW z \in Byte, NEW w \in Byte
    PROVE  /\ SubSeq(<<x, y, z, w>>, 1, 4) = <<x, y, z, w>>
           /\ SubSeq(<<x, y, z, w>>, 1, 2) = <<x, y>>
  <1> DEFINE t == <<x, y, z, w>>
             two == SubSeq(t, 1, 2)
             four == SubSeq(t, 1, 4)
  <1>1. t \in Seq(Byte) /\ Len(t) = 4 /\ t[1] = x /\ t[2] = y /\ t[3] = z /\ t[4] = w
    OBVIOUS
  <1> HIDE DEF t
  <1>2. two \in Seq(Byte) /\ Len(two) = 2 /\ two[1] = x /\ two[2] = y
    BY <1>1
  <1>3. four \in Seq(Byte) /\ Len(four) = 4 /\ four[1] = x /\ four[2] = y /\ four[3] = z /\ four[4] = w
    BY <1>1
  <1> HIDE DEF two, four
  <1>4. two = <<x, y>> 
    BY <1>2
  <1>5. four = <<x, y, z, w>>
    BY <1>3
  <1> QED
    BY <1>4, <1>5 DEF two, four, t

\* What to_le_bytes writes, from_le_bytes reads.
LEMMA U32Written ==
    ASSUME NEW n \in 0..(Four - 1)
    PROVE  /\ LittleEndian(n, 4) \in Seq(Byte) /\ Len(LittleEndian(n, 4)) = 4
           /\ Number(LittleEndian(n, 4)) = n
  <1> DEFINE second == n \div Radix
             third == second \div Radix
             fourth == third \div Radix
             data == <<n % Radix, second % Radix, third % Radix, fourth % Radix>>
  <1>1. n \in Nat /\ n < Radix * (Radix * (Radix * Radix)) /\ Radix \in Nat
        /\ Radix * Radix \in Nat /\ Radix * (Radix * Radix) \in Nat
    BY TwoAndFour, RadixIsNat
  <1>2. second \in Nat /\ n % Radix \in Byte /\ n = (n % Radix) + Radix * second
    BY <1>1, DivMod
  <1>3. third \in Nat /\ second % Radix \in Byte /\ second = (second % Radix) + Radix * third
    BY <1>2, DivMod
  <1>4. fourth \in Nat /\ third % Radix \in Byte /\ third = (third % Radix) + Radix * fourth
    BY <1>3, DivMod
  <1>5. second < Radix * (Radix * Radix)
    BY <1>1, DivBound
  <1>6. third < Radix * Radix
    BY <1>1, <1>2, <1>5, DivBound
  <1>7. fourth < Radix
    BY <1>1, <1>3, <1>6, DivBound
  <1>8. fourth % Radix = fourth
    BY <1>1, <1>4, <1>7, RadixIsNat
  <1>9. fourth % Radix \in Byte
    BY <1>4, DivMod
  <1>10. LittleEndian(n, 4) = data
    BY <1>2, <1>3, <1>4, <1>9, Digits DEF LittleEndian
  <1>11. data \in Seq(Byte) /\ Len(data) = 4
    BY <1>2, <1>3, <1>4, <1>9
  <1>12. Number(data) = (n % Radix) + Radix * ((second % Radix) + Radix * ((third % Radix) + Radix * (fourth % Radix)))
    BY DEF Number
  <1>13. Number(data) = n
    BY <1>2, <1>3, <1>4, <1>8, <1>12
  <1> QED
    BY <1>10, <1>11, <1>13

\* The same for two bytes.
LEMMA U16Written ==
    ASSUME NEW n \in 0..(Two - 1)
    PROVE  /\ LittleEndian(n, 2) \in Seq(Byte) /\ Len(LittleEndian(n, 2)) = 2
           /\ Number(LittleEndian(n, 2)) = n
  <1> DEFINE second == n \div Radix
             third == second \div Radix
             fourth == third \div Radix
             data == <<n % Radix, second % Radix>>
  <1>1. n \in Nat /\ n < Radix * Radix /\ Radix \in Nat
    BY TwoAndFour, RadixIsNat
  <1>2. second \in Nat /\ n % Radix \in Byte /\ n = (n % Radix) + Radix * second
    BY <1>1, DivMod
  <1>3. second < Radix
    BY <1>1, DivBound
  <1>4. second % Radix = second /\ second % Radix \in Byte
    BY <1>1, <1>2, <1>3, DivMod, RadixIsNat
  <1>5. third \in Nat /\ third % Radix \in Byte /\ fourth % Radix \in Byte
    BY <1>2, DivMod
  <1>7. LittleEndian(n, 2) = data
    BY <1>2, <1>4, <1>5, Digits DEF LittleEndian
  <1>8. data \in Seq(Byte) /\ Len(data) = 2
    BY <1>2, <1>4
  <1>9. Number(data) = (n % Radix) + Radix * ((second % Radix) + Radix * (0 + Radix * 0))
    BY DEF Number
  <1>10. Radix * (0 + Radix * 0) = 0
    BY <1>1
  <1>11. Number(data) = n
    BY <1>2, <1>4, <1>9, <1>10
  <1> QED
    BY <1>7, <1>8, <1>11

\* from_le_bytes returns what fits the bytes.
LEMMA NumberBound ==
    ASSUME NEW data \in Seq(Byte)
    PROVE  /\ Len(data) = 4 => Number(data) \in 0..(Four - 1)
           /\ Len(data) = 2 => Number(data) \in 0..(Two - 1)
  <1>1. ASSUME Len(data) = 4 PROVE Number(data) \in 0..(Four - 1)
    <2>0. 1 \in 1..Len(data) /\ 2 \in 1..Len(data) /\ 3 \in 1..Len(data) /\ 4 \in 1..Len(data)
      BY <1>1
    <2>1. data[1] \in Byte /\ data[2] \in Byte /\ data[3] \in Byte /\ data[4] \in Byte
      BY <2>0
    <2>2. Number(data) = data[1] + Radix * (data[2] + Radix * (data[3] + Radix * data[4]))
      BY <1>1 DEF Number
    <2>3. data[4] \in Nat /\ data[4] < Radix /\ Radix \in Nat
      BY <2>1, RadixIsNat DEF Byte
    <2>4. Radix * Radix \in Nat /\ Radix * (Radix * Radix) \in Nat
      BY <2>3, TimesIsNat
    <2>5. data[3] + Radix * data[4] \in Nat /\ data[3] + Radix * data[4] < Radix * Radix
      BY <2>1, <2>3, DigitBound
    <2>6. /\ data[2] + Radix * (data[3] + Radix * data[4]) \in Nat
          /\ data[2] + Radix * (data[3] + Radix * data[4]) < Radix * (Radix * Radix)
      BY <2>1, <2>4, <2>5, DigitBound
    <2> DEFINE a == data[2] + Radix * (data[3] + Radix * data[4])
               m == Radix * (Radix * Radix)
    <2>7. a \in Nat /\ m \in Nat /\ a < m /\ data[1] \in Byte
      BY <2>1, <2>4, <2>6
    <2>8. Number(data) = data[1] + Radix * a /\ Four = Radix * m
      BY <2>2 DEF Four
    <2> HIDE DEF a, m
    <2>9. Number(data) \in Nat /\ Number(data) < Four
      BY <2>7, <2>8, DigitBound
    <2> QED
      BY <2>9, TwoAndFour
  <1>2. ASSUME Len(data) = 2 PROVE Number(data) \in 0..(Two - 1)
    <2>1. data[1] \in Byte /\ data[2] \in Byte
      BY <1>2
    <2>2. Number(data) = data[1] + Radix * (data[2] + Radix * (0 + Radix * 0))
      BY <1>2 DEF Number
    <2>3. data[2] \in Nat /\ data[2] < Radix /\ Radix \in Nat
      BY <2>1, RadixIsNat DEF Byte
    <2>4. data[2] + Radix * (0 + Radix * 0) = data[2]
      BY <2>3
    <2>5. Number(data) \in Nat /\ Number(data) < Two
      BY <2>1, <2>2, <2>3, <2>4, DigitBound DEF Two
    <2> QED
      BY <2>5, TwoAndFour
  <1> QED
    BY <1>1, <1>2

-----------------------------------------------------------------------------
(* Sequences.                                                              *)

\* A sequence, of whatever elements.
IsSeq(s) == Len(s) \in Nat /\ s = [k \in 1..Len(s) |-> s[k]]

\* A sequence is a sequence of its elements.
LEMMA SeqOfElements ==
    ASSUME NEW s, IsSeq(s)
    PROVE  s \in Seq({s[k] : k \in 1..Len(s)}) /\ DOMAIN s = 1..Len(s)
  BY DEF IsSeq

\* Sequences of the same elements are equal.
LEMMA SameElements ==
    ASSUME NEW s, IsSeq(s), NEW t, IsSeq(t), Len(s) = Len(t), \A k \in 1..Len(s) : s[k] = t[k]
    PROVE  s = t
  BY DEF IsSeq

\* A sequence over any set is one.
LEMMA SeqIsSeq ==
    ASSUME NEW S, NEW s \in Seq(S)
    PROVE  IsSeq(s)
  BY DEF IsSeq

\* What Append does to a sequence of whatever elements.
LEMMA AppendIsSeq ==
    ASSUME NEW s, IsSeq(s), NEW x
    PROVE  /\ IsSeq(Append(s, x)) /\ Len(Append(s, x)) = Len(s) + 1
           /\ \A k \in 1..Len(s) : Append(s, x)[k] = s[k]
           /\ Append(s, x)[Len(s) + 1] = x
  <1> DEFINE S == {s[k] : k \in 1..Len(s)} \cup {x}
  <1>1. s \in Seq(S) /\ x \in S
    BY DEF IsSeq
  <1> HIDE DEF S
  <1>2. Append(s, x) \in Seq(S) /\ Len(Append(s, x)) = Len(s) + 1
        /\ (\A k \in 1..Len(s) : Append(s, x)[k] = s[k]) /\ Append(s, x)[Len(s) + 1] = x
    BY <1>1
  <1> QED
    BY <1>2, SeqIsSeq

\* Popping a stack, and changing what is then on top.
LEMMA Popped ==
    ASSUME NEW s, IsSeq(s), Len(s) > 1, NEW n, n = Len(s) - 1, NEW u, u = SubSeq(s, 1, n)
    PROVE  n \in Nat /\ n >= 1 /\ DOMAIN u = 1..n /\ \A k \in 1..n : u[k] = s[k]
  <1>1. s \in Seq({s[k] : k \in 1..Len(s)}) /\ n \in Nat /\ n >= 1 /\ n <= Len(s) /\ Len(s) \in Nat
    BY DEF IsSeq
  <1> QED
    BY <1>1

\* The element on top replaced.
LEMMA Replaced ==
    ASSUME NEW u, NEW n, DOMAIN u = 1..n, NEW x
    PROVE  [u EXCEPT ![n] = x] = [k \in 1..n |-> IF k = n THEN x ELSE u[k]]
  OBVIOUS

\* A function on 1..n is a sequence.
LEMMA SeqFromElements ==
    ASSUME NEW n \in Nat, NEW t, t = [k \in 1..n |-> t[k]]
    PROVE  IsSeq(t) /\ Len(t) = n
  <1>1. t \in Seq({t[k] : k \in 1..n})
    OBVIOUS
  <1>2. Len(t) = n
    BY <1>1
  <1> QED
    BY <1>2 DEF IsSeq

-----------------------------------------------------------------------------
(* Types and values.                                                       *)

\* What the reader finds in front of a value.
HeadOf(type, v) ==
    LET kind == type[1] IN
    CASE kind = "opt" -> IF v = None THEN 0 ELSE 1
      [] kind = "list" -> Len(v)
      [] kind = "table" -> Cardinality(DOMAIN v)
      [] kind = "union" -> WriteTagOf(type[2], v)
      [] kind \in {"struct", "file"} -> 0
      [] OTHER -> v

\* The reader expects the parts that are written, and makes the value of them.
Agrees(type, v) ==
    \A parts \in Parts(type, v) :
        LET head == HeadOf(type, v)
            types == PartTypes(type, head) IN
        /\ Len(parts) \in Nat /\ DOMAIN parts = 1..Len(parts) /\ Len(types) = Len(parts)
        /\ \A k \in 1..Len(parts) :
              parts[k] = <<types[k], parts[k][2]>> /\ types[k] \in WireTypes
        /\ \A read :
              (/\ IsSeq(read) /\ Len(read) = Len(parts)
               /\ \A k \in 1..Len(parts) : read[k] = parts[k][2]) => Made(type, head, read) = v

\* A field is found by its name at its place.
LEMMA FieldsReadBack ==
    ASSUME NEW fields, GoodFields(fields), NEW read
    PROVE  \A k \in DOMAIN fields : /\ FieldRead(fields, read, fields[k][1]) = read[k]
                                    /\ fields[k][1] \in FieldNames(fields)
  <1> SUFFICES ASSUME NEW k \in DOMAIN fields
               PROVE  /\ FieldRead(fields, read, fields[k][1]) = read[k]
                      /\ fields[k][1] \in FieldNames(fields)
    OBVIOUS
  <1>1. (CHOOSE j \in DOMAIN fields : fields[j][1] = fields[k][1]) = k
    BY DEF GoodFields
  <1> QED
    BY <1>1 DEF FieldRead, FieldNames

\* A value without parts is its head.
LEMMA PlainAgrees ==
    ASSUME NEW type \in PlainTypes, NEW v
    PROVE  Agrees(type, v)
  <1>1. type[1] \in {"magic", "version", "u16", "u32", "u64", "bool", "str", "bytes", "enum"}
    BY DEF PlainTypes, ValueTypes, MagicBytes, VersionByte, U16, U32, U64, Bool, Str, Bytes, Enum
  <1>2. Parts(type, v) = {<< >>} /\ HeadOf(type, v) = v
    BY <1>1 DEF Parts, HeadOf
  <1>3. PartTypes(type, v) = << >> /\ \A read : Made(type, v, read) = v
    BY <1>1 DEF PartTypes, Made
  <1> QED
    BY <1>2, <1>3 DEF Agrees

\* A file is its third part, the program.
LEMMA FileAgrees ==
    ASSUME NEW v
    PROVE  Agrees(File, v)
  <1>1. Parts(File, v) = {FileParts(v)} /\ HeadOf(File, v) = 0
    BY DEF Parts, HeadOf, File
  <1>2. PartTypes(File, 0) = FileTypes /\ \A read : Made(File, 0, read) = read[3]
    BY DEF PartTypes, Made, File
  <1>3. /\ Len(FileParts(v)) = 3 /\ DOMAIN FileParts(v) = 1..3 /\ FileParts(v)[1] = <<MagicBytes, Magic>>
        /\ FileParts(v)[2] = <<VersionByte, Version>>
        /\ FileParts(v)[3] = <<Struct("program"), v>>
    BY DEF FileParts
  <1>4. /\ Len(FileTypes) = 3 /\ FileTypes[1] = MagicBytes /\ FileTypes[2] = VersionByte
        /\ FileTypes[3] = Struct("program")
    BY DEF FileTypes
  <1>5. MagicBytes \in WireTypes /\ VersionByte \in WireTypes /\ Struct("program") \in WireTypes
    BY TypesOnWire, BodyOnWire DEF PlainTypes, Structs
  <1>6. \A k \in 1..3 : k \in {1, 2, 3}
    OBVIOUS
  <1>7. \A k \in 1..3 : FileParts(v)[k] = <<FileTypes[k], FileParts(v)[k][2]>> /\ FileTypes[k] \in WireTypes
    BY <1>3, <1>4, <1>5, <1>6
  <1>8. ASSUME NEW read, \A k \in 1..3 : read[k] = FileParts(v)[k][2]
        PROVE  Made(File, 0, read) = v
    BY <1>2, <1>3, <1>8
  <1> DEFINE parts == FileParts(v)
  <1>9. /\ Len(parts) \in Nat /\ DOMAIN parts = 1..Len(parts) /\ Len(FileTypes) = Len(parts)
        /\ \A k \in 1..Len(parts) :
              parts[k] = <<FileTypes[k], parts[k][2]>> /\ FileTypes[k] \in WireTypes
        /\ \A read :
              (/\ IsSeq(read) /\ Len(read) = Len(parts)
               /\ \A k \in 1..Len(parts) : read[k] = parts[k][2]) => Made(File, 0, read) = v
    BY <1>3, <1>4, <1>7, <1>8
  <1> QED
    BY <1>1, <1>2, <1>9 DEF Agrees

\* An Option has a part when its flag is not 0.
LEMMA OptAgrees ==
    ASSUME NEW t \in OptionTypes, NEW v
    PROVE  Agrees(Opt(t), v)
  <1>1. Opt(t)[1] = "opt" /\ Opt(t)[2] = t /\ t \in WireTypes
    BY TypesOnWire, BodyOnWire DEF Opt
  <1>2. CASE v = None
    <2>1. Parts(Opt(t), v) = {<< >>} /\ HeadOf(Opt(t), v) = 0
      BY <1>1, <1>2 DEF Parts, HeadOf
    <2>2. PartTypes(Opt(t), 0) = << >> /\ \A read : Made(Opt(t), 0, read) = None
      BY <1>1 DEF PartTypes, Made
    <2> QED
      BY <1>2, <2>1, <2>2 DEF Agrees
  <1>3. CASE v # None
    <2>1. Parts(Opt(t), v) = {<< <<t, v>> >>} /\ HeadOf(Opt(t), v) = 1
      BY <1>1, <1>3 DEF Parts, HeadOf
    <2>2. PartTypes(Opt(t), 1) = <<t>> /\ \A read : Made(Opt(t), 1, read) = read[1]
      BY <1>1 DEF PartTypes, Made
    <2>3. /\ Len(<< <<t, v>> >>) = 1 /\ DOMAIN << <<t, v>> >> = 1..1 /\ << <<t, v>> >>[1] = <<t, v>>
          /\ Len(<<t>>) = 1 /\ <<t>>[1] = t
      OBVIOUS
    <2> DEFINE one == << <<t, v>> >>
               types == PartTypes(Opt(t), 1)
    <2>4. \A read : (/\ IsSeq(read) /\ Len(read) = Len(one)
                     /\ \A k \in 1..Len(one) : read[k] = one[k][2]) => Made(Opt(t), 1, read) = v
      BY <2>2, <2>3
    <2>5. /\ Len(one) \in Nat /\ DOMAIN one = 1..Len(one) /\ Len(types) = Len(one)
          /\ \A k \in 1..Len(one) : one[k] = <<types[k], one[k][2]>> /\ types[k] \in WireTypes
      BY <1>1, <2>2, <2>3
    <2>6. Parts(Opt(t), v) = {one}
      BY <2>1
    <2> HIDE DEF one
    <2> QED
      BY <2>1, <2>4, <2>5, <2>6 DEF Agrees
  <1> QED
    BY <1>2, <1>3

\* A list has as many parts as its count.
LEMMA ListAgrees ==
    ASSUME NEW t \in ElementTypes, NEW v, IsRow(v)
    PROVE  Agrees(List(t), v)
  <1> DEFINE n == Len(v)
             parts == [k \in 1..n |-> <<t, v[k]>>]
             types == [k \in 1..n |-> t]
  <1>1. List(t)[1] = "list" /\ List(t)[2] = t /\ t \in WireTypes
    BY TypesOnWire, BodyOnWire DEF List
  <1>2. n \in Nat /\ DOMAIN v = 1..n /\ IsSeq(v)
    BY TwoAndFour DEF IsRow, IsSeq
  <1>3. Parts(List(t), v) = {parts} /\ HeadOf(List(t), v) = n
    BY <1>1, <1>2 DEF Parts, HeadOf
  <1>4. PartTypes(List(t), n) = types /\ \A read : Made(List(t), n, read) = read
    BY <1>1 DEF PartTypes, Made
  <1>5. Len(parts) = n /\ DOMAIN parts = 1..n /\ Len(types) = n
    BY <1>2
  <1>6. \A k \in 1..n : parts[k] = <<t, v[k]>> /\ types[k] = t
    OBVIOUS
  <1> HIDE DEF n, parts, types
  <1>7. ASSUME NEW read, IsSeq(read), Len(read) = n, \A k \in 1..n : read[k] = parts[k][2]
        PROVE  read = v
    <2>1. \A k \in 1..n : read[k] = v[k]
      BY <1>6, <1>7
    <2> QED
      BY <1>2, <1>7, <2>1, SameElements DEF n
  <1> QED
    BY <1>1, <1>2, <1>3, <1>4, <1>5, <1>6, <1>7 DEF Agrees

-----------------------------------------------------------------------------
(* The parts of structs, unions and tables.                                *)

\* The parts that are written for fields have the types of the fields.
LEMMA PartsOfFields ==
    ASSUME NEW fields, GoodFields(fields), NEW v
    PROVE  LET parts == FieldParts(fields, v)
               types == [k \in DOMAIN fields |-> fields[k][2]] IN
           /\ Len(parts) = Len(fields) /\ DOMAIN parts = 1..Len(fields)
           /\ Len(types) = Len(fields) /\ Len(fields) \in Nat
           /\ \A k \in 1..Len(fields) :
                 /\ parts[k] = <<types[k], v[fields[k][1]]>>
                 /\ types[k] \in WireTypes
  BY BodyOnWire DEF GoodFields, FieldParts

\* The reader makes the struct of its fields.
LEMMA StructAgrees ==
    ASSUME NEW s \in Structs, NEW v, Holds(Struct(s), v)
    PROVE  Agrees(Struct(s), v)
  <1> DEFINE fields == ReadFields(s)
             parts == FieldParts(fields, v)
             types == [k \in DOMAIN fields |-> fields[k][2]]
  <1>1. Struct(s)[1] = "struct" /\ Struct(s)[2] = s /\ WriteFields(s) = fields /\ GoodFields(fields)
    BY FieldsOfStructs, StructsGood DEF Struct
  <1>2. IsRecord(v, FieldNames(fields))
    BY <1>1 DEF Holds
  <1>3. Parts(Struct(s), v) = {parts} /\ HeadOf(Struct(s), v) = 0
    BY <1>1 DEF Parts, HeadOf
  <1>4. PartTypes(Struct(s), 0) = types
    BY <1>1 DEF PartTypes
  <1>5. \A read : Made(Struct(s), 0, read) = Record(fields, read)
    BY <1>1 DEF Made
  <1> HIDE DEF fields
  <1>6. /\ Len(parts) = Len(fields) /\ DOMAIN parts = 1..Len(fields)
        /\ Len(types) = Len(fields) /\ Len(fields) \in Nat /\ DOMAIN fields = 1..Len(fields)
        /\ \A k \in 1..Len(fields) : /\ parts[k] = <<types[k], v[fields[k][1]]>>
                                     /\ types[k] \in WireTypes
    <2>1. DOMAIN fields = 1..Len(fields)
      BY <1>1 DEF GoodFields
    <2> QED
      BY <1>1, <2>1, PartsOfFields
  <1> HIDE DEF parts, types
  <1>7. ASSUME NEW read, \A k \in 1..Len(fields) : read[k] = parts[k][2]
        PROVE  Record(fields, read) = v
    <2>1. ASSUME NEW f \in FieldNames(fields)
          PROVE  FieldRead(fields, read, f) = v[f]
      <3>1. PICK k \in DOMAIN fields : f = fields[k][1]
        BY DEF FieldNames
      <3>2. FieldRead(fields, read, f) = read[k]
        BY <1>1, <3>1, FieldsReadBack
      <3>3. read[k] = v[fields[k][1]]
        BY <1>6, <1>7
      <3> QED
        BY <3>1, <3>2, <3>3
    <2>2. Record(fields, read) = [f \in FieldNames(fields) |-> v[f]]
      BY <2>1 DEF Record
    <2> QED
      BY <1>2, <2>2 DEF IsRecord
  <1> QED
    BY <1>3, <1>4, <1>5, <1>6, <1>7 DEF Agrees

\* The reader finds the arm by its tag and makes the value of it.
LEMMA UnionAgrees ==
    ASSUME NEW u \in Unions, NEW v, Holds(Union(u), v)
    PROVE  Agrees(Union(u), v)
  <1> DEFINE arm == WriteArm(u, v)
             fields == arm.fields
             tag == WriteTagOf(u, v)
             parts == FieldParts(fields, v)
             types == [k \in DOMAIN fields |-> fields[k][2]]
             names == FieldNames(fields)
  <1>1. Union(u)[1] = "union" /\ Union(u)[2] = u
    BY DEF Union
  <1>2. /\ ReadArms(u)[tag] = arm /\ arm.label = v[TagName(u)]
        /\ GoodFields(fields) /\ TagName(u) \notin names
    BY WrittenArm
  <1>3. IsRecord(v, names \cup {TagName(u)})
    BY <1>1 DEF Holds
  <1>4. Parts(Union(u), v) = {parts} /\ HeadOf(Union(u), v) = tag
    BY <1>1 DEF Parts, HeadOf
  <1>5. PartTypes(Union(u), tag) = types
    BY <1>1, <1>2 DEF PartTypes
  <1>6. \A read : Made(Union(u), tag, read) = Tagged(u, arm, read)
    BY <1>1, <1>2 DEF Made
  <1> HIDE DEF arm, tag
  <1>7. /\ Len(parts) = Len(fields) /\ DOMAIN parts = 1..Len(fields)
        /\ Len(types) = Len(fields) /\ Len(fields) \in Nat /\ DOMAIN fields = 1..Len(fields)
        /\ \A k \in 1..Len(fields) : /\ parts[k] = <<types[k], v[fields[k][1]]>>
                                     /\ types[k] \in WireTypes
    <2>1. DOMAIN fields = 1..Len(fields)
      BY <1>2 DEF GoodFields
    <2> HIDE DEF fields
    <2> QED
      BY <1>2, <2>1, PartsOfFields
  <1> HIDE DEF parts, types
  <1>8. ASSUME NEW read, \A k \in 1..Len(fields) : read[k] = parts[k][2]
        PROVE  Tagged(u, arm, read) = v
    <2>1. ASSUME NEW f \in names
          PROVE  f # TagName(u) /\ FieldRead(fields, read, f) = v[f]
      <3>1. PICK k \in DOMAIN fields : f = fields[k][1]
        BY DEF FieldNames
      <3>2. FieldRead(fields, read, f) = read[k]
        BY <1>2, <3>1, FieldsReadBack
      <3>3. read[k] = v[fields[k][1]]
        BY <1>7, <1>8
      <3> QED
        BY <1>2, <3>1, <3>2, <3>3
    <2> HIDE DEF names
    <2>2. Tagged(u, arm, read) = [f \in names \cup {TagName(u)} |-> v[f]]
      BY <1>2, <2>1 DEF Tagged, names
    <2> QED
      BY <1>3, <2>2 DEF IsRecord
  <1> QED
    BY <1>4, <1>5, <1>6, <1>7, <1>8 DEF Agrees

\* The reader makes the table of its rows, in whatever order they were written.
LEMMA TableAgrees ==
    ASSUME NEW t \in WireTypes, NEW v, Holds(Table(t), v)
    PROVE  Agrees(Table(t), v)
  <1> DEFINE names == DOMAIN v
             n == Cardinality(names)
             types == [k \in 1..n |-> t]
             partsOf(row) == [k \in DOMAIN row |-> <<t, [key |-> row[k], value |-> v[row[k]]]>>]
  <1>1. Table(t)[1] = "table" /\ Table(t)[2] = t
    BY DEF Table
  <1>2. v = [f \in names |-> v[f]] /\ IsFiniteSet(names)
    BY <1>1 DEF Holds, IsRecord
  <1>3. n \in Nat
    BY <1>2, FS_CardinalityType
  <1>4. Parts(Table(t), v) = {partsOf(row) : row \in Sorted(names)} /\ HeadOf(Table(t), v) = n
    BY <1>1 DEF Parts, HeadOf
  <1>5. PartTypes(Table(t), n) = types
    BY <1>1 DEF PartTypes
  <1>6. \A read : Made(Table(t), n, read) = Indexed(read)
    BY <1>1 DEF Made
  <1> HIDE DEF n
  <1>7. Len(types) = n /\ \A k \in 1..n : types[k] = t
    BY <1>3
  <1> HIDE DEF types
  <1>8. ASSUME NEW row \in Sorted(names)
        PROVE  /\ DOMAIN row = 1..n
               /\ \A k \in 1..n : row[k] \in names
               /\ \A f \in names : \E k \in 1..n : row[k] = f
               /\ \A j, k \in 1..n : row[j] = row[k] => j = k
    <2>1. row \in [1..n -> names] /\ (\A f \in names : \E k \in DOMAIN row : row[k] = f)
          /\ \A j, k \in DOMAIN row : j < k => Before(row[j], row[k])
      BY DEF Sorted, n
    <2>2. ASSUME NEW j \in 1..n, NEW k \in 1..n, row[j] = row[k], j # k
          PROVE  FALSE
      <3>1. j < k \/ k < j
        BY <1>3, <2>2
      <3>2. Before(row[j], row[k]) \/ Before(row[k], row[j])
        BY <2>1, <3>1
      <3> QED
        BY <2>2, <3>2 DEF Before
    <2> QED
      BY <2>1, <2>2
  <1>9. ASSUME NEW row \in Sorted(names), NEW read, IsSeq(read), Len(read) = n,
               \A k \in 1..n : read[k] = [key |-> row[k], value |-> v[row[k]]]
        PROVE  Indexed(read) = v
    <2>1. DOMAIN read = 1..n
      BY <1>9 DEF IsSeq
    <2>2. \A k \in 1..n : read[k].key = row[k] /\ read[k].value = v[row[k]]
      BY <1>9
    <2>3. {read[k].key : k \in DOMAIN read} = names
      <3>1. \A k \in DOMAIN read : read[k].key \in names
        BY <1>8, <2>1, <2>2
      <3>2. \A f \in names : \E k \in DOMAIN read : read[k].key = f
        BY <1>8, <2>1, <2>2
      <3> HIDE DEF names
      <3> QED
        BY <3>1, <3>2
    <2> DEFINE last(key) == CHOOSE k \in DOMAIN read :
                  /\ read[k].key = key
                  /\ \A j \in DOMAIN read : read[j].key = key => j <= k
    <2>4. ASSUME NEW f \in names
          PROVE  read[last(f)].value = v[f]
      <3>1. PICK k \in 1..n : row[k] = f
        BY <1>8
      <3>2. k \in DOMAIN read /\ read[k].key = f /\ \A j \in DOMAIN read : read[j].key = f => j <= k
        BY <1>3, <1>8, <2>1, <2>2, <3>1
      <3>3. last(f) \in DOMAIN read /\ read[last(f)].key = f
        BY <3>2
      <3>4. last(f) = k
        BY <1>8, <2>1, <2>2, <3>1, <3>3, SMTT(30)
      <3> QED
        BY <2>2, <3>1, <3>4
    <2>5. Indexed(read) = [f \in names |-> read[last(f)].value]
      BY <2>3 DEF Indexed
    <2> HIDE DEF last
    <2> QED
      BY <1>2, <2>4, <2>5
  <1>10. ASSUME NEW row \in Sorted(names)
         PROVE  /\ Len(partsOf(row)) = n /\ DOMAIN partsOf(row) = 1..n
                /\ \A k \in 1..n : partsOf(row)[k] = <<t, [key |-> row[k], value |-> v[row[k]]]>>
    BY <1>3, <1>8
  <1> HIDE DEF partsOf
  <1>11. ASSUME NEW parts \in Parts(Table(t), v)
         PROVE  /\ Len(parts) \in Nat /\ DOMAIN parts = 1..Len(parts) /\ Len(types) = Len(parts)
                /\ \A k \in 1..Len(parts) :
                      parts[k] = <<types[k], parts[k][2]>> /\ types[k] \in WireTypes
                /\ \A read :
                      (/\ IsSeq(read) /\ Len(read) = Len(parts)
                       /\ \A k \in 1..Len(parts) : read[k] = parts[k][2]) => Indexed(read) = v
    <2>1. PICK row \in Sorted(names) : parts = partsOf(row)
      BY <1>4
    <2>2. /\ Len(parts) = n /\ DOMAIN parts = 1..n
          /\ \A k \in 1..n : parts[k] = <<t, [key |-> row[k], value |-> v[row[k]]]>>
      BY <1>10, <2>1
    <2>3. ASSUME NEW read, IsSeq(read), Len(read) = Len(parts),
                 \A k \in 1..Len(parts) : read[k] = parts[k][2]
          PROVE  Indexed(read) = v
      <3>1. \A k \in 1..n : read[k] = [key |-> row[k], value |-> v[row[k]]]
        BY <2>2, <2>3
      <3> QED
        BY <1>9, <2>2, <2>3, <3>1
    <2>4. \A k \in 1..n : parts[k] = <<types[k], parts[k][2]>> /\ types[k] \in WireTypes
      BY <1>7, <2>2
    <2> QED
      BY <1>3, <1>7, <2>2, <2>3, <2>4
  <1> QED
    BY <1>4, <1>5, <1>6, <1>11 DEF Agrees

-----------------------------------------------------------------------------
(* The values that can be encoded.                                         *)

\* What kinds of types there are.
LEMMA KindsOfTypes ==
    ASSUME NEW type \in CallTypes
    PROVE  \/ type \in PlainTypes
           \/ type = File
           \/ type = Table(Struct("probe"))
           \/ \E s \in Structs : type = Struct(s)
           \/ \E u \in Unions : type = Union(u)
           \/ \E t \in OptionTypes : type = Opt(t)
           \/ \E t \in ElementTypes : type = List(t)
  BY DEF CallTypes, WireTypes, BodyTypes, PlainTypes

\* So the reader makes of the parts of any value that value.
LEMMA TypeAgrees ==
    ASSUME NEW type \in CallTypes, NEW v, Holds(type, v)
    PROVE  Agrees(type, v)
  <1>1. CASE type \in PlainTypes
    BY <1>1, PlainAgrees
  <1>2. CASE type = File
    BY <1>2, FileAgrees
  <1>3. CASE type = Table(Struct("probe"))
    <2>1. Struct("probe") \in WireTypes
      BY TypesOnWire, BodyOnWire DEF Structs
    <2> QED
      BY <1>3, <2>1, TableAgrees
  <1>4. ASSUME NEW s \in Structs, type = Struct(s) PROVE Agrees(type, v)
    BY <1>4, StructAgrees
  <1>5. ASSUME NEW u \in Unions, type = Union(u) PROVE Agrees(type, v)
    BY <1>5, UnionAgrees
  <1>6. ASSUME NEW t \in OptionTypes, type = Opt(t) PROVE Agrees(type, v)
    BY <1>6, OptAgrees
  <1>7. ASSUME NEW t \in ElementTypes, type = List(t) PROVE Agrees(type, v)
    <2>1. IsRow(v)
      BY <1>7 DEF Holds, List
    <2> QED
      BY <1>7, <2>1, ListAgrees
  <1> QED
    BY <1>1, <1>2, <1>3, <1>4, <1>5, <1>6, <1>7, KindsOfTypes

\* A value that can be encoded: it and everything in it hold what their types do.
Good(type, v) == \E values : Typed(values) /\ <<type, v>> \in values

\* A value that can be encoded holds what its type does.
LEMMA GoodHolds ==
    ASSUME NEW type, NEW v, Good(type, v)
    PROVE  Holds(type, v)
  <1>1. PICK values : Typed(values) /\ <<type, v>> \in values
    BY DEF Good
  <1>2. \A x \in values : Holds(x[1], x[2])
    BY <1>1 DEF Typed
  <1>3. Holds(<<type, v>>[1], <<type, v>>[2])
    BY <1>1, <1>2
  <1> QED
    BY <1>3

\* So do its parts.
LEMMA GoodParts ==
    ASSUME NEW type, NEW v, Good(type, v), NEW parts \in Parts(type, v), NEW k \in DOMAIN parts,
           parts[k] = <<parts[k][1], parts[k][2]>>
    PROVE  Good(parts[k][1], parts[k][2])
  <1>1. PICK values : Typed(values) /\ <<type, v>> \in values
    BY DEF Good
  <1>2. \A x \in values : \A p \in Parts(x[1], x[2]) : \A j \in DOMAIN p : p[j] \in values
    BY <1>1 DEF Typed
  <1>3. \A p \in Parts(<<type, v>>[1], <<type, v>>[2]) : \A j \in DOMAIN p : p[j] \in values
    BY <1>1, <1>2
  <1>4. parts[k] \in values
    BY <1>3
  <1> QED
    BY <1>1, <1>4 DEF Good

\* A value with such parts is such a value.
LEMMA GoodWhole ==
    ASSUME NEW type, NEW v, Holds(type, v),
           \A parts \in Parts(type, v) : \A k \in DOMAIN parts :
               parts[k] = <<parts[k][1], parts[k][2]>> /\ Good(parts[k][1], parts[k][2])
    PROVE  Good(type, v)
  <1> DEFINE inside(x) == CHOOSE values : Typed(values) /\ x \in values
             below == UNION {inside(x) : x \in UNION {{parts[k] : k \in DOMAIN parts} :
                                                      parts \in Parts(type, v)}}
             values == below \cup {<<type, v>>}
  <1>1. ASSUME NEW parts \in Parts(type, v), NEW k \in DOMAIN parts
        PROVE  Typed(inside(parts[k])) /\ parts[k] \in inside(parts[k])
    <2>1. \E vs : Typed(vs) /\ parts[k] \in vs
      BY DEF Good
    <2> QED
      BY <2>1
  <1> HIDE DEF inside
  <1>2. ASSUME NEW parts \in Parts(type, v), NEW k \in DOMAIN parts
        PROVE  parts[k] \in below
    BY <1>1
  <1>3. ASSUME NEW x \in below
        PROVE  \E vs : Typed(vs) /\ x \in vs /\ vs \subseteq below
    <2>0. PICK parts \in Parts(type, v) : \E k \in DOMAIN parts : x \in inside(parts[k])
      OBVIOUS
    <2>1. PICK k \in DOMAIN parts : x \in inside(parts[k])
      BY <2>0
    <2>2. inside(parts[k]) \subseteq below
      OBVIOUS
    <2> QED
      BY <1>1, <2>1, <2>2
  <1> HIDE DEF below
  <1>4. ASSUME NEW x \in values
        PROVE  /\ Holds(x[1], x[2])
               /\ \A parts \in Parts(x[1], x[2]) : \A k \in DOMAIN parts : parts[k] \in values
    <2>1. CASE x \in below
      BY <1>3, <2>1 DEF Typed
    <2>2. CASE x = <<type, v>>
      BY <1>2, <2>2
    <2> QED
      BY <2>1, <2>2
  <1>5. Typed(values)
    BY <1>4 DEF Typed
  <1> QED
    BY <1>5 DEF Good

\* A value without parts can be encoded.
LEMMA GoodPlain ==
    ASSUME NEW type \in PlainTypes, NEW v, Holds(type, v)
    PROVE  Good(type, v)
  <1>1. type[1] \in {"magic", "version", "u16", "u32", "u64", "bool", "str", "bytes", "enum"}
    BY DEF PlainTypes, ValueTypes, MagicBytes, VersionByte, U16, U32, U64, Bool, Str, Bytes, Enum
  <1>2. Parts(type, v) = {<< >>}
    BY <1>1 DEF Parts
  <1>3. \A parts \in Parts(type, v) : DOMAIN parts = {}
    BY <1>2
  <1> QED
    BY <1>3, GoodWhole

\* What a read_ function may find in front of a value.
HeadOk(type, head) ==
    \/ type \in PlainTypes /\ Holds(type, head)
    \/ type[1] = "opt" /\ head \in Byte
    \/ type[1] \in {"list", "table"} /\ head \in 0..(Four - 1)
    \/ type[1] = "union" /\ head \in DOMAIN ReadArms(type[2])
    \/ type[1] \in {"struct", "file"} /\ head = 0

\* Every part was read as a value that could be encoded.
GoodRead(type, head, read) ==
    LET types == PartTypes(type, head) IN
    /\ IsSeq(read) /\ Len(read) = Len(types)
    /\ \A k \in 1..Len(types) : types[k] \in WireTypes /\ Good(types[k], read[k])

-----------------------------------------------------------------------------
(* What is made of parts that can be encoded can be encoded.               *)

\* The types that are read for fields are those of the fields.
LEMMA TypesOfFields ==
    ASSUME NEW fields, GoodFields(fields)
    PROVE  LET types == [k \in DOMAIN fields |-> fields[k][2]] IN
           /\ Len(types) = Len(fields) /\ Len(fields) \in Nat /\ DOMAIN fields = 1..Len(fields)
           /\ \A k \in 1..Len(fields) : types[k] = fields[k][2] /\ types[k] \in BodyTypes
  BY DEF GoodFields

\* The kinds of types without parts.
LEMMA PlainKind ==
    ASSUME NEW type \in PlainTypes
    PROVE  type[1] \in {"magic", "version", "u16", "u32", "u64", "bool", "str", "bytes", "enum"}
  BY DEF PlainTypes, ValueTypes, MagicBytes, VersionByte, U16, U32, U64, Bool, Str, Bytes, Enum

\* The reader asks only for parts of types of the wire format.
LEMMA PartTypesOk ==
    ASSUME NEW type \in CallTypes, NEW head, HeadOk(type, head)
    PROVE  /\ Len(PartTypes(type, head)) \in Nat
           /\ \A k \in 1..Len(PartTypes(type, head)) :
                 /\ PartTypes(type, head)[k] \in WireTypes
                 /\ type # File => PartTypes(type, head)[k] \in BodyTypes
  <1>1. CASE type \in PlainTypes
    <2>1. PartTypes(type, head) = << >>
      BY <1>1, PlainKind DEF PartTypes
    <2> QED
      BY <2>1
  <1>2. CASE type = File
    <2>1. PartTypes(type, head) = FileTypes
      BY <1>2 DEF PartTypes, File
    <2>2. /\ Len(FileTypes) = 3 /\ FileTypes[1] = MagicBytes /\ FileTypes[2] = VersionByte
          /\ FileTypes[3] = Struct("program")
      BY DEF FileTypes
    <2>3. MagicBytes \in WireTypes /\ VersionByte \in WireTypes /\ Struct("program") \in WireTypes
      BY TypesOnWire, BodyOnWire DEF PlainTypes, Structs
    <2>4. \A k \in 1..3 : k \in {1, 2, 3}
      OBVIOUS
    <2> QED
      BY <1>2, <2>1, <2>2, <2>3, <2>4
  <1>3. ASSUME type[1] \in {"list", "table"}, type[2] \in BodyTypes
        PROVE  /\ Len(PartTypes(type, head)) \in Nat
               /\ \A k \in 1..Len(PartTypes(type, head)) : PartTypes(type, head)[k] \in BodyTypes
    <2>1. head \in Nat
      BY <1>3, PlainKind, TwoAndFour DEF HeadOk
    <2>2. PartTypes(type, head) = [k \in 1..head |-> type[2]]
      BY <1>3 DEF PartTypes
    <2> QED
      BY <1>3, <2>1, <2>2
  <1>4. ASSUME NEW s \in Structs, type = Struct(s)
        PROVE  /\ Len(PartTypes(type, head)) \in Nat
               /\ \A k \in 1..Len(PartTypes(type, head)) : PartTypes(type, head)[k] \in BodyTypes
    <2> DEFINE fields == ReadFields(s)
    <2>1. PartTypes(type, head) = [k \in DOMAIN fields |-> fields[k][2]]
      BY <1>4 DEF PartTypes, Struct
    <2>2. GoodFields(fields)
      BY StructsGood
    <2> HIDE DEF fields
    <2> DEFINE types == [k \in DOMAIN fields |-> fields[k][2]]
    <2>4. Len(types) \in Nat /\ \A k \in 1..Len(types) : types[k] \in BodyTypes
      BY <2>2, TypesOfFields
    <2> HIDE DEF types
    <2>5. PartTypes(type, head) = types
      BY <2>1 DEF types
    <2> QED
      BY <2>4, <2>5
  <1>5. ASSUME NEW u \in Unions, type = Union(u)
        PROVE  /\ Len(PartTypes(type, head)) \in Nat
               /\ \A k \in 1..Len(PartTypes(type, head)) : PartTypes(type, head)[k] \in BodyTypes
    <2> DEFINE fields == ReadArms(u)[head].fields
    <2>1. PartTypes(type, head) = [k \in DOMAIN fields |-> fields[k][2]]
      BY <1>5 DEF PartTypes, Union
    <2>2. head \in DOMAIN ReadArms(u)
      BY <1>5, PlainKind DEF HeadOk, Union
    <2>3. GoodFields(fields)
      <3> DEFINE v == [f \in {TagName(u)} |-> ReadArms(u)[head].label]
      <3>1. v[TagName(u)] = ReadArms(u)[head].label
        OBVIOUS
      <3> HIDE DEF v
      <3> QED
        BY <2>2, <3>1, ReadArmIsWritten
    <2> HIDE DEF fields
    <2> DEFINE types == [k \in DOMAIN fields |-> fields[k][2]]
    <2>4. Len(types) \in Nat /\ \A k \in 1..Len(types) : types[k] \in BodyTypes
      BY <2>3, TypesOfFields
    <2> HIDE DEF types
    <2>5. PartTypes(type, head) = types
      BY <2>1 DEF types
    <2> QED
      BY <2>4, <2>5
  <1>6. ASSUME NEW t \in OptionTypes, type = Opt(t)
        PROVE  /\ Len(PartTypes(type, head)) \in Nat
               /\ \A k \in 1..Len(PartTypes(type, head)) : PartTypes(type, head)[k] \in BodyTypes
    <2>1. PartTypes(type, head) \in {<< >>, <<t>>}
      BY <1>6 DEF PartTypes, Opt
    <2>2. t \in BodyTypes
      BY TypesOnWire
    <2> QED
      BY <2>1, <2>2
  <1>7. ASSUME NEW t \in ElementTypes, type = List(t)
        PROVE  type[1] \in {"list", "table"} /\ type[2] \in BodyTypes
    BY <1>7, TypesOnWire DEF List
  <1>8. CASE type = Table(Struct("probe"))
    <2>1. type[1] \in {"list", "table"} /\ type[2] \in BodyTypes
      BY <1>8, TypesOnWire DEF Table, Structs
    <2> QED
      BY <1>3, <2>1, BodyOnWire
  <1> QED
    BY <1>1, <1>2, <1>3, <1>4, <1>5, <1>6, <1>7, <1>8, KindsOfTypes, BodyOnWire

\* A struct made of values that can be encoded can be encoded.
LEMMA StructMade ==
    ASSUME NEW s \in Structs, NEW read, GoodRead(Struct(s), 0, read)
    PROVE  Good(Struct(s), Made(Struct(s), 0, read))
  <1> DEFINE fields == ReadFields(s)
             types == [k \in DOMAIN fields |-> fields[k][2]]
             v == Record(fields, read)
             parts == FieldParts(fields, v)
  <1>1. Struct(s)[1] = "struct" /\ Struct(s)[2] = s /\ WriteFields(s) = fields /\ GoodFields(fields)
    BY FieldsOfStructs, StructsGood DEF Struct
  <1>2. PartTypes(Struct(s), 0) = types /\ Made(Struct(s), 0, read) = v
    BY <1>1 DEF PartTypes, Made
  <1>3. Parts(Struct(s), v) = {parts}
    BY <1>1 DEF Parts
  <1>4. Holds(Struct(s), v) <=> IsRecord(v, FieldNames(fields))
    BY <1>1 DEF Holds
  <1> HIDE DEF fields
  <1>5. v = [f \in FieldNames(fields) |-> FieldRead(fields, read, f)]
    BY DEF Record
  <1>6. IsRecord(v, FieldNames(fields))
    BY <1>5 DEF IsRecord
  <1> HIDE DEF v
  <1>7. /\ Len(types) = Len(fields) /\ DOMAIN fields = 1..Len(fields)
        /\ DOMAIN parts = 1..Len(fields)
        /\ \A k \in 1..Len(fields) : parts[k] = <<types[k], v[fields[k][1]]>>
    <2>1. DOMAIN fields = 1..Len(fields)
      BY <1>1 DEF GoodFields
    <2> QED
      BY <1>1, <2>1, PartsOfFields
  <1>8. \A k \in 1..Len(fields) : v[fields[k][1]] = read[k]
    BY <1>1, <1>5, <1>7, FieldsReadBack
  <1> HIDE DEF parts, types
  <1>9. \A k \in 1..Len(fields) : parts[k] = <<types[k], read[k]>> /\ Good(types[k], read[k])
    BY <1>2, <1>7, <1>8 DEF GoodRead
  <1>10. \A p \in Parts(Struct(s), v) : \A k \in DOMAIN p :
            p[k] = <<p[k][1], p[k][2]>> /\ Good(p[k][1], p[k][2])
    <2>1. ASSUME NEW k \in DOMAIN parts
          PROVE  parts[k] = <<parts[k][1], parts[k][2]>> /\ Good(parts[k][1], parts[k][2])
      <3>1. parts[k] = <<types[k], read[k]>> /\ Good(types[k], read[k])
        BY <1>7, <1>9
      <3>2. parts[k][1] = types[k] /\ parts[k][2] = read[k]
        BY <3>1
      <3> QED
        BY <3>1, <3>2
    <2> QED
      BY <1>3, <2>1
  <1> QED
    BY <1>2, <1>4, <1>6, <1>10, GoodWhole

\* A tagged value can, whatever its tag was.
LEMMA UnionMade ==
    ASSUME NEW u \in Unions, NEW tag \in DOMAIN ReadArms(u), NEW read, GoodRead(Union(u), tag, read)
    PROVE  Good(Union(u), Made(Union(u), tag, read))
  <1> DEFINE arm == ReadArms(u)[tag]
             fields == arm.fields
             names == FieldNames(fields)
             types == [k \in DOMAIN fields |-> fields[k][2]]
             v == Tagged(u, arm, read)
             parts == FieldParts(fields, v)
  <1>1. Union(u)[1] = "union" /\ Union(u)[2] = u
    BY DEF Union
  <1>2. PartTypes(Union(u), tag) = types /\ Made(Union(u), tag, read) = v
    BY <1>1 DEF PartTypes, Made
  <1>3. /\ v = [f \in names \cup {TagName(u)} |->
                  IF f = TagName(u) THEN arm.label ELSE FieldRead(fields, read, f)]
        /\ v[TagName(u)] = arm.label
    BY DEF Tagged
  <1>4. /\ IF u = "instr" THEN v.op \in DOMAIN OpCode
           ELSE \E k \in DOMAIN WriteArms(u) : WriteArms(u)[k].label = v.tag
        /\ WriteArm(u, v) = arm
        /\ GoodFields(fields) /\ TagName(u) \notin names
    <2> HIDE DEF v
    <2> QED
      BY <1>3, ReadArmIsWritten
  <1> HIDE DEF arm
  <1>5. IsRecord(v, names \cup {TagName(u)})
    BY <1>3 DEF IsRecord
  <1> HIDE DEF v
  <1>6. Holds(Union(u), v)
    BY <1>1, <1>4, <1>5 DEF Holds
  <1>7. Parts(Union(u), v) = {parts}
    BY <1>1, <1>4 DEF Parts
  <1> HIDE DEF fields
  <1>8. /\ Len(types) = Len(fields) /\ DOMAIN fields = 1..Len(fields)
        /\ DOMAIN parts = 1..Len(fields)
        /\ \A k \in 1..Len(fields) : parts[k] = <<types[k], v[fields[k][1]]>>
    <2>1. DOMAIN fields = 1..Len(fields)
      BY <1>4 DEF GoodFields
    <2> QED
      BY <1>4, <2>1, PartsOfFields
  <1>9. \A k \in 1..Len(fields) : v[fields[k][1]] = read[k]
    <2>1. \A k \in DOMAIN fields : fields[k][1] \in names /\ FieldRead(fields, read, fields[k][1]) = read[k]
      BY <1>4, FieldsReadBack
    <2> HIDE DEF names
    <2> QED
      BY <1>3, <1>4, <1>8, <2>1
  <1> HIDE DEF parts, types
  <1>10. \A k \in 1..Len(fields) : parts[k] = <<types[k], read[k]>> /\ Good(types[k], read[k])
    BY <1>2, <1>8, <1>9 DEF GoodRead
  <1>11. \A p \in Parts(Union(u), v) : \A k \in DOMAIN p :
            p[k] = <<p[k][1], p[k][2]>> /\ Good(p[k][1], p[k][2])
    <2>1. ASSUME NEW k \in DOMAIN parts
          PROVE  parts[k] = <<parts[k][1], parts[k][2]>> /\ Good(parts[k][1], parts[k][2])
      <3>1. parts[k] = <<types[k], read[k]>> /\ Good(types[k], read[k])
        BY <1>8, <1>10
      <3>2. parts[k][1] = types[k] /\ parts[k][2] = read[k]
        BY <3>1
      <3> QED
        BY <3>1, <3>2
    <2> QED
      BY <1>7, <2>1
  <1> QED
    BY <1>2, <1>6, <1>11, GoodWhole

\* An Option can, whatever its flag was.
LEMMA OptMade ==
    ASSUME NEW t \in OptionTypes, NEW head \in Byte, NEW read, GoodRead(Opt(t), head, read)
    PROVE  Good(Opt(t), Made(Opt(t), head, read))
  <1> DEFINE v == Made(Opt(t), head, read)
  <1>1. Opt(t)[1] = "opt" /\ Opt(t)[2] = t
    BY DEF Opt
  <1>2. Holds(Opt(t), v)
    BY <1>1 DEF Holds
  <1>3. v # None => head # 0 /\ v = read[1]
    BY <1>1 DEF Made
  <1>4. head # 0 => PartTypes(Opt(t), head) = <<t>>
    BY <1>1 DEF PartTypes
  <1>5. Len(<<t>>) = 1 /\ <<t>>[1] = t
    OBVIOUS
  <1>6. head # 0 => Good(t, read[1])
    BY <1>4, <1>5 DEF GoodRead
  <1>7. Parts(Opt(t), v) = {IF v = None THEN << >> ELSE << <<t, v>> >>}
    BY <1>1 DEF Parts
  <1> HIDE DEF v
  <1>8. \A p \in Parts(Opt(t), v) : \A k \in DOMAIN p :
            p[k] = <<p[k][1], p[k][2]>> /\ Good(p[k][1], p[k][2])
    BY <1>3, <1>6, <1>7
  <1>9. Good(Opt(t), v)
    BY <1>2, <1>8, GoodWhole
  <1> QED
    BY <1>9 DEF v

\* A list can.
LEMMA ListMade ==
    ASSUME NEW t \in ElementTypes, NEW head \in 0..(Four - 1), NEW read, GoodRead(List(t), head, read)
    PROVE  Good(List(t), Made(List(t), head, read))
  <1> DEFINE types == [k \in 1..head |-> t]
             parts == [k \in DOMAIN read |-> <<t, read[k]>>]
  <1>1. List(t)[1] = "list" /\ List(t)[2] = t
    BY DEF List
  <1>2. PartTypes(List(t), head) = types /\ Made(List(t), head, read) = read
        /\ Parts(List(t), read) = {parts}
    BY <1>1 DEF PartTypes, Made, Parts
  <1>3. head \in Nat /\ Len(types) = head /\ \A k \in 1..head : types[k] = t
    BY TwoAndFour
  <1> HIDE DEF types
  <1>4. IsSeq(read) /\ Len(read) = head /\ \A k \in 1..head : Good(t, read[k])
    BY <1>2, <1>3 DEF GoodRead
  <1>5. Holds(List(t), read)
    BY <1>1, <1>4 DEF Holds, IsRow, IsSeq
  <1>6. DOMAIN read = 1..head
    BY <1>4, SeqOfElements
  <1>7. \A p \in Parts(List(t), read) : \A k \in DOMAIN p :
            p[k] = <<p[k][1], p[k][2]>> /\ Good(p[k][1], p[k][2])
    BY <1>2, <1>4, <1>6
  <1> QED
    BY <1>2, <1>5, <1>7, GoodWhole

\* A program can.
LEMMA FileMade ==
    ASSUME NEW read, GoodRead(File, 0, read)
    PROVE  Good(File, Made(File, 0, read))
  <1> DEFINE v == read[3]
             parts == FileParts(v)
  <1>1. PartTypes(File, 0) = FileTypes /\ Made(File, 0, read) = v /\ Parts(File, v) = {parts}
        /\ Holds(File, v)
    BY DEF PartTypes, Made, Parts, Holds, File
  <1>2. Len(FileTypes) = 3 /\ FileTypes[3] = Struct("program")
    BY DEF FileTypes
  <1>3. Good(Struct("program"), v)
    BY <1>1, <1>2 DEF GoodRead
  <1>4. MagicBytes \in PlainTypes /\ VersionByte \in PlainTypes
    BY DEF PlainTypes
  <1>5. Holds(MagicBytes, Magic) /\ Holds(VersionByte, Version)
    BY DEF Holds, MagicBytes, VersionByte
  <1>6. Good(MagicBytes, Magic) /\ Good(VersionByte, Version)
    BY <1>4, <1>5, GoodPlain
  <1>7. /\ DOMAIN parts = 1..3 /\ parts[1] = <<MagicBytes, Magic>>
        /\ parts[2] = <<VersionByte, Version>> /\ parts[3] = <<Struct("program"), v>>
    BY DEF FileParts
  <1>8. \A k \in 1..3 : k \in {1, 2, 3}
    OBVIOUS
  <1> HIDE DEF parts, v
  <1>9. \A p \in Parts(File, v) : \A k \in DOMAIN p :
            p[k] = <<p[k][1], p[k][2]>> /\ Good(p[k][1], p[k][2])
    BY <1>1, <1>3, <1>6, <1>7, <1>8
  <1> QED
    BY <1>1, <1>9, GoodWhole

\* The places of a key have a last one.
LEMMA GreatestExists ==
    ASSUME NEW n \in Nat, NEW S, S \subseteq 1..n, S # {}
    PROVE  \E x \in S : \A y \in S : y <= x
  <1> DEFINE T == {k \in 0..n : n - k \in S}
             R == {q \in Nat \X Nat : q[1] < q[2]}
  <1>1. OpToRel(<, Nat) = R
    BY DEF OpToRel
  <1>2. IsWellFoundedOn(R, Nat)
    BY <1>1, NatLessThanWellFounded
  <1>3. \A m \in S : n - m \in T /\ n - (n - m) = m
    OBVIOUS
  <1>4. T # {} /\ T \subseteq Nat
    <2>1. PICK m \in S : TRUE
      OBVIOUS
    <2>2. n - m \in T
      BY <1>3, <2>1
    <2>3. T \subseteq Nat
      OBVIOUS
    <2> HIDE DEF T
    <2> QED
      BY <2>2, <2>3
  <1> HIDE DEF R
  <1>5. PICK x \in T : \A y \in T : ~ (<<y, x>> \in R)
    BY <1>2, <1>4, WFMin, Zenon
  <1>6. ASSUME NEW m \in S PROVE m <= n - x
    <2>1. <<n - m, x>> \notin R /\ n - m \in Nat /\ x \in Nat
      BY <1>3, <1>5
    <2>2. ~ (n - m < x)
      BY <2>1 DEF R
    <2> QED
      BY <2>1, <2>2
  <1>7. n - x \in S
    BY <1>5
  <1> QED
    BY <1>6, <1>7

\* A table can, also when a name was repeated: the last row of a name counts.
LEMMA TableMade ==
    ASSUME NEW head \in 0..(Four - 1), NEW read, GoodRead(Table(Struct("probe")), head, read)
    PROVE  Good(Table(Struct("probe")), Made(Table(Struct("probe")), head, read))
  <1> DEFINE t == Struct("probe")
             v == Indexed(read)
             names == {read[k].key : k \in DOMAIN read}
             last(key) == CHOOSE k \in DOMAIN read :
                              /\ read[k].key = key
                              /\ \A j \in DOMAIN read : read[j].key = key => j <= k
             types == [k \in 1..head |-> t]
             pair(key) == [key |-> key, value |-> v[key]]
             partsOf(row) == [k \in DOMAIN row |-> <<t, pair(row[k])>>]
  <1>1. Table(t)[1] = "table" /\ Table(t)[2] = t
    BY DEF Table
  <1>2. /\ PartTypes(Table(t), head) = types /\ Made(Table(t), head, read) = v
        /\ Parts(Table(t), v) = {partsOf(row) : row \in Sorted(DOMAIN v)}
    BY <1>1 DEF PartTypes, Made, Parts
  <1>3. head \in Nat /\ head < Four /\ Len(types) = head /\ \A k \in 1..head : types[k] = t
    BY TwoAndFour
  <1> HIDE DEF types
  <1>4. IsSeq(read) /\ Len(read) = head /\ \A k \in 1..head : Good(t, read[k])
    BY <1>2, <1>3 DEF GoodRead
  <1>5. DOMAIN read = 1..head
    BY <1>4, SeqOfElements
  <1>6. \A k \in 1..head : read[k] = [key |-> read[k].key, value |-> read[k].value]
    <2> SUFFICES ASSUME NEW k \in 1..head
                 PROVE  read[k] = [key |-> read[k].key, value |-> read[k].value]
      OBVIOUS
    <2>1. Holds(t, read[k])
      BY <1>4, GoodHolds
    <2>2. IsRecord(read[k], FieldNames(WriteProbe))
      BY <2>1 DEF Holds, Struct, WriteFields
    <2>3. FieldNames(WriteProbe) = {"key", "value"}
      BY TwoFields, TypesOnWire DEF WriteProbe, ValueTypes, Unions
    <2> QED
      BY <2>2, <2>3 DEF IsRecord
  <1>7. DOMAIN v = names /\ \A key \in names : v[key] = read[last(key)].value
    BY DEF Indexed
  <1>8. ASSUME NEW key \in names
        PROVE  last(key) \in 1..head /\ read[last(key)].key = key
    <2> DEFINE places == {k \in 1..head : read[k].key = key}
    <2>1. places # {} /\ places \subseteq 1..head
      BY <1>5
    <2>2. PICK k \in places : \A j \in places : j <= k
      <3> HIDE DEF places
      <3> QED
        BY <1>3, <2>1, GreatestExists
    <2>3. k \in DOMAIN read /\ read[k].key = key /\ \A j \in DOMAIN read : read[j].key = key => j <= k
      BY <1>5, <2>2
    <2> QED
      BY <1>5, <2>3
  <1>9. IsFiniteSet(names) /\ Cardinality(names) < Four
    <2> DEFINE keys == [k \in 1..head |-> read[k].key]
    <2>1. keys \in Surjection(1..head, names)
      BY <1>5 DEF Surjection
    <2>2. ExistsSurjection(1..head, names)
      BY <2>1 DEF ExistsSurjection
    <2>3. IsFiniteSet(names)
      BY <1>3, <2>2, FS_NatSurjection
    <2>4. Cardinality(names) <= head
      BY <1>3, <2>2, FS_SurjCardinalityBound
    <2>5. Cardinality(names) \in Nat
      BY <2>3, FS_CardinalityType
    <2> HIDE DEF names
    <2> QED
      BY <1>3, <2>3, <2>4, <2>5, TwoAndFour
  <1>10. v = [f \in DOMAIN v |-> v[f]]
    BY DEF Indexed
  <1> HIDE DEF v, names, last
  <1>11. Holds(Table(t), v)
    BY <1>1, <1>7, <1>9, <1>10 DEF Holds, IsRecord
  <1>12. ASSUME NEW key \in names
         PROVE  Good(t, pair(key))
    BY <1>4, <1>6, <1>7, <1>8
  <1> HIDE DEF pair
  <1>13. ASSUME NEW row \in Sorted(DOMAIN v), NEW k \in DOMAIN partsOf(row)
         PROVE  /\ partsOf(row)[k] = <<partsOf(row)[k][1], partsOf(row)[k][2]>>
                /\ Good(partsOf(row)[k][1], partsOf(row)[k][2])
    <2>1. k \in DOMAIN row /\ row[k] \in names
      BY <1>7 DEF Sorted
    <2>2. partsOf(row)[k] = <<t, pair(row[k])>>
      BY <2>1
    <2> QED
      BY <1>12, <2>1, <2>2
  <1> HIDE DEF partsOf
  <1>14. \A p \in Parts(Table(t), v) : \A k \in DOMAIN p :
            p[k] = <<p[k][1], p[k][2]>> /\ Good(p[k][1], p[k][2])
    BY <1>2, <1>13
  <1> QED
    BY <1>2, <1>11, <1>14, GoodWhole

\* A value without parts can.
LEMMA PlainMade ==
    ASSUME NEW type \in PlainTypes, NEW head, Holds(type, head), NEW read
    PROVE  Good(type, Made(type, head, read))
  <1>1. Made(type, head, read) = head
    BY PlainKind DEF Made
  <1> QED
    BY <1>1, GoodPlain

\* What a call returns can be encoded.
LEMMA MadeIsGood ==
    ASSUME NEW type \in CallTypes, NEW head, HeadOk(type, head), NEW read, GoodRead(type, head, read)
    PROVE  Good(type, Made(type, head, read))
  <1>1. CASE type \in PlainTypes
    BY <1>1, PlainMade, PlainKind DEF HeadOk
  <1>2. CASE type = File
    <2>1. head = 0
      BY <1>2, PlainKind DEF HeadOk, File
    <2> QED
      BY <1>2, <2>1, FileMade
  <1>3. CASE type = Table(Struct("probe"))
    <2>1. head \in 0..(Four - 1)
      BY <1>3, PlainKind DEF HeadOk, Table
    <2> QED
      BY <1>3, <2>1, TableMade
  <1>4. ASSUME NEW s \in Structs, type = Struct(s) PROVE Good(type, Made(type, head, read))
    <2>1. head = 0
      BY <1>4, PlainKind DEF HeadOk, Struct
    <2> QED
      BY <1>4, <2>1, StructMade
  <1>5. ASSUME NEW u \in Unions, type = Union(u) PROVE Good(type, Made(type, head, read))
    <2>1. head \in DOMAIN ReadArms(u)
      BY <1>5, PlainKind DEF HeadOk, Union
    <2> QED
      BY <1>5, <2>1, UnionMade
  <1>6. ASSUME NEW t \in OptionTypes, type = Opt(t) PROVE Good(type, Made(type, head, read))
    <2>1. head \in Byte
      BY <1>6, PlainKind DEF HeadOk, Opt
    <2> QED
      BY <1>6, <2>1, OptMade
  <1>7. ASSUME NEW t \in ElementTypes, type = List(t) PROVE Good(type, Made(type, head, read))
    <2>1. head \in 0..(Four - 1)
      BY <1>7, PlainKind DEF HeadOk, List
    <2> QED
      BY <1>7, <2>1, ListMade
  <1> QED
    BY <1>1, <1>2, <1>3, <1>4, <1>5, <1>6, <1>7, KindsOfTypes

-----------------------------------------------------------------------------
(* What a call writes before its parts.                                    *)

\* What a kind says about its type.
LEMMA KindFacts ==
    ASSUME NEW type \in WireTypes
    PROVE  /\ type[1] \in {"magic", "version", "u16", "u32", "u64", "bool", "str", "bytes", "opt",
                           "list", "table", "struct", "union", "enum"}
           /\ type[1] = "enum" => type[2] \in Enums
           /\ type[1] = "union" => type[2] \in Unions /\ type = Union(type[2])
           /\ type[1] \in {"magic", "version", "u16", "u32", "u64", "bool", "str", "bytes", "enum"}
                 => type \in PlainTypes
  <1>1. CASE type \in PlainTypes
    <2>1. type[1] = "enum" => type[2] \in Enums
      BY <1>1 DEF PlainTypes, ValueTypes, MagicBytes, VersionByte, U16, U32, U64, Bool, Str, Bytes, Enum, Enums
    <2> QED
      BY <1>1, <2>1, PlainKind
  <1>2. CASE type = Table(Struct("probe"))
    BY <1>2 DEF Table
  <1>3. ASSUME NEW s \in Structs, type = Struct(s) PROVE type[1] = "struct"
    BY <1>3 DEF Struct
  <1>4. ASSUME NEW u \in Unions, type = Union(u)
        PROVE  type[1] = "union" /\ type[2] = u
    BY <1>4 DEF Union
  <1>5. ASSUME NEW t \in OptionTypes, type = Opt(t) PROVE type[1] = "opt"
    BY <1>5 DEF Opt
  <1>6. ASSUME NEW t \in ElementTypes, type = List(t) PROVE type[1] = "list"
    BY <1>6 DEF List
  <1>7. type # File
    BY DEF WireTypes, BodyTypes, ValueTypes, File, MagicBytes, VersionByte, U16, U32, U64, Bool, Str, Bytes,
           Enum, Table, Struct, Union, Opt, List
  <1> QED
    BY <1>1, <1>2, <1>3, <1>4, <1>5, <1>6, <1>7, KindsOfTypes DEF CallTypes

\* Magic and version stand nowhere but before the program.
LEMMA BodyKinds == \A type \in BodyTypes : type[1] \notin {"magic", "version"}
  BY DEF BodyTypes, ValueTypes, U16, U32, U64, Bool, Str, Bytes, Enum, Table, Struct, Union, Opt, List

\* A width is a small number.
LEMMA WidthIsNat == \A type \in WireTypes : Width[type[1]] \in 0..8
  BY KindFacts DEF Width

\* The widths one by one.
LEMMA Widths ==
    /\ Width["magic"] = 4 /\ Width["version"] = 1 /\ Width["u16"] = 2 /\ Width["u32"] = 4
    /\ Width["u64"] = 8 /\ Width["bool"] = 1 /\ Width["str"] = 4 /\ Width["bytes"] = 4
    /\ Width["opt"] = 1 /\ Width["list"] = 4 /\ Width["table"] = 4 /\ Width["struct"] = 0
    /\ Width["union"] = 1 /\ Width["enum"] = 1
  BY DEF Width

\* Magic and version are bytes.
LEMMA MagicIsBytes == Magic \in Seq(Byte) /\ Len(Magic) = 4 /\ Version \in Byte
  BY WireAssumption DEF Byte

\* A tag is one less than the place of its arm.
LEMMA PlaceOfTag ==
    ASSUME NEW n \in 1..8, NEW k \in 1..n
    PROVE  k - 1 \in 0..23 /\ k - 1 < n /\ (k - 1) + 1 = k
  OBVIOUS

\* What concatenation does to bytes.
LEMMA CountedBytes ==
    ASSUME NEW a \in Seq(Byte), NEW b \in Seq(Byte)
    PROVE  /\ a \o b \in Seq(Byte) /\ Len(a \o b) = Len(a) + Len(b)
           /\ Len(a) \in Nat /\ Len(b) \in Nat
           /\ \A k \in 1..Len(a) : (a \o b)[k] = a[k]
           /\ \A k \in 1..Len(b) : (a \o b)[Len(a) + k] = b[k]
  OBVIOUS

\* A single byte.
LEMMA OneByte == \A b \in Byte : <<b>> \in Seq(Byte) /\ Len(<<b>>) = 1 /\ <<b>>[1] = b
  OBVIOUS

\* An enum has a few labels.
LEMMA LabelsFit == \A e \in Enums : Len(Labels(e)) \in 1..8 /\ DOMAIN Labels(e) = 1..Len(Labels(e))
  <1>1. /\ Len(ReadSeverity) = 5 /\ DOMAIN ReadSeverity = 1..5
        /\ Len(ReadHttpMethod) = 7 /\ DOMAIN ReadHttpMethod = 1..7
        /\ Len(ReadCmpOp) = 6 /\ DOMAIN ReadCmpOp = 1..6
    BY DEF ReadSeverity, ReadHttpMethod, ReadCmpOp
  <1> QED
    BY <1>1 DEF Enums, Labels

\* The tag of a label is its place.
LEMMA EnumFront ==
    ASSUME NEW type \in WireTypes, type[1] = "enum", NEW v, Holds(type, v)
    PROVE  LET labels == Labels(type[2]) IN
           \E tag \in Byte : Front(type, v) = <<tag>> /\ tag < Len(labels) /\ labels[tag + 1] = v
  <1> DEFINE labels == Labels(type[2])
             k == IndexOf(labels, v)
  <1>1. type[2] \in Enums /\ WriteLabels(type[2]) = labels
    BY KindFacts, LabelsOfEnums
  <1>2. \E j \in DOMAIN labels : v = labels[j]
    BY <1>1 DEF Holds
  <1>3. Front(type, v) = <<k - 1>>
    BY <1>1 DEF Front
  <1>4. Len(labels) \in 1..8 /\ DOMAIN labels = 1..Len(labels)
    BY <1>1, LabelsFit
  <1> HIDE DEF labels
  <1>5. k \in DOMAIN labels /\ labels[k] = v
    BY <1>2 DEF IndexOf
  <1> HIDE DEF k
  <1>6. k - 1 \in 0..23 /\ k - 1 < Len(labels) /\ (k - 1) + 1 = k
    BY <1>4, <1>5, PlaceOfTag
  <1>7. k - 1 \in Byte /\ labels[(k - 1) + 1] = v
    BY <1>5, <1>6, SmallBytes
  <1> QED
    BY <1>3, <1>6, <1>7 DEF labels

\* A union begins with a tag that the reader knows.
LEMMA UnionFront ==
    ASSUME NEW type \in WireTypes, type[1] = "union", NEW v, Holds(type, v)
    PROVE  LET tag == WriteTagOf(type[2], v) IN
           Front(type, v) = <<tag>> /\ tag \in Byte /\ tag \in DOMAIN ReadArms(type[2])
  <1>1. type[2] \in Unions /\ type = Union(type[2])
    BY KindFacts
  <1>2. Holds(Union(type[2]), v)
    BY <1>1
  <1> QED
    BY <1>1, <1>2, WrittenArm DEF Front

\* A text begins with its length.
LEMMA TextFront ==
    ASSUME NEW type, type[1] \in {"str", "bytes"}, NEW v, Holds(type, v)
    PROVE  LET count == LittleEndian(Len(v), 4) IN
           /\ Front(type, v) = count \o v /\ Len(v) \in 0..(Four - 1)
           /\ count \in Seq(Byte) /\ Len(count) = 4 /\ Number(count) = Len(v)
           /\ v \in Seq(Byte) /\ (type[1] = "str" => Utf8(v))
  <1>1. v \in Seq(Byte) /\ Len(v) < Four /\ (type[1] = "str" => Utf8(v))
    BY DEF Holds, IsText, Byte
  <1>2. Len(v) \in 0..(Four - 1)
    BY <1>1, TwoAndFour
  <1> QED
    BY <1>1, <1>2, U32Written DEF Front

\* A list begins with its count.
LEMMA ListFront ==
    ASSUME NEW type, type[1] \in {"list", "table"}, NEW v, Holds(type, v)
    PROVE  /\ Front(type, v) = LittleEndian(HeadOf(type, v), 4)
           /\ HeadOf(type, v) \in 0..(Four - 1)
           /\ Front(type, v) \in Seq(Byte) /\ Len(Front(type, v)) = 4
           /\ Number(Front(type, v)) = HeadOf(type, v)
  <1>1. CASE type[1] = "list"
    <2>1. HeadOf(type, v) = Len(v) /\ Front(type, v) = LittleEndian(Len(v), 4)
      BY <1>1 DEF HeadOf, Front
    <2>2. Len(v) \in 0..(Four - 1)
      BY <1>1 DEF Holds, IsRow
    <2> QED
      BY <2>1, <2>2, U32Written
  <1>2. CASE type[1] = "table"
    <2> DEFINE n == Cardinality(DOMAIN v)
    <2>1. HeadOf(type, v) = n /\ Front(type, v) = LittleEndian(n, 4)
      BY <1>2 DEF HeadOf, Front
    <2>2. IsFiniteSet(DOMAIN v) /\ n < Four
      BY <1>2 DEF Holds
    <2>3. n \in 0..(Four - 1)
      BY <2>2, FS_CardinalityType, TwoAndFour
    <2> QED
      BY <2>1, <2>3, U32Written
  <1> QED
    BY <1>1, <1>2

\* What a call writes first are bytes, as many as the reader needs at least.
LEMMA FrontIsBytes ==
    ASSUME NEW type \in WireTypes, NEW v, Holds(type, v)
    PROVE  /\ Front(type, v) \in Seq(Byte)
           /\ Len(Front(type, v)) >= Width[type[1]]
           /\ type[1] \notin {"str", "bytes"} => Len(Front(type, v)) = Width[type[1]]
  <1> DEFINE front == Front(type, v)
             n == Width[type[1]]
  <1>0. \A b \in Byte : front = <<b>> => front \in Seq(Byte) /\ Len(front) = 1
    OBVIOUS
  <1>1. CASE type[1] = "magic"
    <2>1. front = Magic
      BY <1>1 DEF Front
    <2>2. n = 4
      BY <1>1, Widths
    <2> QED
      BY <1>1, <2>1, <2>2, MagicIsBytes
  <1>2. CASE type[1] = "version"
    BY <1>2, MagicIsBytes, OneByte, Widths DEF Front
  <1>3. CASE type[1] = "u16"
    <2>1. v \in 0..(Two - 1)
      BY <1>3 DEF Holds
    <2>2. front = LittleEndian(v, 2)
      BY <1>3, Widths DEF Front
    <2>3. front \in Seq(Byte) /\ Len(front) = 2 /\ n = 2
      BY <1>3, <2>1, <2>2, U16Written, Widths
    <2> QED
      BY <2>3
  <1>4. CASE type[1] = "u32"
    <2>1. v \in 0..(Four - 1)
      BY <1>4 DEF Holds
    <2>2. front = LittleEndian(v, 4)
      BY <1>4, Widths DEF Front
    <2>3. front \in Seq(Byte) /\ Len(front) = 4 /\ n = 4
      BY <1>4, <2>1, <2>2, U32Written, Widths
    <2> QED
      BY <2>3
  <1>5. CASE type[1] = "u64"
    <2>1. front = v /\ v \in Seq(Byte) /\ Len(v) = 8
      BY <1>5 DEF Front, Holds, Byte
    <2>2. n = 8
      BY <1>5, Widths
    <2> QED
      BY <2>1, <2>2
  <1>6. CASE type[1] = "bool"
    <2>1. Front(type, v) \in {<<0>>, <<1>>}
      BY <1>6 DEF Front
    <2>2. n = 1 /\ 0 \in Byte /\ 1 \in Byte
      BY <1>6, Widths, SmallBytes
    <2>3. front \in Seq(Byte) /\ Len(front) = 1
      BY <1>0, <2>1, <2>2
    <2> QED
      BY <2>2, <2>3
  <1>7. CASE type[1] \in {"str", "bytes"}
    <2> DEFINE count == LittleEndian(Len(v), 4)
    <2>1. /\ Front(type, v) = count \o v /\ v \in Seq(Byte) /\ Len(v) \in Nat
          /\ count \in Seq(Byte) /\ Len(count) = 4
      BY <1>7, TextFront
    <2>2. n = 4
      BY <1>7, Widths
    <2> HIDE DEF count
    <2>3. front \in Seq(Byte) /\ Len(front) >= 4
      <3>1. count \in Seq(Byte) /\ v \in Seq(Byte)
        BY <2>1
      <3>2. count \o v \in Seq(Byte) /\ Len(count \o v) = Len(count) + Len(v)
        BY <3>1, CountedBytes
      <3> QED
        BY <2>1, <3>2
    <2> QED
      BY <1>7, <2>2, <2>3
  <1>8. CASE type[1] = "opt"
    <2>1. Front(type, v) \in {<<0>>, <<1>>}
      BY <1>8 DEF Front
    <2>2. n = 1 /\ 0 \in Byte /\ 1 \in Byte
      BY <1>8, Widths, SmallBytes
    <2>3. front \in Seq(Byte) /\ Len(front) = 1
      BY <1>0, <2>1, <2>2
    <2> QED
      BY <2>2, <2>3
  <1>9. CASE type[1] \in {"list", "table"}
    <2>1. front \in Seq(Byte) /\ Len(front) = 4
      BY <1>9, ListFront
    <2>2. n = 4
      BY <1>9, Widths
    <2> QED
      BY <2>1, <2>2
  <1>10. CASE type[1] = "struct"
    <2>1. Front(type, v) = << >>
      BY <1>10 DEF Front
    <2> QED
      BY <1>10, <2>1, Widths
  <1>11. CASE type[1] = "union"
    <2>1. front \in Seq(Byte) /\ Len(front) = 1
      BY <1>0, <1>11, UnionFront
    <2>2. n = 1
      BY <1>11, Widths
    <2> QED
      BY <2>1, <2>2
  <1>12. CASE type[1] = "enum"
    <2>1. front \in Seq(Byte) /\ Len(front) = 1
      BY <1>0, <1>12, EnumFront
    <2>2. n = 1
      BY <1>12, Widths
    <2> QED
      BY <2>1, <2>2
  <1> QED
    BY <1>1, <1>2, <1>3, <1>4, <1>5, <1>6, <1>7, <1>8, <1>9, <1>10, <1>11, <1>12, KindFacts
=============================================================================
