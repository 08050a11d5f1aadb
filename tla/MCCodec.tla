------------------------------ MODULE MCCodec --------------------------------
(***************************************************************************)
(* Small programs that between them use every section, struct and union of *)
(* the wire format, with bytes below 32 instead of 256 so that a u32 is an *)
(* integer of TLC.  One of them nests its objects deeper than the stack    *)
(* has room for.                                                           *)
(***************************************************************************)
EXTENDS Codec, TLC

MCMagic == <<18, 21, 19, 15>>
MCUtf8(data) == \A k \in DOMAIN data : data[k] < 16
MCDamages == {0, 2, 30}

Meta == [f \in {"name", "description", "impact", "severity", "author", "mitigation",
                "version", "family"} |-> None] @@
        [f \in {"cve", "cwe", "references", "cvss", "cvss_score", "tags"} |-> << >>]

EmptyProgram ==
    [metadata |-> Meta, probes |-> [n \in {} |-> None], strings |-> << >>, payloads |-> << >>,
     matchers |-> << >>, extracts |-> << >>, evidence |-> << >>, code |-> << >>]

a == <<1>>
b == <<2>>

FullMeta ==
    [name |-> a, description |-> b, impact |-> << >>, severity |-> "Info", author |-> <<3>>,
     cve |-> <<a>>, cwe |-> <<b, a>>, references |-> <<<< >>>>, cvss |-> << >>,
     cvss_score |-> <<<<4>>>>, mitigation |-> <<5>>, tags |-> <<a, b>>, version |-> <<6>>,
     family |-> <<7>>]

Socket(tls, session, port, payload) ==
    [host |-> a, port |-> port, payload |-> payload, tls |-> tls, session |-> session,
     read_max |-> 70, read_idle_ms |-> 3]

Get == [method |-> "Get", path |-> a, timeout |-> None, follow_redirect |-> None,
        verify_ssl |-> None, proxy |-> None, user_agent |-> None, headers |-> << >>,
        cookies |-> << >>, queries |-> << >>, data_body |-> None, json_body |-> None,
        raw_body |-> None, body_bytes |-> None, multipart_body |-> None]

KV(key, value) == [key |-> key, value |-> value]
V(tag, text) == [tag |-> tag, text |-> text]

Post ==
    [Get EXCEPT !.method = "Options", !.timeout = b, !.follow_redirect = TRUE,
        !.verify_ssl = FALSE, !.proxy = a, !.user_agent = b, !.headers = <<KV(a, b)>>,
        !.cookies = <<KV(b, a), KV(b, b)>>, !.queries = <<KV(a, a)>>,
        !.raw_body = a, !.body_bytes = b]

Bodies ==
    [Get EXCEPT
        !.data_body = <<KV(a, V("String", a)), KV(b, V("Interpolation", b))>>,
        !.json_body = <<KV(a, [tag |-> "Object", pairs |-> <<KV(b, V("Bytes", a))>>])>>,
        !.multipart_body =
            <<KV(a, [tag |-> "Part", filename |-> b, body |-> V("Text", a)]),
              KV(b, [tag |-> "Part", filename |-> None, body |-> V("Bytes", a)])>>]

\* Objects of so many levels.
Level1 == V("String", a)
Level2 == [tag |-> "Object", pairs |-> <<KV(a, Level1), KV(b, Level1)>>]
Level3 == [tag |-> "Object", pairs |-> <<KV(a, Level2)>>]
Deep(value) == [Get EXCEPT !.json_body = <<KV(a, value)>>]

Probes(table) == [EmptyProgram EXCEPT !.probes = table]
P(tag, spec) == [tag |-> tag, spec |-> spec]

Kind(tag) == [tag |-> tag]
M(kind, predicate) == [target |-> a, kind |-> kind, predicate |-> predicate]
Compare(op, value) == [tag |-> "Compare", op |-> op, value |-> value]

Pools ==
    [EmptyProgram EXCEPT
        !.strings = <<a, b>>, !.payloads = <<<<30, 0>>, << >>>>,
        !.matchers = <<
            M(Kind("Status"), Compare("Ge", [tag |-> "Number",
                                             number |-> <<1, 2, 3, 4, 5, 6, 7, 31>>])),
            M([tag |-> "Header", name |-> b], V("Contains", b)),
            M(Kind("Response"), V("Regex", a)),
            M(Kind("ResponseTime"), Compare("Lt", V("Duration", b)))>>,
        !.extracts = <<[tag |-> "Body", target |-> a, regex |-> None],
                       [tag |-> "Body", target |-> a, regex |-> b],
                       [tag |-> "Header", target |-> a, name |-> b]>>,
        !.evidence = <<[tag |-> "Body", target |-> a, pattern |-> b],
                       [tag |-> "Response", target |-> b, pattern |-> None],
                       [tag |-> "Header", target |-> a, name |-> b, pattern |-> a]>>]

Op(op) == [op |-> op]
\* Operands that the pools allow; 300 needs two bytes.
Code == <<
    [op |-> "Set", name |-> 0, value |-> 1], [op |-> "SetList", name |-> 0, start |-> 1, len |-> 1],
    [op |-> "Send", probe |-> 0, payload |-> None], [op |-> "Send", probe |-> 1, payload |-> 0],
    [op |-> "Match", matcher |-> 0], [op |-> "Assert", matcher |-> 0],
    [op |-> "MatchAll", start |-> 0, len |-> 1], [op |-> "MatchAny", start |-> 1, len |-> 0],
    [op |-> "Extract", name |-> 1, source |-> 0], [op |-> "IfMatch", matcher |-> 0, else_pc |-> 300],
    [op |-> "ForList", item |-> 0, start |-> 1, len |-> 1, end_pc |-> 300],
    [op |-> "ForVar", item |-> 0, list |-> 1, end_pc |-> 300],
    [op |-> "Save", from |-> 0, to |-> 1], [op |-> "Evidence", evidence |-> 0],
    [op |-> "Retry", probe |-> 0, count |-> 300], [op |-> "RetryDelay", value |-> 1],
    [op |-> "Sleep", value |-> 0], Op("Stop"), Op("Fail"), Op("Continue"), Op("Exit"),
    Op("LoopBack"), Op("Break")>>

SmallPools ==
    [EmptyProgram EXCEPT
        !.strings = <<a, b>>, !.payloads = <<b>>,
        !.matchers = <<M(Kind("Body"), V("NotContains", a))>>,
        !.extracts = <<[tag |-> "Body", target |-> a, regex |-> None]>>,
        !.evidence = <<[tag |-> "Response", target |-> b, pattern |-> None]>>]

CodeProgram == [SmallPools EXCEPT !.code = Code]
\* An operand one past its pool.
InvalidProgram == [SmallPools EXCEPT !.code = <<[op |-> "MatchAll", start |-> 1, len |-> 1]>>]

MCSources ==
    {EmptyProgram, Pools, CodeProgram, InvalidProgram,
     [EmptyProgram EXCEPT !.metadata = FullMeta],
     Probes([n \in {a, b, <<1, 2>>} |->
                IF n = a THEN P("Tcp", Socket(TRUE, FALSE, 80, None))
                ELSE IF n = b THEN P("Udp", Socket(FALSE, TRUE, None, a))
                ELSE P("Dns", Socket(FALSE, FALSE, None, None))]),
     Probes([n \in {a} |-> P("Http", Post)]),
     Probes([n \in {a} |-> P("Http", Bodies)]),
     Probes([n \in {a} |-> P("Http", Deep(Level3))])}

\* Objects in an object, and nothing else.
NestedSources == {Probes([n \in {a} |-> P("Http", Deep(v))]) : v \in {Level1, Level2}}

\* The values of a program, each with its type.
RECURSIVE Inside(_)
Inside(x) ==
    {x} \cup UNION {UNION {Inside(parts[k]) : k \in DOMAIN parts} : parts \in Parts(x[1], x[2])}
MCValues == UNION {Inside(<<File, s>>) : s \in MCSources}
NestedValues == UNION {Inside(<<File, s>>) : s \in NestedSources}
=============================================================================
