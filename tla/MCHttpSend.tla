----------------------------- MODULE MCHttpSend ------------------------------
(***************************************************************************)
(* A send with two transport retries, the default, and retries of up to    *)
(* three calls, of requests with every body, with two, and with each piece *)
(* that may keep a request from being made.                                *)
(***************************************************************************)
EXTENDS HttpSend

\* The templates {{x}} and {{y}}; the variables x, y and z.
MCStrs == {"", "x", "y", "z", "{{x}}", "{{y}}", "/a", "http://b", "0f", "1s", "CR LF"}
MCFacts == {}
MCEmpty == ""
MCPlaceholderOf == [s \in {"{{x}}", "{{y}}"} |-> IF s = "{{x}}" THEN "x" ELSE "y"]
MCAbsoluteUrls == {"http://b"}
MCMalformed == {"CR LF"}
MCHexStrs == {"", "0f"}
MCDurationOf == [s \in {"1s"} |-> 1]

MCCounts == 0..3
MCPauses == <<1, 2, 3>>

\* x is text, a URL, or nothing a header may hold; y is a list; z is absent.
Bind(s) == [n \in MCStrs |-> CASE n = "x" -> Scalar(s)
                              [] n = "y" -> List(<<"0f">>)
                              [] OTHER -> Unbound]
MCBindings == {Bind(s) : s \in {"0f", "http://b", "CR LF", ""}}

-----------------------------------------------------------------------------
(* Requests.                                                               *)
Get == [path |-> "/a", timeout |-> None, user_agent |-> None, headers |-> << >>,
        cookies |-> << >>, queries |-> << >>, json |-> None, data |-> None, raw |-> None,
        multipart |-> None, hex |-> None]

Pair(name, value) == <<[name |-> name, value |-> value]>>
Text(s) == [tag |-> "String", text |-> s]
Of(name) == [tag |-> "Interpolation", text |-> name]
Binary(s) == [tag |-> "Bytes", text |-> s]
File(name, hex, s) == [tag |-> "Part", filename |-> name, hex |-> hex, text |-> s]
Field(value) == <<[key |-> "x", value |-> value]>>
Nested(value) == [tag |-> "Object", pairs |-> Field(value)]

\* What may keep a request of each part from being made.
Values == {Text("{{y}}"), Of("y"), Of("z"), Binary("{{y}}"), File("{{y}}", TRUE, "0f"),
           File(None, TRUE, "{{x}}"), File("x", FALSE, "{{y}}"), Nested(Text("{{x}}")),
           Nested(Of("y"))}
Plain ==
    {Get, [Get EXCEPT !.path = "{{x}}"], [Get EXCEPT !.path = "http://b"],
     [Get EXCEPT !.timeout = "1s"], [Get EXCEPT !.timeout = "x"],
     [Get EXCEPT !.user_agent = "{{x}}"], [Get EXCEPT !.headers = Pair("{{x}}", "z")],
     [Get EXCEPT !.headers = Pair("x", "{{x}}")], [Get EXCEPT !.cookies = Pair("x", "{{x}}")],
     [Get EXCEPT !.queries = Pair("{{x}}", "{{y}}")]}
Bodied ==
    UNION {{[Get EXCEPT !.json = Field(value)], [Get EXCEPT !.data = Field(value)],
            [Get EXCEPT !.multipart = Field(value)]} : value \in Values}
    \cup {[Get EXCEPT !.raw = "{{y}}"], [Get EXCEPT !.hex = "{{x}}"],
          [Get EXCEPT !.multipart = << >>]}
TwoBodied ==
    {[Get EXCEPT !.json = Field(Text("x")), !.raw = "{{y}}"],
     [Get EXCEPT !.data = Field(Of("y")), !.multipart = Field(Text("x"))],
     [Get EXCEPT !.data = Field(Text("x")), !.multipart = Field(Nested(Text("x")))],
     [Get EXCEPT !.raw = "x", !.multipart = Field(Of("y"))],
     [Get EXCEPT !.raw = "x", !.hex = "x"],
     [Get EXCEPT !.multipart = Field(Text("x")), !.hex = "x"]}
MCRequests == Plain \cup Bodied \cup TwoBodied

\* One request that can be cloned.
ResetRequests == {Get}
=============================================================================
