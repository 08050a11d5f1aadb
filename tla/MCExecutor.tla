----------------------------- MODULE MCExecutor ------------------------------
(***************************************************************************)
(* The finite instances of Executor that TLC checks.  Each family of       *)
(* programs below is one configuration's value of Programs.                *)
(***************************************************************************)
EXTENDS Executor

\* The string pool of every program, 0-based as operands name it:
\* 0 x, 1 y, 2 a, 3 b, 4 {{x}}, 5 web, 6 svc, 7 1s, 8 9s, 9 old, 10 scan_host
Pool == <<"x", "y", "a", "b", "{{x}}", "web", "svc", "1s", "9s", "old", "scan_host">>
MCStrs == {Pool[k] : k \in DOMAIN Pool} \cup
          {"", "hit", "miss", "target", "{{scan_host}}"}
MCFacts == {"hit"}
TwoFacts == {"hit", "miss"}
MCInvalid == {}
MissInvalid == {"miss"}
MCEmpty == ""
MCPlaceholderOf == [s \in {"{{x}}", "{{scan_host}}"} |->
                        IF s = "{{x}}" THEN "x" ELSE "scan_host"]
MCPorts == {22, 80}
MCDurationOf == [s \in {"1s", "9s"} |-> IF s = "1s" THEN 1 ELSE 9]
MCScanVariables == [s \in MCStrs |-> IF s = "scan_host" THEN Scalar("target") ELSE Unbound]
MCBaseEndpoint == [host |-> "target", port |-> 80]
Both == {"bytes", "program"}
OnlyBytes == {"bytes"}

-----------------------------------------------------------------------------
(* Programs.                                                               *)
Http == [kind |-> "http", host |-> "a", port |-> None, payload |-> None,
         tls |-> FALSE, session |-> FALSE]
Socket(kind, host, port, session) ==
    [kind |-> kind, host |-> host, port |-> port, payload |-> None,
     tls |-> FALSE, session |-> session]

M(target, field, pred, fact) ==
    [target |-> target, field |-> field, pred |-> pred, fact |-> fact]

Program(probes, code) ==
    [named |-> TRUE, probes |-> probes, strings |-> Pool, payloads |-> 1,
     matchers |-> <<M("web", "body", "contains", "hit"),
                    M("svc", "banner", "not_contains", "hit"),
                    M("web", "answer", "regex", "hit")>>,
     extracts |-> <<[kind |-> "body", target |-> "web", fact |-> "hit"],
                    [kind |-> "header", target |-> "svc", fact |-> "hit"]>>,
     evidence |-> <<[kind |-> "response", target |-> "web", fact |-> None],
                    [kind |-> "body", target |-> "svc", fact |-> "hit"]>>,
     code |-> code]

Op(op) == [op |-> op]
SetI(n, v) == [op |-> "Set", name |-> n, value |-> v]
SetListI(n, s, l) == [op |-> "SetList", name |-> n, start |-> s, len |-> l]
SendI(p, o) == [op |-> "Send", probe |-> p, payload |-> o]
MatchI(op, m) == [op |-> op, matcher |-> m]
GroupI(op, s, l) == [op |-> op, start |-> s, len |-> l]
ExtractI(n, e) == [op |-> "Extract", name |-> n, source |-> e]
IfI(m, t) == [op |-> "IfMatch", matcher |-> m, else_pc |-> t]
ForListI(i, s, l, e) == [op |-> "ForList", item |-> i, start |-> s, len |-> l, end_pc |-> e]
ForVarI(i, l, e) == [op |-> "ForVar", item |-> i, list |-> l, end_pc |-> e]
SaveI(f, t) == [op |-> "Save", from |-> f, to |-> t]
EvidenceI(e) == [op |-> "Evidence", evidence |-> e]
RetryI(p, c) == [op |-> "Retry", probe |-> p, count |-> c]
TimeI(op, v) == [op |-> op, value |-> v]

CodeUpTo(n, alphabet) == UNION {[1..k -> alphabet] : k \in 0..n}

\* Any order of the matching instructions around one http probe, jumps
\* backwards and out of the program included.
ChainOps ==
    {SendI(5, None), MatchI("Match", 0), MatchI("Match", 1), MatchI("Assert", 0),
     GroupI("MatchAll", 0, 2), GroupI("MatchAny", 0, 3), GroupI("MatchAny", 0, 0),
     IfI(0, 0), IfI(0, 3), ExtractI(1, 0), EvidenceI(0), EvidenceI(1),
     Op("Stop"), Op("Exit"), Op("Fail")}
WebOnly == [n \in {"web"} |-> Http]
ChainPrograms == {Program(WebOnly, <<SendI(5, None)>> \o code) : code \in CodeUpTo(3, ChainOps)}
                 \cup {[Program(WebOnly, <<EvidenceI(0)>>) EXCEPT !.named = FALSE]}

\* Any order of the loop instructions, structured or not.
LoopOps ==
    {ForListI(0, 2, 2, 3), ForListI(0, 4, 1, 0), ForVarI(0, 1, 3), SetListI(1, 2, 2),
     SetI(0, 4), Op("LoopBack"), Op("Break"), Op("Continue"), TimeI("Sleep", 7), IfI(0, 0)}
LoopPrograms == {Program(WebOnly, code) : code \in CodeUpTo(4, LoopOps)}

\* Two nested loops in compiler shape, over the same or over two items:
\*   0 for x { 1 b1; 2 for i { 3 b2; 4 b3; 5 loop_back }; 6 b4; 7 loop_back } 8
NestedPrograms ==
    {Program(WebOnly,
        <<SendI(5, None), ForListI(0, 2, 2, 9), b1, ForListI(i, 2, len, 7), b2, b3,
          Op("LoopBack"), b4, Op("LoopBack"), EvidenceI(0)>>) :
        i \in {0, 1}, len \in {0, 2},
        b1 \in {Op("Break"), IfI(0, 8), MatchI("Match", 0), SetListI(1, 2, 2)},
        b2 \in {Op("Break"), Op("Continue"), IfI(0, 6), SetI(1, 4)},
        b3 \in {Op("Break"), Op("Continue"), SetI(1, 4)},
        b4 \in {Op("Break"), Op("Continue"), MatchI("Match", 0)}}

\* Every instruction that has operands, at and around the end of its pool, with
\* the chain whole and broken.
OperandOps ==
    {SetI(n, v) : n \in {0, 11}, v \in {2, 11}}
    \cup {SetListI(n, s, l) : n \in {0, 11}, s \in {10, 11, 12}, l \in {0, 1, 2}}
    \cup {SendI(p, o) : p \in {5, 11}, o \in {None, 0, 1}}
    \cup {MatchI(op, m) : op \in {"Match", "Assert"}, m \in {2, 3}}
    \cup {GroupI(op, s, l) : op \in {"MatchAll", "MatchAny"}, s \in {2, 3, 4}, l \in {0, 1, 2}}
    \cup {ExtractI(n, e) : n \in {1, 11}, e \in {1, 2}}
    \cup {IfI(m, 9) : m \in {2, 3}}
    \cup {ForListI(i, s, l, 0) : i \in {0, 11}, s \in {10, 11, 12}, l \in {0, 1, 2}}
    \cup {ForVarI(i, l, 3) : i \in {0, 11}, l \in {1, 11}}
    \cup {SaveI(f, t) : f \in {5, 11}, t \in {9, 11}}
    \cup {EvidenceI(e) : e \in {1, 2}}
    \cup {RetryI(p, c) : p \in {5, 11}, c \in {0, 1}}
    \cup {TimeI(op, v) : op \in {"Sleep", "RetryDelay"}, v \in {7, 9, 11}}
OperandPrograms ==
    {Program(WebOnly, <<i>>) : i \in OperandOps}
    \cup {Program(WebOnly, <<SendI(5, None), MatchI("Match", 0), i>>) : i \in OperandOps}

\* Regexes that do not compile, one per pool.
BadRegexPrograms ==
    LET p == Program(WebOnly, <<SendI(5, None)>>) IN
    {[p EXCEPT !.matchers = <<M("web", "body", "regex", "miss")>>],
     [p EXCEPT !.matchers = <<M("web", "status", "regex", "miss")>>],
     [p EXCEPT !.evidence[2].fact = "miss"],
     [p EXCEPT !.extracts[1].fact = "miss"],
     [p EXCEPT !.extracts[2].fact = "miss"]}

\* The run of the match chain and of loading: from decoded bytes and from a
\* program built by hand.
ChainAndLoadPrograms == ChainPrograms \cup OperandPrograms \cup BadRegexPrograms

\* Sends, retries and saves over the three socket kinds, with and without a
\* session, to a fixed host and to hosts that the scan target or the script sets.
SendOps == {SendI(6, None), SendI(6, 0), RetryI(6, 2), SaveI(5, 6), SaveI(6, 9),
            TimeI("RetryDelay", 7), MatchI("Match", 1), SetI(10, 2)}
SessionProbes ==
    {Socket("tcp", h, 22, TRUE) : h \in {"{{scan_host}}", "b"}}
    \cup {Socket("udp", "b", 22, TRUE)}
    \cup {Socket("dns", "b", p, TRUE) : p \in {22, None}}
OtherProbes ==
    {Socket("tcp", h, 22, FALSE) : h \in {"{{scan_host}}", "b"}}
    \cup {Socket("udp", "b", 22, FALSE), Socket("tcp", "b", None, TRUE)}
    \cup {[Socket("udp", "b", 22, FALSE) EXCEPT !.tls = TRUE]}
SendProgram(probe, code) ==
    Program([n \in {"web", "svc"} |-> IF n = "web" THEN Http ELSE probe],
            <<SendI(5, None)>> \o code)
SendPrograms ==
    {SendProgram(probe, code) : probe \in SessionProbes, code \in CodeUpTo(3, SendOps)}
    \cup {SendProgram(probe, code) : probe \in OtherProbes, code \in CodeUpTo(2, SendOps)}

\* The programs that run under a budget, and those that run without.
TimedPrograms == LoopPrograms \cup SendPrograms
UntimedPrograms == ChainAndLoadPrograms \cup NestedPrograms

\* The programs that the documentation's claims are tried on.
SleepPrograms == {Program(WebOnly, code) : code \in CodeUpTo(3, {TimeI("Sleep", 7), TimeI("Sleep", 8)})}
HttpPrograms == {Program(WebOnly, code) : code \in CodeUpTo(2, {SendI(5, None), MatchI("Match", 0)})}
=============================================================================
