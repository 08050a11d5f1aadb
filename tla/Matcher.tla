------------------------------- MODULE Matcher -------------------------------
(***************************************************************************)
(* matcher.rs: what one matcher, a `match all` group and a `match any`     *)
(* group evaluate to.                                                      *)
(*                                                                         *)
(* A response is abstracted to its kind and to the set of facts that hold  *)
(* of it: "the body contains `admin`", "the status equals 200", "the       *)
(* banner matches `^SSH`" are each one member of Facts.  A matcher names   *)
(* the fact it is about.                                                   *)
(***************************************************************************)
EXTENDS Naturals, Sequences

CONSTANTS
    Strs,      \* every string of the system: names, templates, values
    Facts,     \* what can be true of a response
    Invalid    \* facts whose literal is no regex and no comparable value

\* Reading FieldKind and MatchPredicate of contract.rs.
Fields == {"status", "body", "header", "response_time", "response_size",
           "answer", "response", "banner"}
Predicates == {"compare", "contains", "not_contains", "regex"}

Matchers == [target : Strs, field : Fields, pred : Predicates, fact : Facts]

Kinds == {"http", "dns", "socket"}
Response == [kind : Kinds \cup {"none"}, facts : SUBSET Facts]
NoResponse == [kind |-> "none", facts |-> {}]

Verdicts == {"true", "false", "error"}

\* The arms of `evaluate`; every other pair is "unsupported matcher".
Supported(m) ==
    \/ /\ m.field \in {"status", "response_time", "response_size"}
       /\ m.pred = "compare"
    \/ /\ m.field \in {"body", "header", "response", "banner"}
       /\ m.pred \in {"contains", "not_contains", "regex"}
    \/ /\ m.field = "answer"
       /\ m.pred \in {"contains", "not_contains"}

\* The response kind each arm unwraps with as_http, as_dns_resolve, as_socket.
KindOf(field) ==
    CASE field = "answer" -> "dns"
      [] field \in {"response", "banner"} -> "socket"
      [] OTHER -> "http"

\* CompiledMatcherRegex::compile: does building the matcher's regex fail?
RegexFails(m) ==
    /\ m.pred = "regex"
    /\ m.field \in {"body", "header", "response", "banner"}
    /\ m.fact \in Invalid

\* Err is "error"; Ok(true) and Ok(false) are "true" and "false".
Evaluate(m, r) ==
    IF \/ ~ Supported(m)
       \/ r.kind # KindOf(m.field)
       \/ m.pred = "compare" /\ m.fact \in Invalid
    THEN "error"
    ELSE IF (m.fact \in r.facts) <=> (m.pred # "not_contains")
         THEN "true"
         ELSE "false"

\* The lookup of the target's response, then `evaluate`.
Outcome(m, responses) ==
    IF responses[m.target].kind = "none"
    THEN "error"
    ELSE Evaluate(m, responses[m.target])

\* evaluate_all stops at the first matcher that is not true.
EvaluateAll(ms, responses) ==
    LET out == [k \in DOMAIN ms |-> Outcome(ms[k], responses)] IN
    IF \A k \in DOMAIN ms : out[k] = "true" THEN "true"
    ELSE IF \E k \in DOMAIN ms : /\ out[k] = "error"
                                 /\ \A j \in 1..(k - 1) : out[j] = "true"
         THEN "error"
         ELSE "false"

\* evaluate_any stops at the first matcher that is not false.
EvaluateAny(ms, responses) ==
    LET out == [k \in DOMAIN ms |-> Outcome(ms[k], responses)] IN
    IF \A k \in DOMAIN ms : out[k] = "false" THEN "false"
    ELSE IF \E k \in DOMAIN ms : /\ out[k] = "error"
                                 /\ \A j \in 1..(k - 1) : out[j] = "false"
         THEN "error"
         ELSE "true"
=============================================================================
