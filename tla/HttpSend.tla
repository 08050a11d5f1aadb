------------------------------ MODULE HttpSend -------------------------------
(***************************************************************************)
(* http.rs and retry_send of executor.rs: one http probe, sent by a send   *)
(* or a retry instruction.  There are two retry loops, one inside the      *)
(* other: the transport's (send_with_retries, with its backoff) and the    *)
(* script's (retry_send, with retry_delay); then the body is read up to a  *)
(* cap.  What the request is made of is Request's.  The client of reqwest  *)
(* is the environment.                                                     *)
(***************************************************************************)
EXTENDS Request

CONSTANTS
    Requests,          \* the specs of the probe
    Bindings,          \* the variables of the context
    HttpRetries,       \* config.http_retries
    Counts,            \* the counts of a retry instruction
    RequestTimeout,    \* config.default_timeout, from the send to the end of the body
    RetryDelay,        \* context.retry_delay
    Pauses,            \* retry_backoff for attempts 1, 2, and 3 or more
    MaxResponseBytes,  \* config.max_response_bytes
    MaxChunk           \* bound: the bytes of one chunk of a body

ASSUME HttpAssumption ==
    /\ Requests \subseteq RequestSpecs
    /\ Bindings \subseteq [Strs -> Value]
    /\ HttpRetries \in Nat
    /\ Counts \subseteq Nat
    /\ RequestTimeout \in Nat /\ RetryDelay \in Nat
    /\ Pauses \in [1..3 -> Nat]
    /\ MaxResponseBytes \in Nat /\ MaxChunk \in Nat

VARIABLES
    instruction,  \* "send" or "retry"
    count,        \* the count of a retry
    spec,         \* what the probe asks for
    variables,    \* of the context; no send changes them
    stage,        \* where the instruction is
    calls,        \* calls of execute_http that have failed
    attempt,      \* failed attempts of this call
    clock,        \* time since the request was sent, or the pause began
    body,         \* the bytes of the body kept
    arrived,      \* history: the bytes of the body that came off the wire
    ended,        \* history: did the body come to its end?
    sends,        \* history: the requests put on the wire
    answered,     \* history: has this call received a response?
    failure       \* history: why the last call failed

vars == <<instruction, count, spec, variables, stage, calls, attempt, clock, body, arrived,
          ended, sends, answered, failure>>
instructionVars == <<instruction, count, spec, variables>>
bodyVars == <<body, arrived, ended>>

Stages == {"call", "dispatch", "flight", "backoff", "body", "pause", "ok", "error"}

\* Why a call fails: before it sends, or by an error of reqwest.
Failures == {"request", "timeout", "connect", "certificate", "reset", "other"}

AtMost(m, n) == IF m < n THEN m ELSE n

Init ==
    /\ instruction \in {"send", "retry"}
    /\ count \in Counts
    /\ spec \in Requests
    /\ variables \in Bindings
    /\ stage = "call"
    /\ calls = 0
    /\ attempt = 0
    /\ clock = 0
    /\ body = 0
    /\ arrived = 0
    /\ ended = FALSE
    /\ sends = 0
    /\ answered = FALSE
    /\ failure = "none"

-----------------------------------------------------------------------------
(* retry_send and the Send instruction: the calls of execute_http.         *)
\* Fault: the transport retries under a retry instruction too.
RetriesAlways == HttpRetries
Retries == IF instruction = "send" THEN HttpRetries ELSE 0
Calls == IF instruction = "send" THEN 1 ELSE count

Call ==
    /\ stage = "call"
    /\ stage' = IF calls < Calls THEN "dispatch" ELSE "error"
    /\ attempt' = 0
    /\ body' = 0
    /\ arrived' = 0
    /\ ended' = FALSE
    /\ answered' = FALSE
    /\ UNCHANGED <<instructionVars, calls, clock, sends, failure>>

\* A failed call: the next one follows after retry_delay.
Fail(why) ==
    /\ failure' = why
    /\ calls' = calls + 1
    /\ stage' = IF calls + 1 < Calls THEN "pause" ELSE "error"
    /\ clock' = 0
    /\ UNCHANGED <<instructionVars, attempt, bodyVars, sends, answered>>

Resume ==
    /\ stage = "pause" /\ clock = RetryDelay
    /\ stage' = "call"
    /\ UNCHANGED <<instructionVars, calls, attempt, clock, bodyVars, sends, answered, failure>>

-----------------------------------------------------------------------------
(* execute_http up to the response, send_with_retries.                     *)
\* Nothing is sent, and reqwest's refusal of a header is not transient.
BadRequest ==
    /\ stage = "dispatch" /\ attempt = 0
    /\ ~ Builds(spec, variables)
    /\ Fail("request")

Dispatch ==
    /\ stage = "dispatch"
    /\ Builds(spec, variables)
    /\ stage' = "flight"
    /\ sends' = sends + 1
    /\ clock' = 0
    /\ UNCHANGED <<instructionVars, calls, attempt, bodyVars, answered, failure>>

Respond ==
    /\ stage = "flight"
    /\ stage' = "body"
    /\ answered' = TRUE
    /\ UNCHANGED <<instructionVars, calls, attempt, clock, bodyVars, sends, failure>>

\* Fault: a stream is sent again.
FinalIgnoringStream == attempt >= Retries

\* The attempt that consumes the request.
Final == attempt >= Retries \/ ~ Cloneable(spec)

\* is_transient: is_timeout, or is_connect without a certificate in its chain.
IsTransient(why) == why \in {"timeout", "connect"}

\* The timeout of a request; a spec's own replaces the client's.
Patience == IF spec.timeout = None THEN RequestTimeout ELSE DurationOf[spec.timeout]

FlightFails ==
    /\ stage = "flight"
    /\ \E why \in Failures \ {"request"} :
          /\ why = "timeout" => clock = Patience
          /\ IF Final \/ ~ IsTransient(why)
             THEN Fail(why)
             ELSE /\ stage' = "backoff"
                  /\ attempt' = AtMost(attempt + 1, Retries)
                  /\ clock' = 0
                  /\ UNCHANGED <<instructionVars, calls, bodyVars, sends, answered, failure>>

BackedOff ==
    /\ stage = "backoff" /\ clock = Pauses[AtMost(attempt, 3)]
    /\ stage' = "dispatch"
    /\ UNCHANGED <<instructionVars, calls, attempt, clock, bodyVars, sends, answered, failure>>

-----------------------------------------------------------------------------
(* read_body_capped: outside the transport's retries.                      *)
\* Fault: the chunk that crosses the cap is dropped.
KeptIfWhole(chunk) == IF chunk <= MaxResponseBytes - body THEN chunk ELSE 0
Kept(chunk) == AtMost(chunk, MaxResponseBytes - body)

Finish ==
    /\ stage' = "ok"
    /\ UNCHANGED <<instructionVars, calls, attempt, clock, sends, answered, failure>>

\* A cap of 0 returns before it looks at the body.
BodyEnds ==
    /\ stage = "body"
    /\ ended' = (MaxResponseBytes > 0)
    /\ Finish
    /\ UNCHANGED <<body, arrived>>

\* A chunk that crosses the cap is the last; one that ends there is not.
BodyChunk ==
    /\ stage = "body" /\ MaxResponseBytes > 0
    /\ \E chunk \in 1..MaxChunk :
          /\ body' = body + Kept(chunk)
          /\ arrived' = arrived + chunk
          /\ IF Kept(chunk) < chunk
             THEN Finish
             ELSE UNCHANGED <<instructionVars, stage, calls, attempt, clock, sends, answered,
                              failure>>
    /\ UNCHANGED ended

\* Fault: the transport's retries cover the body too.
BodyFailsRetried ==
    /\ stage = "body" /\ MaxResponseBytes > 0
    /\ IF Final
       THEN Fail("reset")
       ELSE /\ stage' = "backoff"
            /\ attempt' = attempt + 1
            /\ clock' = 0
            /\ UNCHANGED <<instructionVars, calls, bodyVars, sends, answered, failure>>

BodyFails ==
    /\ stage = "body" /\ MaxResponseBytes > 0
    /\ \E why \in {"timeout", "reset", "other"} :
          /\ why = "timeout" => clock = Patience
          /\ Fail(why)

-----------------------------------------------------------------------------
\* Fault: the client has no timeout.
LimitOfPauses == CASE stage = "backoff" -> Pauses[AtMost(attempt, 3)]
                   [] stage = "pause" -> RetryDelay
                   [] OTHER -> 0
Limit == CASE stage \in {"flight", "body"} -> Patience
           [] stage = "backoff" -> Pauses[AtMost(attempt, 3)]
           [] stage = "pause" -> RetryDelay
           [] OTHER -> 0

Tick ==
    /\ clock < Limit
    /\ clock' = clock + 1
    /\ UNCHANGED <<instructionVars, stage, calls, attempt, bodyVars, sends, answered, failure>>

Ended == stage \in {"ok", "error"} /\ UNCHANGED vars

\* What happens without the peer: its part is to respond, to fail or to send.
TimedOut == stage \in {"flight", "body"} /\ clock = Patience /\ (FlightFails \/ BodyFails)
Run == Call \/ Resume \/ BadRequest \/ Dispatch \/ BackedOff \/ TimedOut

Next ==
    \/ Run \/ Respond \/ FlightFails
    \/ BodyEnds \/ BodyChunk \/ BodyFails
    \/ Tick \/ Ended

Spec == Init /\ [][Next]_vars

\* A cap of 0 waits for no peer either.
Own == Run \/ (MaxResponseBytes = 0 /\ BodyEnds)

\* The runtime polls the task and its timers; the peer owes nothing.
FairSpec == Spec /\ WF_vars(Own) /\ WF_vars(Tick)

-----------------------------------------------------------------------------
(* Properties.                                                             *)

\* Every variable keeps its type.
TypeOK ==
    /\ instruction \in {"send", "retry"}
    /\ count \in Counts
    /\ spec \in Requests
    /\ variables \in Bindings
    /\ stage \in Stages
    /\ calls \in Nat /\ attempt \in Nat /\ clock \in Nat /\ sends \in Nat
    /\ body \in Nat /\ arrived \in Nat
    /\ ended \in BOOLEAN /\ answered \in BOOLEAN
    /\ failure \in Failures \cup {"none"}

\* The two retry loops do not multiply: a retry sends at most count requests,
\* a send at most one more than http_retries.
SendsBounded ==
    /\ instruction = "retry" => sends <= count
    /\ instruction = "send" => sends <= HttpRetries + 1

\* A request whose body is a stream goes out once per call.
StreamSentOnce == ~ Cloneable(spec) => sends <= calls + 1

\* The bodies of a spec in the order of apply_body, and the spec with the first
\* of its bodies alone.
Bodies == <<"json", "data", "raw", "multipart", "hex">>
OneBodied ==
    LET loses(b) == \E m, n \in DOMAIN Bodies :
                        m < n /\ Bodies[n] = b /\ spec[Bodies[m]] # None
    IN [f \in DOMAIN spec |-> IF loses(f) THEN None ELSE spec[f]]

\* The templates that end up in a multipart form.
PartTemplates ==
    {spec.multipart[k].key : k \in DOMAIN spec.multipart}
    \cup UNION {LET value == spec.multipart[k].value IN
               CASE value.tag = "Part" -> {value.text, value.filename} \ {None}
                 [] value.tag \in {"String", "Bytes"} -> {value.text}
                 [] OTHER -> {} :
               k \in DOMAIN spec.multipart}

\* A request goes out whole or not at all, under a retry as under a send: no
\* list stands where its text should, in the name of an uploaded file as
\* little as anywhere else, and a body that is not used (the spec has a more
\* important one) neither holds the request back nor lets it through.
OnlyWholeIsSent ==
    /\ sends > 0 =>
          /\ Builds(OneBodied, variables)
          /\ OneBodied.multipart # None =>
                \A s \in PartTemplates : Interpolates(s, variables)
    /\ failure = "request" => ~ Builds(OneBodied, variables)

\* Once a call has a response, whatever its status and however its body fares,
\* the transport sends nothing more for it.
ResponseIsFinal == [][answered /\ answered' => sends' = sends]_vars

\* The body kept is what has arrived, up to the cap, and a probe that succeeds
\* before its body has come to an end has a body of just that size: nothing is
\* cut anywhere but at the cap, wherever in its chunks it falls.
BodyCapped ==
    /\ body = AtMost(arrived, MaxResponseBytes)
    /\ stage = "ok" => ended \/ body = MaxResponseBytes

\* The instruction ends, with a peer that never answers or never stops.
InstructionEnds == <>(stage \in {"ok", "error"})

\* ExecutorConfig::http_retries, executor.rs:61: "How many times to retry an
\* HTTP probe that fails with a transient transport error (connection reset,
\* connect/read timeout) before giving up".  So a probe does not give up on such
\* an error with retries left.
TransientIsRetried ==
    (instruction = "send" /\ Cloneable(spec) /\ stage = "error"
        /\ failure \in {"reset", "connect", "timeout"}) => attempt = HttpRetries
=============================================================================
