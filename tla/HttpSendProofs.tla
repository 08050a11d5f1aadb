--------------------------- MODULE HttpSendProofs ----------------------------
(***************************************************************************)
(* What TLAPS proves about HttpSend, for any requests and variables, any   *)
(* counts of retries, any timeouts, any cap and any behaviour of the peer. *)
(***************************************************************************)
EXTENDS HttpSend, TLAPS

-----------------------------------------------------------------------------
(* Types.                                                                  *)

LEMMA CountType ==
    ASSUME TypeOK
    PROVE  Retries \in Nat /\ Calls \in Nat /\ count \in Nat
  BY HttpAssumption DEF TypeOK, Retries, Calls

\* What is kept of a chunk: all of it or what the cap has room for, and with it
\* the body is what has arrived, up to the cap.
LEMMA KeptType ==
    ASSUME TypeOK, body = AtMost(arrived, MaxResponseBytes), NEW chunk \in Nat
    PROVE  /\ Kept(chunk) \in Nat
           /\ body + Kept(chunk) = AtMost(arrived + chunk, MaxResponseBytes)
           /\ Kept(chunk) < chunk => body + Kept(chunk) = MaxResponseBytes
  BY HttpAssumption DEF TypeOK, Kept, AtMost

LEMMA ChunkType == 1..MaxChunk \subseteq Nat
  BY HttpAssumption

LEMMA TypeStep ==
    ASSUME TypeOK, BodyCapped, [Next]_vars
    PROVE  TypeOK'
  <1> USE DEF TypeOK, instructionVars, bodyVars, Stages, Failures
  <1>1. CASE Call
    BY <1>1 DEF Call
  <1>2. CASE Resume
    BY <1>2 DEF Resume
  <1>3. CASE BadRequest
    BY <1>3 DEF BadRequest, Fail
  <1>4. CASE Dispatch
    BY <1>4 DEF Dispatch
  <1>5. CASE Respond
    BY <1>5 DEF Respond
  <1>6. CASE FlightFails
    BY <1>6, CountType DEF FlightFails, Fail, AtMost
  <1>7. CASE BackedOff
    BY <1>7 DEF BackedOff
  <1>8. CASE BodyEnds
    BY <1>8 DEF BodyEnds, Finish
  <1>9. CASE BodyChunk
    BY <1>9, ChunkType, KeptType DEF BodyChunk, Finish, BodyCapped
  <1>10. CASE BodyFails
    BY <1>10 DEF BodyFails, Fail
  <1>11. CASE Tick
    BY <1>11 DEF Tick
  <1>12. CASE UNCHANGED vars
    BY <1>12 DEF vars
  <1> QED
    BY <1>1, <1>2, <1>3, <1>4, <1>5, <1>6, <1>7, <1>8, <1>9, <1>10, <1>11, <1>12
       DEF Next, Run, TimedOut, Ended

-----------------------------------------------------------------------------
(* The strengthening.                                                      *)

\* The request of this call is on the wire, or has been answered.
Sent == IF stage \in {"flight", "body", "ok"} THEN 1 ELSE 0

\* A call is made only while there are calls left.
CallsLeft ==
    /\ calls <= Calls
    /\ stage \notin {"call", "error"} => calls < Calls

\* A request that the transport must not repeat goes out once per call.
OncePerCall ==
    instruction = "retry" \/ ~ Cloneable(spec) =>
        /\ stage # "backoff"
        /\ sends <= calls + Sent

\* A send has one call, with one request more than failed attempts.
OnePerAttempt ==
    instruction = "send" =>
        /\ stage # "pause"
        /\ attempt <= HttpRetries
        /\ stage = "call" => sends = 0
        /\ stage # "error" => sends <= attempt + Sent
        /\ stage = "error" => sends <= HttpRetries + 1

\* An answered call is past its attempts.
AnsweredIsPast == answered => stage \notin {"dispatch", "flight", "backoff"}

\* The request can be made, or it cannot: no call changes that.
WholeOrNot ==
    /\ sends > 0 => Builds(spec, variables)
    /\ stage \in {"flight", "backoff", "body", "ok"} => Builds(spec, variables)
    /\ failure = "request" => ~ Builds(spec, variables)

IInv == /\ TypeOK /\ BodyCapped /\ CallsLeft /\ OncePerCall /\ OnePerAttempt
        /\ AnsweredIsPast /\ WholeOrNot

LEMMA CapStep ==
    ASSUME TypeOK, BodyCapped, [Next]_vars
    PROVE  BodyCapped'
  <1> USE HttpAssumption DEF TypeOK, BodyCapped, instructionVars, bodyVars
  <1>1. CASE Call
    BY <1>1 DEF Call, AtMost
  <1>2. CASE Resume
    BY <1>2 DEF Resume
  <1>3. CASE BadRequest
    BY <1>3 DEF BadRequest, Fail
  <1>4. CASE Dispatch
    BY <1>4 DEF Dispatch
  <1>5. CASE Respond
    BY <1>5 DEF Respond
  <1>6. CASE FlightFails
    BY <1>6 DEF FlightFails, Fail, Final, AtMost
  <1>7. CASE BackedOff
    BY <1>7 DEF BackedOff
  <1>8. CASE BodyEnds
    <2>1. body' = body /\ arrived' = arrived
      BY <1>8 DEF BodyEnds
    <2>2. ended' \/ body = MaxResponseBytes
      <3>1. CASE MaxResponseBytes > 0
        BY <1>8, <3>1, Zenon DEF BodyEnds
      <3>2. CASE MaxResponseBytes = 0
        BY <3>2 DEF AtMost
      <3> QED
        BY <3>1, <3>2
    <2> QED
      BY <2>1, <2>2
  <1>9. CASE BodyChunk
    BY <1>9, ChunkType, KeptType DEF BodyChunk, Finish
  <1>10. CASE BodyFails
    BY <1>10 DEF BodyFails, Fail
  <1>11. CASE Tick
    BY <1>11 DEF Tick
  <1>12. CASE UNCHANGED vars
    BY <1>12 DEF vars
  <1> QED
    BY <1>1, <1>2, <1>3, <1>4, <1>5, <1>6, <1>7, <1>8, <1>9, <1>10, <1>11, <1>12
       DEF Next, Run, TimedOut, Ended

LEMMA CallsStep ==
    ASSUME TypeOK, CallsLeft, [Next]_vars
    PROVE  CallsLeft'
  <1>a. Calls \in Nat /\ calls \in Nat
    BY CountType DEF TypeOK
  <1>b. instructionVars' = instructionVars => Calls' = Calls
    BY DEF Calls, instructionVars
  <1> USE <1>a, <1>b DEF CallsLeft
  <1>1. CASE Call
    BY <1>1 DEF Call
  <1>2. CASE Resume
    BY <1>2 DEF Resume
  <1>3. CASE BadRequest
    BY <1>3 DEF BadRequest, Fail
  <1>4. CASE Dispatch
    BY <1>4 DEF Dispatch
  <1>5. CASE Respond
    BY <1>5 DEF Respond
  <1>6. CASE FlightFails
    BY <1>6 DEF FlightFails, Fail, Final, AtMost
  <1>7. CASE BackedOff
    BY <1>7 DEF BackedOff
  <1>8. CASE BodyEnds
    BY <1>8 DEF BodyEnds, Finish
  <1>9. CASE BodyChunk
    BY <1>9 DEF BodyChunk, Finish
  <1>10. CASE BodyFails
    BY <1>10 DEF BodyFails, Fail
  <1>11. CASE Tick
    BY <1>11 DEF Tick
  <1>12. CASE UNCHANGED vars
    BY <1>12 DEF vars, instructionVars, bodyVars
  <1> QED
    BY <1>1, <1>2, <1>3, <1>4, <1>5, <1>6, <1>7, <1>8, <1>9, <1>10, <1>11, <1>12
       DEF Next, Run, TimedOut, Ended

LEMMA OnceStep ==
    ASSUME TypeOK, OncePerCall, [Next]_vars
    PROVE  OncePerCall'
  <1> USE CountType DEF TypeOK, OncePerCall, Sent, Retries, instructionVars, bodyVars
  <1>1. CASE Call
    BY <1>1 DEF Call
  <1>2. CASE Resume
    BY <1>2 DEF Resume
  <1>3. CASE BadRequest
    BY <1>3 DEF BadRequest, Fail
  <1>4. CASE Dispatch
    BY <1>4 DEF Dispatch
  <1>5. CASE Respond
    BY <1>5 DEF Respond
  <1>6. CASE FlightFails
    BY <1>6 DEF FlightFails, Fail, Final, AtMost
  <1>7. CASE BackedOff
    BY <1>7 DEF BackedOff
  <1>8. CASE BodyEnds
    BY <1>8 DEF BodyEnds, Finish
  <1>9. CASE BodyChunk
    BY <1>9 DEF BodyChunk, Finish
  <1>10. CASE BodyFails
    BY <1>10 DEF BodyFails, Fail
  <1>11. CASE Tick
    BY <1>11 DEF Tick
  <1>12. CASE UNCHANGED vars
    BY <1>12 DEF vars
  <1> QED
    BY <1>1, <1>2, <1>3, <1>4, <1>5, <1>6, <1>7, <1>8, <1>9, <1>10, <1>11, <1>12
       DEF Next, Run, TimedOut, Ended

LEMMA AttemptStep ==
    ASSUME TypeOK, CallsLeft, OnePerAttempt, [Next]_vars
    PROVE  OnePerAttempt'
  <1> USE CountType, HttpAssumption DEF TypeOK, CallsLeft, OnePerAttempt, Sent, Retries, Calls, instructionVars, bodyVars
  <1>1. CASE Call
    BY <1>1 DEF Call
  <1>2. CASE Resume
    BY <1>2 DEF Resume
  <1>3. CASE BadRequest
    BY <1>3 DEF BadRequest, Fail
  <1>4. CASE Dispatch
    BY <1>4 DEF Dispatch
  <1>5. CASE Respond
    BY <1>5 DEF Respond
  <1>6. CASE FlightFails
    BY <1>6 DEF FlightFails, Fail, Final, AtMost
  <1>7. CASE BackedOff
    BY <1>7 DEF BackedOff
  <1>8. CASE BodyEnds
    BY <1>8 DEF BodyEnds, Finish
  <1>9. CASE BodyChunk
    BY <1>9 DEF BodyChunk, Finish
  <1>10. CASE BodyFails
    BY <1>10 DEF BodyFails, Fail
  <1>11. CASE Tick
    BY <1>11 DEF Tick
  <1>12. CASE UNCHANGED vars
    BY <1>12 DEF vars
  <1> QED
    BY <1>1, <1>2, <1>3, <1>4, <1>5, <1>6, <1>7, <1>8, <1>9, <1>10, <1>11, <1>12
       DEF Next, Run, TimedOut, Ended

LEMMA AnsweredStep ==
    ASSUME TypeOK, AnsweredIsPast, [Next]_vars
    PROVE  AnsweredIsPast'
  <1> USE DEF TypeOK, AnsweredIsPast, instructionVars, bodyVars
  <1>1. CASE Call
    BY <1>1 DEF Call
  <1>2. CASE Resume
    BY <1>2 DEF Resume
  <1>3. CASE BadRequest
    BY <1>3 DEF BadRequest, Fail
  <1>4. CASE Dispatch
    BY <1>4 DEF Dispatch
  <1>5. CASE Respond
    BY <1>5 DEF Respond
  <1>6. CASE FlightFails
    BY <1>6 DEF FlightFails, Fail, Final, AtMost
  <1>7. CASE BackedOff
    BY <1>7 DEF BackedOff
  <1>8. CASE BodyEnds
    BY <1>8 DEF BodyEnds, Finish
  <1>9. CASE BodyChunk
    BY <1>9 DEF BodyChunk, Finish
  <1>10. CASE BodyFails
    BY <1>10 DEF BodyFails, Fail
  <1>11. CASE Tick
    BY <1>11 DEF Tick
  <1>12. CASE UNCHANGED vars
    BY <1>12 DEF vars
  <1> QED
    BY <1>1, <1>2, <1>3, <1>4, <1>5, <1>6, <1>7, <1>8, <1>9, <1>10, <1>11, <1>12
       DEF Next, Run, TimedOut, Ended

LEMMA WholeStep ==
    ASSUME TypeOK, WholeOrNot, [Next]_vars
    PROVE  WholeOrNot'
  <1> USE DEF TypeOK, WholeOrNot, instructionVars, bodyVars
  <1>1. CASE Call
    BY <1>1 DEF Call
  <1>2. CASE Resume
    BY <1>2 DEF Resume
  <1>3. CASE BadRequest
    BY <1>3 DEF BadRequest, Fail
  <1>4. CASE Dispatch
    BY <1>4 DEF Dispatch
  <1>5. CASE Respond
    BY <1>5 DEF Respond
  <1>6. CASE FlightFails
    BY <1>6 DEF FlightFails, Fail, Final, AtMost
  <1>7. CASE BackedOff
    BY <1>7 DEF BackedOff
  <1>8. CASE BodyEnds
    BY <1>8 DEF BodyEnds, Finish
  <1>9. CASE BodyChunk
    BY <1>9 DEF BodyChunk, Finish
  <1>10. CASE BodyFails
    BY <1>10 DEF BodyFails, Fail
  <1>11. CASE Tick
    BY <1>11 DEF Tick
  <1>12. CASE UNCHANGED vars
    BY <1>12 DEF vars
  <1> QED
    BY <1>1, <1>2, <1>3, <1>4, <1>5, <1>6, <1>7, <1>8, <1>9, <1>10, <1>11, <1>12
       DEF Next, Run, TimedOut, Ended

THEOREM Inductive == Spec => []IInv
  <1>1. Init => IInv
    <2> SUFFICES ASSUME Init PROVE IInv
      OBVIOUS
    <2>1. TypeOK
      BY DEF Init, TypeOK, Stages, Failures
    <2>2. Calls \in Nat
      BY <2>1, CountType
    <2> QED
      BY <2>1, <2>2, HttpAssumption
         DEF Init, IInv, BodyCapped, AtMost, CallsLeft, OncePerCall, Sent, OnePerAttempt,
             AnsweredIsPast, WholeOrNot
  <1>2. IInv /\ [Next]_vars => IInv'
    BY TypeStep, CapStep, CallsStep, OnceStep, AttemptStep, AnsweredStep, WholeStep DEF IInv
  <1> QED
    BY <1>1, <1>2, PTL DEF Spec

-----------------------------------------------------------------------------
(* The counts.                                                             *)

\* The two retry loops do not multiply.
THEOREM RetriesDoNotMultiply == Spec => []SendsBounded
  <1>1. IInv => SendsBounded
    BY CountType, HttpAssumption
       DEF IInv, TypeOK, CallsLeft, OncePerCall, OnePerAttempt, Sent, Calls, SendsBounded
  <1> QED
    BY <1>1, Inductive, PTL

\* A multipart form with parts, the one body that is a stream (Cloneable), is never
\* sent again by the transport.
THEOREM StreamsAreNotRepeated == Spec => []StreamSentOnce
  <1>1. IInv => StreamSentOnce
    BY DEF IInv, TypeOK, OncePerCall, Sent, StreamSentOnce
  <1> QED
    BY <1>1, Inductive, PTL

\* A body is kept up to the cap, and cut nowhere else.
THEOREM BodiesAreCapped == Spec => []BodyCapped
  <1>1. IInv => BodyCapped
    BY DEF IInv
  <1> QED
    BY <1>1, Inductive, PTL

\* The transport sends nothing for a call that has its response.
THEOREM ResponsesAreFinal == Spec => ResponseIsFinal
  <1>1. IInv /\ [Next]_vars => [answered /\ answered' => sends' = sends]_vars
    <2> SUFFICES ASSUME IInv, Next, answered, answered' PROVE sends' = sends
      BY DEF vars
    <2>1. ~ Dispatch
      BY DEF IInv, AnsweredIsPast, Dispatch
    <2> QED
      BY <2>1 DEF Next, Run, TimedOut, Ended, Call, Resume, BadRequest, Respond, FlightFails,
                  Fail, BackedOff, BodyEnds, Finish, BodyChunk, BodyFails, Tick, vars
  <1> QED
    BY <1>1, Inductive, PTL DEF Spec, ResponseIsFinal

-----------------------------------------------------------------------------
(* The bodies.                                                             *)

\* The spec with one body keeps everything else.
LEMMA OneBodiedFields ==
    ASSUME spec \in RequestSpecs
    PROVE  /\ OneBodied.path = spec.path /\ OneBodied.timeout = spec.timeout
           /\ OneBodied.user_agent = spec.user_agent /\ OneBodied.headers = spec.headers
           /\ OneBodied.cookies = spec.cookies /\ OneBodied.queries = spec.queries
           /\ OneBodied.json = spec.json
           /\ OneBodied.data = IF spec.json # None THEN None ELSE spec.data
           /\ OneBodied.raw = IF spec.json # None \/ spec.data # None THEN None ELSE spec.raw
           /\ OneBodied.multipart =
                IF spec.json # None \/ spec.data # None \/ spec.raw # None
                THEN None ELSE spec.multipart
           /\ OneBodied.hex =
                IF spec.json # None \/ spec.data # None \/ spec.raw # None
                   \/ spec.multipart # None
                THEN None ELSE spec.hex
  BY DEF RequestSpecs, OneBodied, Bodies

\* A body that is not used does not matter.
LEMMA UnusedBodyIgnored ==
    ASSUME spec \in RequestSpecs
    PROVE  Builds(OneBodied, variables) <=> Builds(spec, variables)
  <1> DEFINE used == BodyOf(spec)
  <1>1. BodyOf(OneBodied) = used
    BY OneBodiedFields DEF BodyOf
  <1>2. /\ used = "json" => OneBodied.json = spec.json
        /\ used = "data" => OneBodied.data = spec.data
        /\ used = "raw" => OneBodied.raw = spec.raw
        /\ used = "multipart" => OneBodied.multipart = spec.multipart
        /\ used = "hex" => OneBodied.hex = spec.hex
    BY OneBodiedFields DEF BodyOf
  <1>3. BodyBuilds(OneBodied, variables) <=> BodyBuilds(spec, variables)
    BY <1>1, <1>2 DEF BodyBuilds, BodyOf
  <1> QED
    BY <1>3, OneBodiedFields DEF Builds

\* A form that can be made has no template that names a list.
LEMMA PartsInterpolate ==
    ASSUME spec \in RequestSpecs, Builds(spec, variables), OneBodied.multipart # None,
           NEW s \in PartTemplates
    PROVE  Interpolates(s, variables)
  <1>1. BodyOf(spec) = "multipart"
    BY OneBodiedFields DEF BodyOf
  <1>2. FormBuilds(spec.multipart, variables)
    BY <1>1 DEF Builds, BodyBuilds
  <1>3. \A k \in DOMAIN spec.multipart :
           /\ Interpolates(spec.multipart[k].key, variables)
           /\ MultipartBuilds(spec.multipart[k].value, variables)
    BY <1>2 DEF FormBuilds
  <1>4. CASE s \in {spec.multipart[k].key : k \in DOMAIN spec.multipart}
    BY <1>3, <1>4
  <1>5. CASE \E k \in DOMAIN spec.multipart :
                /\ spec.multipart[k].value.tag = "Part"
                /\ s \in {spec.multipart[k].value.text, spec.multipart[k].value.filename} \ {None}
    BY <1>3, <1>5 DEF MultipartBuilds, PartBuilds, HexBuilds
  <1>6. CASE \E k \in DOMAIN spec.multipart :
                /\ spec.multipart[k].value.tag \in {"String", "Bytes"}
                /\ s = spec.multipart[k].value.text
    BY <1>3, <1>6 DEF MultipartBuilds, HexBuilds
  <1> QED
    BY <1>4, <1>5, <1>6 DEF PartTemplates

\* A request goes out whole or not at all, whatever bodies its spec has.
THEOREM RequestsAreWhole == Spec => []OnlyWholeIsSent
  <1>1. IInv => OnlyWholeIsSent
    BY UnusedBodyIgnored, PartsInterpolate, HttpAssumption
       DEF IInv, TypeOK, WholeOrNot, OnlyWholeIsSent
  <1> QED
    BY <1>1, Inductive, PTL
=============================================================================
