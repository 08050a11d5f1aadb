# A TLA+ model of ruso-runtime

ruso-runtime executes compiled checks (`.rbc` programs) against network targets. A
host decodes a program, builds an `Executor` for a target and awaits `run()`; the
result says whether the check produced a finding, and with which evidence. This
directory models that crate: the modules are translated from the Rust source,
TLC checks them on small instances, and TLAPS proves the invariants that matter most
for every value of their constants.

## 1. The system

| component | source | state | operations |
|---|---|---|---|
| executor | `executor.rs`, `error.rs` | program counter, clock of the run | load (decode, compile the regexes), pre-run port check, one step per instruction, conclude |
| context | `context.rs`, `interpolate.rs` | variables, responses, sessions, evidence, match latch, loop stack | set, store, alias, restore, interpolate, finalize |
| matcher | `matcher.rs`, `contract.rs`, `response.rs` | none | `evaluate`, `evaluate_all`, `evaluate_any`, regex compilation, comparison with numbers and durations |
| bytecode | `bytecode.rs`, `spec.rs` | none | validation of operands |
| binary codec | `binary.rs` | position in the input | encode, decode, a pair of write and read functions per type |
| port cache | `port_cache.rs` | process-wide map from endpoint to (state, time) under a mutex | `check_for_run`, `get_state`, expiry, eviction |
| socket probes | `session.rs`, `socket.rs`, `dns.rs` | connections kept across sends | open, write, read until a cap, an end or a timer |
| http sending | `http.rs` | none between sends | request, transport retries with backoff, capped body |
| request bodies | `body.rs`, `bytes.rs` | none | JSON, form, multipart and binary bodies from templates |
| report | `report.rs` | at most one finding | `set_finding` |
| durations, text truncation | `duration.rs`, `util.rs` | none | `parse_duration`, `truncate_str` |
| disassembler, opcodes, public surface | `disasm.rs`, `opcode.rs`, `lib.rs` | none | formatting, re-exports |

How they interact. `run_bytecode` first asks the process-wide `PortCache` whether the
run's TCP endpoints are open, and returns *skipped* when one is not. Then it walks the
instructions over a `Context` of its own. `Send` and `Retry` call `send_probe`, which
goes to `execute_http`, to the resolver or to a socket exchange, and stores the response
in the context; matching instructions read the responses. Runs share nothing but the port
cache and the program (behind an `Arc`, never written).

What is hard about it:

* *the match latch*: a failed `match` does not abort; it silences six other kinds of
  instruction, each of which tests the latch itself;
* *control flow from data*: jump targets and pool indices come from decoded bytes, loops
  are frames on a stack that instructions push and pop;
* *time*: every await has its own timer, and the script's budget is a timer on top of
  them that only the loop head reads;
* *two retry loops*, one inside the other, around requests that may not be repeatable;
* *sessions* that outlive the exchange, the attempt of a retry and its failure;
* *a shared cache* whose lock is released during a connect;
* *a wire format written twice*, once by the write and once by the read functions, read
  from input that may be damaged and whose counts are not to be believed;
* *requests assembled from many templates*, any of which may fail, with a body chosen by
  a fixed order from several.

`PROJECT.json` lists each of these places with its line under `hazards`, with the
properties that watch it.

What makes each component correct: a run detects only what its matches held for, with
the evidence it collected then, never panics on decoded bytes and always ends
(executor); loop variables are bound by the innermost loop and given back (context);
an answer is not older than the TTL and what it takes to obtain it, and the cache stays
in its cap (port cache); no byte of a session is lost between single reads, a session
that never worked is not kept, an exchange ends (sockets); the request goes out no
more often than configured, and once for a stream or once a response is there, and it
goes out whole or not at all (http, request bodies); what was encoded is what is decoded,
and no cut input is accepted (codec); a placeholder is found whatever braces surround it,
a literal is compared as it is written (interpolation, durations).

## 2. Modules

```
Operands <- Bytecode
Matcher <- Context <- Bytecode <- Executor <- MCExecutor                          (TLC)
              |                      |   \ <- ExecutorProofs <- LoopProofs    (TLAPS)
              |                      +-- INSTANCE Check              (abstract promise)
              +----- Request <- HttpSend <- MCHttpSend, HttpSendProofs
Wire <- Encoder, Decoder (INSTANCE Operands) <- Codec <- MCCodec
                                                  \ <- WireProofs <- CodecProofs
PortCache <- MCPortCache, PortCacheProofs
ProbeSession <- MCProbeSession, ProbeSessionProofs
Literals <- MCLiterals, LiteralsProofs
```

**Matcher** has `Evaluate` (the arms of `evaluate`), `Outcome` (with the lookup of the
target), `EvaluateAll` and `EvaluateAny`. A response is its kind (`http`, `dns`,
`socket`) and the set of *facts* that hold of it ("the body contains admin" is one fact);
a matcher names the fact it asks for. What is kept is everything control depends on:
which pairs of field and predicate are supported, which kind of response each needs,
which errors come before which verdicts.

**Context** is the state of one run as a record, each method of `Context` an operator
from context to context, with the interpolation of templates and the loop helpers of the
executor.

**Operands** is `validate_program`: which operands of an instruction a program's pools
allow. The decoder calls it at its end and the executor relies on it, so both sides use
the one module.

**Bytecode** has programs with `Validate`, `Panics` (the accesses of
`run_bytecode`, written from that function and not from the validation) and `Structured`
(the shape that `foreach_program` of the executor's tests builds).

**Executor** is the state machine of a run: `DecodeFails`, `CompileFails`, `Construct`,
`PreCheck`, then an action per instruction (`Set`, `SetList`, `Send`, `RetryAttempt`, ...,
`Continue`, `Stop`, `Exit`, `Fail`), `Finish` (the end of the code), `BudgetExceeded`
and `Panic`. `pc` is 0-based as in the code, so instruction `pc` is `code[pc + 1]`. A
retry is one step per attempt, since time passes between attempts; every other
instruction is one step, since a run's context is its own. The network is
nondeterministic: a send fails, or answers with any set of facts.

**Check** is what the result promises, with no instructions: proof is collected while the
chain of matches holds, a broken chain does not heal, a finding comes from an unbroken
chain with the proof collected. `Executor!ImplementsCheck` maps `phase`, the latch,
the evidence and the result to it.

**PortCache** is the cache with any number of runs. A run looks a key up (first lock
section), connects (no lock), then stores (second lock section); endpoints open and close
at any time. The history variable `held` remembers when each endpoint was last open and
last closed, which is what freshness is measured against.

**ProbeSession** is one socket probe and its peer: connect, handshake, write, the read
loop with its two timer modes, the cap, and the connection that is kept or dropped. Bytes
are counted; segments arrive at any time; a stream read returns any part of the first
segment and a datagram read one datagram cut to the buffer.

**Request** says which request a spec makes: which of its bodies is sent (`BodyOf`, the
order of `apply_body`), which templates have to resolve and which text must be a URL, a
header, a hex string or a duration for the request to reach the wire (`Builds`), and
whether it can be sent again (`Cloneable`: all but a multipart form with parts, which is a
stream; a form without parts is an empty body). What the request says is left out.

**HttpSend** is one `send` or `retry` of an http probe over it: the calls of
`execute_http`, building the request, the attempts in each call with their pauses, and
the chunks of the body. The client's timeout is replaced by the request's own. The history
variables `arrived` and `ended` keep what has arrived of the body, and whether it came to
its end, so that a cut in the wrong place shows.

**Wire** is the notation for the format: types on the wire, the opcodes, the header.
**Encoder** and **Decoder** are `encode` and `decode` as two machines over the bytes. A
call of a `write_` or `read_` function is a frame on a stack (`writes`, `reads`), with the
type it is for. A `write_` call puts what stands in `Front` of its parts (a number, a tag,
a flag, a count, a text with its length), then calls one function per part; a `read_` call
reads its `head` in the same way, expects the `PartTypes` that the head tells, and is
`Made` into a value when they have returned. Every read is a step, with the `Reader`'s
bound as its guard and each error an outcome of that step. The two modules have their own
tables of fields, tags and labels, each translated from its own functions, so that a field
written and read in different places shows. **Codec** composes them: encode, damage the
bytes (cut, lengthen, change one), decode, and encode again what was accepted. The stack of
the decoder is the stack of a thread: `MaxNested` calls of `read_body_value` fit into it, and
one more ends the process (`Overflow`), since `read_object` and `read_body_value` call each
other without a limit of their own. The encoder's recursion is as deep and is taken to fit,
and so is the one that frees a program; the history variable `deepest` keeps how deep the
encoder went, so that `RoundTrip` can say when the decoder may run out. `Holds`
says what the Rust type of a field can hold; `Typed` that a value and all it is made of
does. Texts and lists are shorter than 2^32 there: their lengths are written `as u32`.

**Literals** has what the runtime makes of single strings: the scan of `interpolate` for
placeholders, one character or placeholder per step; `parse_duration` with the order in
which `split_suffix` tries its units, and the comparisons with their integers of limited
width; the cut of `truncate_str`. Context and Request take the results of these as
constants (`PlaceholderOf`, `DurationOf`).

Definitions named as a *Fault* in a comment are mutations used to test the properties:
each property of a passing run has one under which TLC finds it violated.

## 3. Runs

| run | shows |
|---|---|
| `exec_untimed` | without a budget. `NoPanicFromBytes`: what decoding accepts never indexes outside a pool; `MissIsFinal`: after a miss nothing is collected, aborted or detected; `ImplementsCheck`; `StackIsNesting`: in compiler-shaped code the stack is the loops around `pc`, so no loop instruction finds it empty; `LoopsEnd`: such programs end by themselves |
| `exec_timed` | under a budget. `LoopBinding`: a loop variable is the item of its innermost frame, and without a frame what it was before; `Terminates`; `PrecheckCoversSend`: a TCP endpoint that a send connects to was checked before the run, and open, if the script does not write the variables of its hosts; `SessionKeepsTranscript`: what a session received accumulates in its response; `TypeOK` |
| `cache_shared` | `FreshAnswers`, `Timely`: an answer lags the network by less than the TTL, a connect and two waits; `ChecksComplete`: a skip names the first endpoint that was found closed, a run that goes on found all open; `Capacity`, `EvictsOldest`: the cache stays in its cap, although concurrent stores looked their keys up before, and gives up its oldest entry; `EveryCheckReturns` |
| `session` | `Capped`, `StreamIsWhole`, `OnlyProvenIsKept`, `EveryExchangeEnds` |
| `http_send` | `SendsBounded`, `StreamSentOnce`, `ResponseIsFinal`, `InstructionEnds`; `BodyCapped`: what is kept of a body is what has arrived up to the cap, and a body that is not whole is cut at the cap and nowhere else; `OnlyWholeIsSent`: a request goes out only when all it is made of resolved, whichever body it has |
| `codec` | `RoundTrip`: what is decoded is what was encoded, also when that was accepted from damaged bytes, unless its objects nest deeper than the stack has room for; `NoTruncation`: no prefix and no extension of an encoded program is accepted; `VersionFirst`: nothing of another version is interpreted; `ReadsFit`: the reader stays in its input, and no list reserves more elements than that has bytes (list by list: an element is larger than a byte, and lists in lists add up) |
| `literals` | `EveryPlaceholderExpands`, `ComparesAsWritten`, `CutIsWhole` |
| `exec_sleep` (violated) | the budget does not bound the run: a sleep or a retry series is not cut short (`executor.rs:57` against `:258`) |
| `exec_http` (violated) | an HTTP-only check does have port checks (`executor.rs:119` against `port_cache.rs:90`) |
| `session_idle` (violated) | the idle timer runs on the first read too (`spec.rs:60` against `session.rs:217`) |
| `http_reset` (violated) | a reset after the connect, and a timeout in the body, are not retried (`executor.rs:61` against `http.rs:180` and `:83`) |
| `codec_nested` (violated) | decode of a program whose objects nest deeper than the stack has room for gives no answer (`binary.rs:106` against `:705`) |

Other places where the text and the code differ, without a run of their own because no
behaviour depends on them: `opcode.rs:3-14` lists the payload pool as a section of its
own behind the others and a report title, while the code writes payloads right after the
strings and has no title (`binary.rs:55-57`, `:76-77`); `contract.rs:66-67` calls
`Interpolation` a string with placeholders, while `body.rs:45`, `:79` and `:124` take it
as the name of a variable; `BytecodeError::TooShort` is never returned; a spec's `proxy`
is decoded, but `client_for_http` looks at the configured one only (`executor.rs:216-231`).

Bounds, and why they suffice.

* *Programs.* `exec_untimed` takes all sequences of up to three instructions of the
  matching alphabet after a send, backward jumps and jumps out of the program included: a
  latch that some instruction ignores needs a miss, then that instruction. Each
  instruction with operands also runs with operands below, at and above the end of its
  pool, before and after a miss, decoded and built by hand. Two real nested loops over the
  same and over different names, with `break`, `continue`, `if` and a list that is
  replaced in each of their bodies, stand for compiler-shaped code. `exec_timed` takes all
  sequences of up to four loop instructions, which covers two loops with a body each, and
  unmatched ones; and sends, retries and saves in all orders of up to three after a send,
  over every kind of socket probe. `MaxDepth = 2` bounds the loop stack where the code
  does not; a third frame differs from the second by nothing that an operation looks at.
* *Facts.* One or two facts suffice for a matcher to hold or not; `Invalid` has the one
  whose regex does not compile.
* *Time.* Units are abstract. TTL 2, connect timeout 1 and lag 1 let an entry expire
  during a check, be replaced, and be read a tick before it expires; `MaxTime = 1` is when
  the last check begins: time for two checks one after the other and for two at once, each
  of which may take six ticks, so that entries expire on the way. One change of
  reachability is enough to make every cached answer wrong once. Two runs of two endpoints
  each, one in both, make three keys compete for two entries.
* *Bytes of an exchange.* A buffer of 2, segments up to 3 and caps from 0 to 3 put every
  cap below, at and above the buffer and the segment.
* *Requests.* One request per part that may fail, each kind of body value with each
  template of it failing, a multipart form without parts, and six pairs of two bodies at once; objects are nested to
  one level, where the code recurses. A variable is text that suits a URL, a header or
  hex, or none of them.
* *Retries.* Two transport retries (the default) and retry counts from 0 to 3; three
  pauses because `retry_backoff` has three arms.
* *Bytes of a program.* `Radix = 32` in place of 256 keeps a u32 within TLC's integers and
  leaves room for every tag; bytes below 16 are UTF-8 and the others not. `Damages` are the
  values 0, 2 and 30: a flag that is cleared and one that is neither 0 nor 1, a tag that is
  mostly valid, and one that is not, nor UTF-8, and a length beyond the input. The nine programs use each section, struct, arm of
  a union and instruction; one has an operand past its pool, and one an object in an object
  in an object, a level more than the `MaxNested = 2` of the run. With one damage at a
  time, each check of the decoder meets it with all else intact (450,000 states).
* *Strings.* All templates of five character classes show every overlap of braces that one
  placeholder can have; rows of five whole pieces put placeholders beside each other.
  `MaxU64 = 15` in place of 2^64 - 1, a second of 2 ms and units of 1 to 4 s let numerals,
  seconds and milliseconds each pass the end of a word. Six bytes hold every placing of
  boundaries around a cut.

Fairness. `FairSpec` of each module assumes weak fairness of what the program does by
itself and of the clock, and of nothing the peer does: the tokio runtime polls a task
that can go on, and its timers fire. In `Executor` this covers sends as steps, because
each await in them has a timeout, which `EveryExchangeEnds`, `InstructionEnds` and
`EveryCheckReturns` show in the modules that have these awaits; the OS resolver of a
`dns` probe is the exception, its call has no timeout and is assumed to return.
`Unsupported`, `ReadChunk` and the like are the program's steps; `Connected`,
`ShookHands`, `Respond`, `Refused` are the peer's and owed by nobody. So a connect of the
cache is sure of an answer only when its timer fires (`Due`), a write of a payload only of
its timeout (`Own` of ProbeSession), and a body only of the request's, but for a cap of
zero, which waits for nothing (`Own` of HttpSend). The codec is one synchronous call and
has no fairness and no liveness property.

## 4. Proofs

The theorems hold for every value of the constants; the assumptions are the named
`ASSUME`s of the modules (constants of the right type, a positive cap and TTL, a cut text
that begins and ends between characters), which TLC evaluates in every run.

`ExecutorProofs` (any programs, any strings, any budget):

* `TypeCorrect`: `Spec => []TypeOK`. The lemmas `InstructionEffect` and its kin say once
  what any instruction does to the variables (context to context, pc to a natural, the
  result untouched unless the run ends), from the types of the `Context` operators, so
  that the invariants need not visit every instruction again.
* `DecodedSafe`: `Spec => []NoPanicFromBytes`, from the invariant `Decoded` (a program
  that came from bytes and got past loading is `Validate`d) and the lemma that on a
  validated program no instruction `Panics`.
* `MissFinal`: `Spec => MissIsFinal`, from the type invariant and `Pending` (no result
  before the end).
* `Implements`: `Spec => ImplementsCheck`. Initial states map to initial states; loading
  and the port check map to `Prepare`, a miss to `Miss`, evidence to `Collect`, `Stop`,
  `Exit` and `Finish` to `Detect` or `EndWithout`, errors to `EndWithout`, all else to a
  stutter. `Pending` is needed for the verdict to be `NoFinding` until then.

`LoopProofs` (any program; its loops, then its sends):

* `LoopsBind`: `Spec => []LoopBinding`. The property looks at each name's innermost frame,
  and a pop uncovers the one below. `Binds` therefore says of every frame that what it
  will restore is the value under it: the item of the next frame of the same name, or what
  the variable was before the loops.
* `StackNests`: `Spec => []StackIsNesting`. `Nests` ties the frames to the loops around
  `pc` in order, with `continue_pc = end_pc - 1` for each, and the lemmas on structured
  code (`SameLevelNext`, `EnterLevel`, `InnermostLevel`, `PopNests`) say how the loops
  around `pc` change as `pc` moves.

* `SendsAreCovered`: `Spec => []PrecheckCoversSend`. A script that does not set, extract or
  list the variables of its hosts may still loop over a name that was bound; this is where
  `LoopBinding` is needed, and `Covered` carries the endpoints from the check to the sends.
* `SessionsKeep`: `Spec => SessionKeepsTranscript`, from `SessionsAsked`: a kept session
  belongs to a probe that asks for one.

`PortCacheProofs` (any runs, endpoints, cap and times):

* `EntriesTimely`: `Timely` with `TypeOK` is the inductive invariant. `FreshAnswers` by
  itself says nothing of entries that nobody has read yet, so `Timely` carries along how
  late an entry, a connect in flight and an answer waiting for its store may be.
* `AnswersFresh`: `Spec => FreshAnswers` from it: a hit adds less than the TTL.
* `CapacityHolds` and `OldestEvicted`: by cardinality of the domain, which needs that it
  is finite (part of the invariant) and that a full cache has an oldest entry.
* `SkipsAreExplained`: `Spec => []ChecksComplete`, which is inductive with the types; one
  more answer extends the list that the check has come through.

`ProbeSessionProofs` (any probes, timeouts, buffer and peer): `ResponsesAreCapped`,
`SessionsLoseNothing` and `SessionsAreProven` from one inductive invariant. It adds what the
reading loop may still take at each point, and what is true of a connection while the
exchange is under way and has not proved itself yet.

`HttpSendProofs` (any requests, variables, retries, timeouts, cap): `RetriesDoNotMultiply`,
`StreamsAreNotRepeated` (of multipart forms with parts; all else may be repeated) and
`BodiesAreCapped` from the invariant that counts the calls that are over and the attempts of
the current one, and says when a chunk has been cut; `ResponsesAreFinal` as an action property;
`RequestsAreWhole` with the lemmas that the bodies which `BodyOf` passes over do not matter.

`WireProofs` and `CodecProofs` (any radix, header, bytes and programs):

* `ReaderStaysInside` and `VersionDecides`: `Decoding => []ReadsFit` and `[]VersionFirst`,
  for any input at all. `DecodingInv` says that each frame expects the parts of its head
  and has read as many values as it has gone through (`StackOk`), and where the header ends.
* `EncodedIsDecoded`: `Spec => []RoundTrip`, and `EndsMatter`: `Spec => []NoTruncation`.
  Nothing is assumed of the programs but `Typed`, so they may be of any size and depth. Where
  the depth passes `MaxNested` the decoder may overflow, and only there: `Fathomed` says that
  `deepest` is the depth of the encoder's calls, which are the decoder's (`NestedSame`).
  A program is recursive, and a proof by induction over it is out of reach; what is
  inductive is the run. The argument:
  - *The tables agree.* `WireProofs` goes through them, struct by struct and union by union
    (`TypeAgrees`): the reader takes from the front of a value the head it was written for
    (`HeadOf`), expects the types of the parts that are written, and makes the value again
    out of them (`Made`). Here a field in the wrong place would show. The other way round,
    what the reader makes of anything it accepts can be written (`MadeIsGood`): this is
    what lets a program from damaged bytes go round once more.
  - *Lists are paid for.* `bounded_count` refuses a count above the bytes that remain. The
    encoder never writes such a list: each element puts at least a byte (`Pays`,
    `PaysStep`), which the invariant carries for every list whose elements are still being
    written, at any depth.
  - *decode follows encode.* `History(H, e, program)` is a set of moments of `encode`, each
    with its calls and bytes, ending in `e`; each has a successor in the set. `InStep(c)`
    says that `decode` has read, call by call, what `encode` had written at the moment `c`.
    `EncodeInv` builds the history as `encode` runs; from then on `Following` says that
    `decode` is in step with some moment of it, and each of its steps moves to the next.
  - *The end.* At the last moment the bytes are used up and the program read is the source:
    with nothing behind, the answer is that of `validate_program`, with a byte behind it
    `Corrupt`. Of a cut input (`Kept`), some front is not whole, and `need` refuses it.

`LiteralsProofs` (any template, text, literal and width):

* `PlaceholdersExpand`: `Spec => []EveryPlaceholderExpands`. The property compares the scan
  with a search of the whole template. `ExpandedSoFar` says it of the template before the
  current character, and needs that no placeholder is entered in its middle: two of them
  never overlap, because the blanks and the name between braces are no braces, and a brace
  that opens none is copied alone, so that a placeholder may begin at the next one.
* `CutsAreWhole`, from the invariant that no boundary between `max_len` and the cut was
  passed.
* `ComparisonsAsWritten`, for literals whose number, or number of milliseconds, fits the
  integers: `compare_duration_ms` wraps a longer one (`matcher.rs:270`), and the theorem says
  nothing of it. It follows from the lemmas that a unit read back is the unit written
  (`UnitOfUnit`, which is where the order of the suffixes matters) and that other letters
  are refused (`DurationRefused`).

Every invariant and every action property of the passing runs is proved. Only
model-checked are the liveness properties (`Terminates`, `LoopsEnd`, `EveryCheckReturns`,
`EveryExchangeEnds`, `InstructionEnds`), since TLAPS has no rules for fairness and ENABLED,
and the five violations.

## 5. Not modelled

* The disassembler and the dump and reading of programs as hex text: text without state.
* Text that nothing branches on: what a request or a report says, the join of a URL's
  parts, log lines, error messages. Regexes, substring search and header lookup are facts
  of a response.
* Host normalisation and the parsing of a scan target (`port_cache.rs`): keys are
  normalised hosts.
* A timeout says nothing about whether the target handled the request, and a POST is sent
  again like a GET: the code promises nothing about it, `SendsBounded` bounds how often.
* Which exchange a late answer belongs to: the protocol of the peer does not say, and the
  code does not ask; `StreamIsWhole` shows that its bytes are not lost.
* Two runs of one `Executor` value at the same time: they share no state but the cache,
  which `PortCache` has with several runs. `FreshAnswers` there and `PrecheckCoversSend` in
  `Executor` are the two halves of what a run may rely on: the endpoint was checked, and
  the check is as fresh as that.
* TLS details beyond a handshake that takes time and may fail; redirects and the client
  pool, which are reqwest's.

## 6. Plan

1. *(done)* Executor with Context, Matcher and Bytecode; Check; PortCache; ProbeSession;
   HttpSend; their proofs.
2. *(done)* The codec of `binary.rs` with encoder and decoder side by side, on damaged
   input.
3. *(done)* Request bodies and the other parts of a request under HttpSend; durations,
   placeholders and truncation in Literals.
4. *(done)* The proofs of every safety property of Executor, PortCache, ProbeSession and
   HttpSend.
5. *(done)* The proofs of the codec's round trip and of `EveryPlaceholderExpands`, for which
   the encoder became a machine with a stack of calls instead of a recursive operator.
6. *(open)* The second round for any input: `AcceptedIsGood` holds of all bytes that are
   accepted, while `Codec` decodes damaged programs with one byte changed; the effect of a
   repeated request on the target, if the code ever distinguishes methods that may be
   repeated.
