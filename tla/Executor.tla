------------------------------ MODULE Executor -------------------------------
(***************************************************************************)
(* executor.rs: one run of one compiled check.  The executor loads a       *)
(* program, checks its ports, then walks the instruction stream with a     *)
(* program counter over a Context, one action per instruction.             *)
(*                                                                         *)
(* The network is nondeterministic: a send fails, or answers with any set  *)
(* of facts.  Wall-clock time passes in Tick, between any two steps, and   *)
(* in the sleeps the run makes itself.                                     *)
(***************************************************************************)
EXTENDS Bytecode, FiniteSets

CONSTANTS
    Programs,           \* the programs a run may be given
    Origins,            \* how: "bytes" (from_bytes) or "program" (from_program)
    ScanVariables,      \* scan_target_variables(base_url)
    BaseEndpoint,       \* scan_target_host_port(base_url), or None
    Budget,             \* max_script_duration, or None
    DurationOf,         \* duration literal |-> its length
    DefaultRetryDelay,  \* the delay of `retry` without a retry_delay
    MaxDepth            \* bound: loops entered and not left at one time

ASSUME ExecutorAssumption ==
    /\ \A p \in Programs : IsProgram(p)
    /\ Origins \subseteq {"bytes", "program"}
    /\ ScanVariables \in [Strs -> Value]
    /\ \A s \in Strs : ScanVariables[s].tag # "list"
    /\ BaseEndpoint \in [host : Strs, port : Ports] \cup {None}
    /\ Budget \in Nat \cup {None}
    /\ DOMAIN DurationOf \subseteq Strs
    /\ \A s \in DOMAIN DurationOf : DurationOf[s] \in Nat
    /\ DefaultRetryDelay \in Nat
    /\ MaxDepth \in Nat
    /\ None \notin Nat

VARIABLES
    prog, origin,   \* the program and where it came from
    phase,          \* "load", "precheck", "run" or "done"
    pc,             \* 0-based program counter
    context,        \* the Context of this run
    attempt,        \* failed attempts of the `retry` at pc
    elapsed,        \* started_at.elapsed(), kept only when a budget reads it
    port_checks,    \* the pre-run port checks and what they found
    contacted,      \* history: TCP endpoints the sends opened a connection to
    result          \* what run() returned

vars == <<prog, origin, phase, pc, context, attempt, elapsed, port_checks,
          contacted, result>>

Endpoint == [host : Strs, port : Ports]
Causes == {"corrupt", "regex", "budget", "fail", "interpolation", "probe",
           "retry", "match", "assert", "extract", "evidence", "not_a_list",
           "outside_loop", "duration", "operand", "port_closed", "none"}
NoResult == [tag |-> "none", why |-> "none", detected |-> FALSE, evidence |-> {}]
Failure(tag, cause) == [NoResult EXCEPT !.tag = tag, !.why = cause]

Init ==
    /\ prog \in Programs
    /\ origin \in Origins
    /\ phase = "load"
    /\ pc = 0
    /\ context = FromSpec(ScanVariables)
    /\ attempt = 0
    /\ elapsed = 0
    /\ port_checks = {}
    /\ contacted = {}
    /\ result = NoResult

-----------------------------------------------------------------------------
(* Construction: decode validates, from_program does not.                  *)
Reject(cause) ==
    /\ phase' = "done"
    /\ result' = Failure("rejected", cause)
    /\ UNCHANGED <<prog, origin, pc, context, attempt, elapsed, port_checks, contacted>>

DecodeFails ==
    /\ phase = "load"
    /\ origin = "bytes" /\ ~ Validate(prog)
    /\ Reject("corrupt")

CompileFails ==
    /\ phase = "load"
    /\ origin = "bytes" => Validate(prog)
    /\ RegexesFail(prog)
    /\ Reject("regex")

Construct ==
    /\ phase = "load"
    /\ origin = "bytes" => Validate(prog)
    /\ ~ RegexesFail(prog)
    /\ phase' = "precheck"
    /\ UNCHANGED <<prog, origin, pc, context, attempt, elapsed, port_checks, contacted, result>>

-----------------------------------------------------------------------------
(* The pre-run port check.  Hosts are resolved with the scan variables     *)
(* only; no host name resolves from the empty string.                      *)
Endpoints(p) ==
    {[host |-> Interpolate(p.probes[n].host, ScanVariables), port |-> p.probes[n].port] :
        n \in {m \in DOMAIN p.probes : p.probes[m].kind = "tcp" /\ p.probes[m].port # None}}
    \cup {e \in {BaseEndpoint} :
            e # None /\ \E n \in DOMAIN p.probes : p.probes[n].kind = "http"}

PreCheck ==
    /\ phase = "precheck"
    /\ \E open \in SUBSET {e \in Endpoints(prog) : e.host # Empty} :
          /\ port_checks' = {[endpoint |-> e, open |-> e \in open] : e \in Endpoints(prog)}
          /\ IF open = Endpoints(prog)
             THEN phase' = "run" /\ UNCHANGED result
             ELSE phase' = "done" /\ result' = Failure("skipped", "port_closed")
    /\ UNCHANGED <<prog, origin, pc, context, attempt, elapsed, contacted>>

-----------------------------------------------------------------------------
(* The frame of an instruction step.                                       *)
\* Fault: the budget is not read.
BudgetUnread == TRUE
WithinBudget == Budget # None => elapsed <= Budget
Here == prog.code[pc + 1]
Text(i) == prog.strings[i + 1]

AtInstr == phase = "run" /\ attempt = 0 /\ pc < Len(prog.code) /\ WithinBudget
At(op) == AtInstr /\ Here.op = op /\ ~ Panics(Here, prog, context.matched)

Proceed(target, c) ==
    /\ pc' = target
    /\ context' = c
    /\ UNCHANGED <<prog, origin, phase, port_checks, result>>

End(outcome, c) ==
    /\ phase' = "done"
    /\ result' = outcome
    /\ context' = c
    /\ UNCHANGED <<prog, origin, pc, port_checks>>

Goto(target, c) == Proceed(target, c) /\ UNCHANGED <<attempt, elapsed, contacted>>
Abort(cause) == End(Failure("error", cause), context) /\ UNCHANGED <<attempt, elapsed, contacted>>

\* The tail of run_bytecode: close_sessions, finalize_finding, Ok(result).
Conclude(c) ==
    /\ LET found == EmitsFinding(c, prog.named) IN
       End([tag |-> "ok", why |-> "none", detected |-> found,
            evidence |-> IF found THEN c.evidence ELSE {}],
           CloseSessions(c))
    /\ UNCHANGED <<attempt, elapsed, contacted>>

\* The clock of the run after a sleep of d.
After(d) == IF Budget = None THEN elapsed ELSE elapsed + d

-----------------------------------------------------------------------------
(* Variables.                                                              *)
Slice(start, len) == SubSeq(prog.strings, start + 1, start + len)
AllInterpolate(l) == \A k \in 1..Len(l) : Interpolates(l[k], context.variables)
InterpolateAll(l) == [k \in 1..Len(l) |-> Interpolate(l[k], context.variables)]

Set ==
    /\ At("Set")
    /\ IF Interpolates(Text(Here.value), context.variables)
       THEN Goto(pc + 1, SetVariable(context, Text(Here.name),
                           Interpolate(Text(Here.value), context.variables)))
       ELSE Abort("interpolation")

SetList ==
    /\ At("SetList")
    /\ LET list == Slice(Here.start, Here.len) IN
       IF AllInterpolate(list)
       THEN Goto(pc + 1, SetListVariable(context, Text(Here.name), InterpolateAll(list)))
       ELSE Abort("interpolation")

-----------------------------------------------------------------------------
(* send_probe.  The errors that need no network come first.                *)
CanSend(n) ==
    /\ n \in DOMAIN prog.probes
    /\ LET p == prog.probes[n] IN
       /\ Interpolates(p.host, context.variables)
       /\ p.payload # None => Interpolates(p.payload, context.variables)
       /\ p.kind \in {"tcp", "udp"} => p.port # None
       /\ p.kind = "udp" => ~ p.tls

\* Fault: the connection goes to the literal host of the spec.
ConnectsUninterpolated(n) ==
    IF CanSend(n) /\ prog.probes[n].kind = "tcp"
    THEN {[host |-> prog.probes[n].host, port |-> prog.probes[n].port]}
    ELSE {}

\* exchange_tcp_probe connects unless it has a live session of this name.
Connects(n) ==
    IF /\ CanSend(n)
       /\ prog.probes[n].kind = "tcp"
       /\ ~ (prog.probes[n].session /\ n \in context.sessions)
    THEN {[host |-> Interpolate(prog.probes[n].host, context.variables),
           port |-> prog.probes[n].port]}
    ELSE {}

ResponseKind(p, overridden) ==
    IF p.kind = "http" THEN "http"
    ELSE IF p.kind = "dns" /\ p.port = None /\ p.payload = None /\ ~ overridden
         THEN "dns"
         ELSE "socket"

\* Fault: a later exchange replaces what the session received before.
ReceivedReplaces(n, overridden, facts) ==
    LET p == prog.probes[n] IN
    [StoreResponse(context, n, [kind |-> ResponseKind(p, overridden), facts |-> facts])
        EXCEPT !.sessions = IF p.session /\ p.kind \in {"tcp", "udp"}
                            THEN context.sessions \cup {n} ELSE context.sessions]

\* The session a successful exchange leaves open, and the response it stores:
\* with `session`, socket data is appended to the socket data already there.
Received(n, overridden, facts) ==
    LET p == prog.probes[n]
        fresh == [kind |-> ResponseKind(p, overridden), facts |-> facts]
        old == context.responses[n]
        appends == /\ p.session /\ p.kind # "http"
                   /\ fresh.kind = "socket" /\ old.kind = "socket"
        kept == IF p.session /\ p.kind \in {"tcp", "udp"}
                THEN context.sessions \cup {n}
                ELSE context.sessions
    IN [StoreResponse(context, n,
            IF appends THEN [old EXCEPT !.facts = old.facts \cup facts] ELSE fresh)
        EXCEPT !.sessions = kept]

Send ==
    /\ At("Send")
    /\ LET n == Text(Here.probe)
           overridden == Here.payload # None IN
       /\ contacted' = contacted \cup Connects(n)
       /\ \/ /\ CanSend(n)
             /\ \E facts \in SUBSET Facts : Proceed(pc + 1, Received(n, overridden, facts))
          \/ End(Failure("error", "probe"), context)
    /\ UNCHANGED <<attempt, elapsed>>

\* retry_send: the attempts of one instruction.  The budget is not read
\* between them, and a failed attempt leaves the context as it was.
AtRetry ==
    /\ phase = "run" /\ pc < Len(prog.code)
    /\ Here.op = "Retry" /\ ~ Panics(Here, prog, context.matched)
    /\ attempt = 0 => WithinBudget

RetryDelayNow ==
    IF attempt = 0 THEN 0
    ELSE IF context.retry_delay = None THEN DefaultRetryDelay ELSE context.retry_delay

RetryNever ==
    /\ AtRetry
    /\ Here.count = 0
    /\ Abort("retry")

RetryAttempt ==
    /\ AtRetry
    /\ attempt < Here.count
    /\ elapsed' = After(RetryDelayNow)
    /\ contacted' = contacted \cup Connects(Text(Here.probe))
    /\ \/ /\ CanSend(Text(Here.probe))
          /\ attempt' = 0
          /\ \E facts \in SUBSET Facts :
                Proceed(pc + 1, Received(Text(Here.probe), FALSE, facts))
       \/ /\ attempt + 1 < Here.count
          /\ attempt' = attempt + 1
          /\ Proceed(pc, context)
       \/ /\ attempt + 1 = Here.count
          /\ UNCHANGED attempt
          /\ End(Failure("error", "probe"), context)

SetRetryDelay ==
    /\ At("RetryDelay")
    /\ IF Text(Here.value) \in DOMAIN DurationOf
       THEN Goto(pc + 1, [context EXCEPT !.retry_delay = DurationOf[Text(Here.value)]])
       ELSE Abort("duration")

Sleep ==
    /\ At("Sleep")
    /\ IF Text(Here.value) \in DOMAIN DurationOf
       THEN /\ elapsed' = After(DurationOf[Text(Here.value)])
            /\ Proceed(pc + 1, context)
            /\ UNCHANGED <<attempt, contacted>>
       ELSE Abort("duration")

Save ==
    /\ At("Save")
    /\ Goto(pc + 1, AliasResponse(context, Text(Here.from), Text(Here.to)))

-----------------------------------------------------------------------------
(* The match chain: `matched` latches false, and from then on the matching *)
(* instructions do nothing.                                                *)
ApplyVerdict(verdict) ==
    CASE verdict = "true" -> Goto(pc + 1, context)
      [] verdict = "false" -> Goto(pc + 1, [context EXCEPT !.matched = FALSE])
      [] OTHER -> Abort("match")

MatcherHere == prog.matchers[Here.matcher + 1]
MatchersHere == SubSeq(prog.matchers, Here.start + 1, Here.start + Here.len)

Match ==
    /\ At("Match")
    /\ IF context.matched
       THEN ApplyVerdict(Outcome(MatcherHere, context.responses))
       ELSE Goto(pc + 1, context)

MatchAll ==
    /\ At("MatchAll")
    /\ IF context.matched
       THEN ApplyVerdict(EvaluateAll(MatchersHere, context.responses))
       ELSE Goto(pc + 1, context)

MatchAny ==
    /\ At("MatchAny")
    /\ IF context.matched
       THEN ApplyVerdict(EvaluateAny(MatchersHere, context.responses))
       ELSE Goto(pc + 1, context)

\* Fault: the assertion is made on a broken chain too.
AssertUnlatched ==
    /\ At("Assert") /\ OneIn(Here.matcher, prog.matchers)
    /\ IF Outcome(MatcherHere, context.responses) = "true"
       THEN Goto(pc + 1, context)
       ELSE Abort("assert")

Assert ==
    /\ At("Assert")
    /\ IF context.matched => Outcome(MatcherHere, context.responses) = "true"
       THEN Goto(pc + 1, context)
       ELSE Abort("assert")

IfMatch ==
    /\ At("IfMatch")
    /\ LET verdict == IF context.matched
                      THEN Outcome(MatcherHere, context.responses)
                      ELSE "false" IN
       CASE verdict = "true" -> Goto(pc + 1, context)
         [] verdict = "false" -> Goto(Here.else_pc, context)
         [] OTHER -> Abort("match")

\* The texts an extract rule can yield; none is a failure.  A whole body is
\* any text that it carries.
ExtractTexts(rule, r) ==
    IF r.kind # "http" THEN {}
    ELSE IF rule.fact = None THEN r.facts ELSE r.facts \cap {rule.fact}

Extract ==
    /\ At("Extract")
    /\ IF context.matched
       THEN LET rule == prog.extracts[Here.source + 1]
                texts == ExtractTexts(rule, context.responses[rule.target]) IN
            \/ \E s \in texts : Goto(pc + 1, SetVariable(context, Text(Here.name), s))
            \/ texts = {} /\ Abort("extract")
       ELSE Goto(pc + 1, context)

\* The texts an evidence rule can yield.  Without a pattern an empty response
\* is still evidence; a header has to be there.
EvidenceTexts(rule, r) ==
    IF r.kind = "none" \/ (rule.kind # "response" /\ r.kind # "http") THEN {}
    ELSE IF rule.fact # None THEN r.facts \cap {rule.fact}
         ELSE IF r.facts = {} THEN {Empty} ELSE r.facts

Evidence ==
    /\ At("Evidence")
    /\ IF context.matched
       THEN LET rule == prog.evidence[Here.evidence + 1]
                texts == EvidenceTexts(rule, context.responses[rule.target]) IN
            \/ \E s \in texts :
                  Goto(pc + 1, [context EXCEPT !.evidence = context.evidence \cup {s}])
            \/ texts = {} /\ Abort("evidence")
       ELSE Goto(pc + 1, context)

-----------------------------------------------------------------------------
(* Loops.                                                                  *)
Enter(name, list, end) ==
    IF list = << >>
    THEN Goto(end, context)
    ELSE /\ Len(context.loop_stack) < MaxDepth
         /\ Goto(pc + 1, EnterForeach(context, name, list, pc, end))

ForList ==
    /\ At("ForList")
    /\ LET list == Slice(Here.start, Here.len) IN
       IF AllInterpolate(list)
       THEN Enter(Text(Here.item), InterpolateAll(list), Here.end_pc)
       ELSE Abort("interpolation")

ForVar ==
    /\ At("ForVar")
    /\ LET value == context.variables[Text(Here.list)] IN
       CASE value.tag = "list" -> Enter(Text(Here.item), value.items, Here.end_pc)
         [] value.tag = "none" -> Goto(Here.end_pc, context)
         [] OTHER -> Abort("not_a_list")

LoopBack ==
    /\ At("LoopBack")
    /\ IF context.loop_stack = << >> THEN Abort("outside_loop")
       ELSE IF HasNext(context)
            THEN Goto(Top(context).head_pc, AdvanceLoop(context))
            ELSE Goto(Top(context).end_pc, LeaveLoop(context))

Break ==
    /\ At("Break")
    /\ IF context.loop_stack = << >> THEN Abort("outside_loop")
       ELSE Goto(Top(context).end_pc, LeaveLoop(context))

Continue ==
    /\ At("Continue")
    /\ IF context.loop_stack = << >> THEN Abort("outside_loop")
       ELSE Goto(Top(context).continue_pc, context)

-----------------------------------------------------------------------------
(* The ways a run ends.                                                    *)
Stop == At("Stop") /\ Conclude([context EXCEPT !.emit_finding = FALSE])
Exit == At("Exit") /\ Conclude(context)

Fail ==
    /\ At("Fail")
    /\ End(Failure("error", "fail"), [context EXCEPT !.failed = TRUE])
    /\ UNCHANGED <<attempt, elapsed, contacted>>

\* The loop head is the only place that reads the budget, and only while
\* there is an instruction left.
Finish ==
    /\ phase = "run"
    /\ pc >= Len(prog.code)
    /\ Conclude(context)

BudgetExceeded ==
    /\ phase = "run" /\ attempt = 0 /\ pc < Len(prog.code)
    /\ ~ WithinBudget
    /\ Abort("budget")

Panic ==
    /\ AtInstr
    /\ Panics(Here, prog, context.matched)
    /\ End(Failure("panic", "operand"), context)
    /\ UNCHANGED <<attempt, elapsed, contacted>>

\* Bound: past the budget the amount no longer matters.
Tick ==
    /\ phase = "run" /\ Budget # None /\ elapsed <= Budget
    /\ elapsed' = elapsed + 1
    /\ UNCHANGED <<prog, origin, phase, pc, context, attempt, port_checks, contacted, result>>

Terminated == phase = "done" /\ UNCHANGED vars

-----------------------------------------------------------------------------
Instruction ==
    \/ Set \/ SetList \/ Send \/ RetryNever \/ RetryAttempt \/ SetRetryDelay
    \/ Sleep \/ Save \/ Match \/ MatchAll \/ MatchAny \/ Assert \/ IfMatch
    \/ Extract \/ Evidence \/ ForList \/ ForVar \/ LoopBack \/ Break
    \/ Continue \/ Stop \/ Exit \/ Fail

Step ==
    \/ DecodeFails \/ CompileFails \/ Construct \/ PreCheck
    \/ Instruction \/ Finish \/ BudgetExceeded \/ Panic

Next == Step \/ Tick \/ Terminated

Spec == Init /\ [][Next]_vars

\* The runtime polls the run's task, every await has a timeout, and the clock
\* advances.
FairSpec == Spec /\ WF_vars(Step) /\ WF_vars(Tick)

-----------------------------------------------------------------------------
(* Properties.                                                             *)

\* Every variable keeps its type; a context is always a Context.
TypeOK ==
    /\ IsProgram(prog)
    /\ origin \in Origins
    /\ phase \in {"load", "precheck", "run", "done"}
    /\ pc \in Nat
    /\ context \in Contexts
    /\ attempt \in Nat
    /\ elapsed \in Nat
    /\ port_checks \subseteq [endpoint : Endpoint, open : BOOLEAN]
    /\ contacted \subseteq Endpoint
    /\ result \in [tag : {"none", "rejected", "skipped", "ok", "error", "panic"},
                   why : Causes, detected : BOOLEAN, evidence : SUBSET Strs]

\* Decoded bytecode never makes the executor index outside a pool: what
\* validate_program accepts covers every access that run_bytecode performs.
NoPanicFromBytes == origin = "bytes" => result.tag # "panic"

\* Once a match has failed the chain stays broken to the end of the run: no
\* evidence is collected, no match, assert, extract or evidence instruction
\* can abort the run any more, and the run does not detect.
MissIsFinal ==
    [][(phase = "run" /\ ~ context.matched) =>
          /\ ~ context'.matched
          /\ context'.evidence = context.evidence
          /\ ~ result'.detected
          /\ result'.why \notin {"match", "assert", "extract", "evidence"}]_vars

\* The names that a program binds as loop items and in no other way.
BoundByLoop(p, x) ==
    \E k \in 1..Len(p.code) :
        /\ p.code[k].op \in {"ForList", "ForVar"}
        /\ p.code[k].item < Len(p.strings) /\ p.strings[p.code[k].item + 1] = x
BoundOtherwise(p, x) ==
    \E k \in 1..Len(p.code) :
        /\ p.code[k].op \in {"Set", "SetList", "Extract"}
        /\ p.code[k].name < Len(p.strings) /\ p.strings[p.code[k].name + 1] = x

\* The value of loop variable x under the frames of the stack: the current
\* item of the innermost frame for x; with no such frame, what x was before
\* the run.  So an item never leaks out of its loop, and leaving an inner loop
\* gives the variable back to the outer loop that uses the same name.
LoopBinding ==
    \A x \in {y \in Strs : ~ BoundOtherwise(prog, y)} :
        LET stack == context.loop_stack
            frames == {k \in 1..Len(stack) : stack[k].item = x} IN
        /\ frames = {} => context.variables[x] = ScanVariables[x]
        /\ \A k \in frames : (\A j \in frames : j <= k) =>
              context.variables[x] = Scalar(stack[k].values[stack[k].index + 1])

\* In a program of the shape the loop operations are written for, the loop
\* stack is exactly the loops around pc, outermost first, whatever break,
\* continue and if did; so no loop instruction ever finds the stack empty.
StackIsNesting ==
    Structured(prog) =>
        /\ result.why # "outside_loop"
        /\ phase = "run" =>
              LET stack == context.loop_stack IN
              /\ {stack[k].head_pc - 1 : k \in 1..Len(stack)} = Enclosing(prog, pc)
              /\ \A k \in 1..Len(stack) :
                    /\ stack[k].end_pc = EndOf(prog, stack[k].head_pc - 1)
                    /\ \A j \in 1..(k - 1) : stack[j].head_pc < stack[k].head_pc

\* The data of a live session only grows: a later send on the probe appends to
\* what earlier sends received, unless a save puts another response there.
SavesTo(n) == At("Save") /\ Text(Here.to) = n
SessionKeepsTranscript ==
    [][\A n \in context.sessions :
          (phase = "run" /\ context.responses[n].kind = "socket" /\ ~ SavesTo(n)) =>
              context.responses[n].facts \subseteq context'.responses[n].facts]_vars

\* The templates in the hosts of the TCP probes name variables that the
\* program does not write.
HostsFixed(p) ==
    \A n \in DOMAIN p.probes :
        (p.probes[n].kind = "tcp" /\ p.probes[n].host \in DOMAIN PlaceholderOf) =>
            LET x == PlaceholderOf[p.probes[n].host] IN
            ~ BoundByLoop(p, x) /\ ~ BoundOtherwise(p, x)

Checked == {c.endpoint : c \in port_checks}

\* A run that gets as far as sending finds every TCP endpoint it connects to
\* among those that the pre-run check found open, as long as the script does
\* not write the variables its hosts are made of.
PrecheckCoversSend ==
    HostsFixed(prog) =>
        /\ contacted \subseteq Checked
        /\ contacted # {} => \A c \in port_checks : c.open

\* ExecutorConfig::max_script_duration, executor.rs:57: a "wall-clock budget for
\* a single script execution" that long sleeps cannot outlast.  One tick of
\* slack is the granularity of the clock.
BudgetBoundsRun == Budget # None => elapsed <= Budget + 1

\* ExecutionResult::port_checks, executor.rs:119: "empty for HTTP-only checks".
HttpOnlyHasNoPortChecks ==
    (\A n \in DOMAIN prog.probes : prog.probes[n].kind = "http") => port_checks = {}

\* Every run ends: it returns a result, an error or a panic.
Terminates == <>(phase = "done")

\* A program of compiler shape needs no budget to end.
LoopsEnd == Structured(prog) => Terminates

-----------------------------------------------------------------------------
(* What a check promises, apart from how it runs.                          *)
Promise == INSTANCE Check WITH
    Texts <- Strs,
    stage <- phase,
    chain <- context.matched,
    collected <- context.evidence,
    verdict <- [found |-> result.detected, proof |-> result.evidence]

\* The executor implements Check.
ImplementsCheck == Promise!Spec
=============================================================================
