---------------------------- MODULE ExecutorProofs ----------------------------
(***************************************************************************)
(* What TLAPS proves about Executor, for every set of programs, every      *)
(* string universe, every budget and every bound.                          *)
(***************************************************************************)
EXTENDS Executor, SequenceTheorems, TLAPS

-----------------------------------------------------------------------------
(* The operations of Context keep a context a Context.                     *)

LEMMA ScalarType == ASSUME NEW s \in Strs PROVE Scalar(s) \in Value
  BY DEF Scalar, Value

LEMMA ListType == ASSUME NEW l \in Seq(Strs) PROVE List(l) \in Value
  BY DEF List, Value

LEMMA VariablesType ==
    ASSUME NEW c \in Contexts, NEW n \in Strs, NEW v \in Value
    PROVE  [c EXCEPT !.variables[n] = v] \in Contexts
  BY DEF Contexts

LEMMA SetVariableType ==
    ASSUME NEW c \in Contexts, NEW n \in Strs, NEW s \in Strs
    PROVE  SetVariable(c, n, s) \in Contexts
  BY VariablesType, ScalarType DEF SetVariable

LEMMA StackType ==
    ASSUME NEW c \in Contexts, NEW stack \in Seq(LoopFrame)
    PROVE  [c EXCEPT !.loop_stack = stack] \in Contexts
  BY DEF Contexts

LEMMA StoreResponseType ==
    ASSUME NEW c \in Contexts, NEW n \in Strs, NEW r \in Response
    PROVE  StoreResponse(c, n, r) \in Contexts
  BY DEF StoreResponse, Contexts

LEMMA AliasResponseType ==
    ASSUME NEW c \in Contexts, NEW n \in Strs, NEW m \in Strs
    PROVE  AliasResponse(c, n, m) \in Contexts
  BY DEF AliasResponse, Contexts

LEMMA InterpolateType ==
    ASSUME NEW s \in Strs, NEW v \in [Strs -> Value]
    PROVE  Interpolate(s, v) \in Strs
  BY StringsAssumption DEF Interpolate, Value

LEMMA InterpolateAllType ==
    ASSUME NEW l \in Seq(Strs), context \in Contexts
    PROVE  InterpolateAll(l) \in Seq(Strs)
  BY InterpolateType DEF InterpolateAll, Contexts

LEMMA TopType ==
    ASSUME NEW c \in Contexts, c.loop_stack # << >>
    PROVE  Top(c) \in LoopFrame /\ Pop(c) \in Seq(LoopFrame)
  BY DEF Top, Pop, Contexts

LEMMA EnterForeachType ==
    ASSUME NEW c \in Contexts, NEW n \in Strs, NEW l \in Seq(Strs), l # << >>,
           NEW from \in Nat, NEW end \in Nat
    PROVE  EnterForeach(c, n, l, from, end) \in Contexts
  <1> DEFINE frame == [item |-> n, values |-> l, index |-> 0,
                       previous |-> c.variables[n], head_pc |-> from + 1,
                       continue_pc |-> IF end = 0 THEN 0 ELSE end - 1, end_pc |-> end]
  <1>1. SetVariable(c, n, l[1]) \in Contexts
    BY SetVariableType
  <1>2. frame \in LoopFrame
    BY DEF LoopFrame, Contexts
  <1>3. Append(c.loop_stack, frame) \in Seq(LoopFrame)
    BY <1>2 DEF Contexts
  <1> QED
    BY <1>1, <1>3, StackType DEF EnterForeach

LEMMA AdvanceLoopType ==
    ASSUME NEW c \in Contexts, c.loop_stack # << >>, HasNext(c)
    PROVE  AdvanceLoop(c) \in Contexts
  <1> DEFINE f == Top(c)
             stack == [c.loop_stack EXCEPT ![Len(c.loop_stack)].index = f.index + 1]
  <1>1. f \in LoopFrame
    BY TopType
  <1>2. SetVariable(c, f.item, f.values[f.index + 2]) \in Contexts
    BY <1>1, SetVariableType DEF HasNext, LoopFrame
  <1>3. stack = [c.loop_stack EXCEPT ![Len(c.loop_stack)] = [f EXCEPT !.index = f.index + 1]]
    BY DEF Top
  <1>4. [f EXCEPT !.index = f.index + 1] \in LoopFrame
    BY <1>1 DEF LoopFrame
  <1>5. Len(c.loop_stack) \in 1..Len(c.loop_stack) /\ c.loop_stack \in Seq(LoopFrame)
    BY DEF Contexts
  <1>6. stack \in Seq(LoopFrame)
    BY <1>3, <1>4, <1>5, ExceptSeq
  <1> QED
    BY <1>2, <1>6, StackType DEF AdvanceLoop

LEMMA LeaveLoopType ==
    ASSUME NEW c \in Contexts, c.loop_stack # << >>
    PROVE  LeaveLoop(c) \in Contexts
  <1>1. Top(c).item \in Strs /\ Top(c).previous \in Value
    BY TopType DEF LoopFrame
  <1>2. RestoreOrRemoveVariable(c, Top(c).item, Top(c).previous) \in Contexts
    BY <1>1, VariablesType DEF RestoreOrRemoveVariable
  <1> QED
    BY <1>2, TopType, StackType DEF LeaveLoop

-----------------------------------------------------------------------------
(* Type correctness.                                                       *)

LEMMA InitType == Init => TypeOK
  <1> SUFFICES ASSUME Init PROVE TypeOK
    OBVIOUS
  <1>1. FromSpec(ScanVariables) \in Contexts
    <2>1. NoResponse \in Response
      BY DEF NoResponse, Response
    <2>2. << >> \in Seq(LoopFrame)
      OBVIOUS
    <2> QED
      BY <2>1, <2>2, ExecutorAssumption DEF FromSpec, Contexts
  <1>2. NoResult \in [tag : {"none", "rejected", "skipped", "ok", "error", "panic"},
                      why : Causes, detected : BOOLEAN, evidence : SUBSET Strs]
    BY DEF NoResult, Causes
  <1> QED
    BY <1>1, <1>2, ExecutorAssumption DEF Init, TypeOK

LEMMA FailureType ==
    ASSUME NEW tag \in {"rejected", "skipped", "error", "panic"}, NEW cause \in Causes
    PROVE  Failure(tag, cause) \in
              [tag : {"none", "rejected", "skipped", "ok", "error", "panic"},
               why : Causes, detected : BOOLEAN, evidence : SUBSET Strs]
  BY DEF Failure, NoResult, Causes

LEMMA GotoType ==
    ASSUME TypeOK, NEW target \in Nat, NEW c \in Contexts, Goto(target, c)
    PROVE  TypeOK'
  BY DEF TypeOK, Goto, Proceed

LEMMA EndType ==
    ASSUME TypeOK, NEW c \in Contexts, NEW tag \in {"rejected", "skipped", "error", "panic"},
           NEW cause \in Causes, End(Failure(tag, cause), c),
           attempt' \in Nat, elapsed' \in Nat, contacted' \subseteq Endpoint
    PROVE  TypeOK'
  BY FailureType DEF TypeOK, End

LEMMA AbortType ==
    ASSUME TypeOK, NEW cause \in Causes, Abort(cause)
    PROVE  TypeOK'
  BY EndType DEF TypeOK, Abort

LEMMA ConcludeType ==
    ASSUME TypeOK, NEW c \in Contexts, Conclude(c)
    PROVE  TypeOK'
  <1>1. c.matched \in BOOLEAN /\ c.emit_finding \in BOOLEAN /\ c.evidence \subseteq Strs
    BY DEF Contexts
  <1>2. EmitsFinding(c, prog.named) \in BOOLEAN
    BY DEF EmitsFinding
  <1>3. CloseSessions(c) \in Contexts
    BY DEF CloseSessions, Contexts
  <1>4. result' \in [tag : {"none", "rejected", "skipped", "ok", "error", "panic"},
                     why : Causes, detected : BOOLEAN, evidence : SUBSET Strs]
    BY <1>1, <1>2 DEF Conclude, End, Causes
  <1> QED
    BY <1>3, <1>4 DEF Conclude, End, TypeOK

LEMMA HereType ==
    ASSUME TypeOK, pc < Len(prog.code)
    PROVE  Here \in Instr
  BY DEF TypeOK, IsProgram, Here

\* An instruction that does not panic reads entries of its pools.
LEMMA TextType ==
    ASSUME TypeOK, NEW i \in Nat, ~ Misses(i, Len(prog.strings))
    PROVE  Text(i) \in Strs
  BY DEF TypeOK, IsProgram, Misses, Text

LEMMA SliceType ==
    ASSUME TypeOK, NEW start \in Nat, NEW len \in Nat, ~ Overruns(start, len, Len(prog.strings))
    PROVE  Slice(start, len) \in Seq(Strs)
  <1>1. prog.strings \in Seq(Strs)
    BY DEF TypeOK, IsProgram
  <1>2. \A i \in start + 1 .. start + len : prog.strings[i] \in Strs
    BY <1>1 DEF Overruns
  <1> QED
    BY <1>2, SubSeqProperties DEF Slice

LEMMA ReceivedType ==
    ASSUME TypeOK, NEW n \in DOMAIN prog.probes, NEW o \in BOOLEAN, NEW facts \in SUBSET Facts
    PROVE  Received(n, o, facts) \in Contexts
  <1> DEFINE p == prog.probes[n]
             fresh == [kind |-> ResponseKind(p, o), facts |-> facts]
             old == context.responses[n]
             merged == [old EXCEPT !.facts = old.facts \cup facts]
  <1>1. n \in Strs
    BY DEF TypeOK, IsProgram
  <1>2. fresh \in Response
    BY DEF ResponseKind, Response, Kinds
  <1>3. merged \in Response
    BY <1>1 DEF TypeOK, Contexts, Response
  <1>4. StoreResponse(context, n, fresh) \in Contexts /\ StoreResponse(context, n, merged) \in Contexts
    BY <1>1, <1>2, <1>3, StoreResponseType DEF TypeOK
  <1>5. context.sessions \subseteq Strs /\ context.sessions \cup {n} \subseteq Strs
    BY <1>1 DEF TypeOK, Contexts
  <1>6. \A c \in Contexts, S \in SUBSET Strs : [c EXCEPT !.sessions = S] \in Contexts
    BY DEF Contexts
  <1> QED
    BY <1>4, <1>5, <1>6 DEF Received

LEMMA ConnectsType ==
    ASSUME TypeOK, NEW n
    PROVE  Connects(n) \subseteq Endpoint
  <1> SUFFICES ASSUME CanSend(n), prog.probes[n].kind = "tcp"
               PROVE  [host |-> Interpolate(prog.probes[n].host, context.variables),
                       port |-> prog.probes[n].port] \in Endpoint
    BY DEF Connects
  <1>1. prog.probes[n] \in Probe /\ prog.probes[n].port # None
    BY DEF CanSend, TypeOK, IsProgram
  <1>2. prog.probes[n].host \in Strs /\ prog.probes[n].port \in Ports
    BY <1>1 DEF Probe
  <1>3. Interpolate(prog.probes[n].host, context.variables) \in Strs
    BY <1>2, InterpolateType DEF TypeOK, Contexts
  <1> QED
    BY <1>2, <1>3 DEF Endpoint

LEMMA ApplyVerdictType ==
    ASSUME TypeOK, NEW verdict, ApplyVerdict(verdict)
    PROVE  TypeOK'
  <1>0. pc + 1 \in Nat /\ context \in Contexts
    BY DEF TypeOK
  <1>1. [context EXCEPT !.matched = FALSE] \in Contexts
    BY <1>0 DEF Contexts
  <1>2. CASE verdict = "true"
    BY <1>0, <1>2, GotoType DEF ApplyVerdict
  <1>3. CASE verdict = "false"
    BY <1>0, <1>1, <1>3, GotoType DEF ApplyVerdict
  <1>4. CASE verdict \notin {"true", "false"}
    BY <1>4, AbortType DEF ApplyVerdict, Causes
  <1> QED
    BY <1>2, <1>3, <1>4

LEMMA EnterType ==
    ASSUME TypeOK, NEW n \in Strs, NEW l \in Seq(Strs), NEW end \in Nat, Enter(n, l, end)
    PROVE  TypeOK'
  <1>1. pc \in Nat /\ pc + 1 \in Nat /\ context \in Contexts
    BY DEF TypeOK
  <1>2. CASE l = << >>
    BY <1>1, <1>2, GotoType DEF Enter
  <1>3. CASE l # << >>
    BY <1>1, <1>3, GotoType, EnterForeachType DEF Enter
  <1> QED
    BY <1>2, <1>3

LEMMA InstructionType ==
    ASSUME TypeOK, Instruction
    PROVE  TypeOK'
  <1> USE DEF At, AtInstr
  <1>0. pc + 1 \in Nat /\ context \in Contexts /\ attempt \in Nat /\ elapsed \in Nat
        /\ contacted \subseteq Endpoint
    BY DEF TypeOK
  <1>1. CASE Set
    <2>1. Here.name \in Nat /\ Here.value \in Nat
      BY <1>1, HereType DEF Set, Instr
    <2>2. Text(Here.name) \in Strs /\ Text(Here.value) \in Strs
      BY <1>1, <2>1, TextType DEF Set, Panics
    <2>3. Interpolate(Text(Here.value), context.variables) \in Strs
      BY <1>0, <2>2, InterpolateType DEF Contexts
    <2> QED
      BY <1>0, <1>1, <2>2, <2>3, GotoType, AbortType, SetVariableType DEF Set, Causes
  <1>2. CASE SetList
    <2>1. Here.name \in Nat /\ Here.start \in Nat /\ Here.len \in Nat
      BY <1>2, HereType DEF SetList, Instr
    <2>2. Text(Here.name) \in Strs
      BY <1>2, <2>1, TextType DEF SetList, Panics
    <2>3. Slice(Here.start, Here.len) \in Seq(Strs)
      BY <1>2, <2>1, SliceType DEF SetList, Panics, TypeOK, IsProgram
    <2>4. List(InterpolateAll(Slice(Here.start, Here.len))) \in Value
      BY <1>0, <2>3, InterpolateAllType, ListType
    <2>5. SetListVariable(context, Text(Here.name), InterpolateAll(Slice(Here.start, Here.len)))
            \in Contexts
      BY <1>0, <2>2, <2>4, VariablesType DEF SetListVariable
    <2> QED
      BY <1>0, <1>2, <2>5, GotoType, AbortType DEF SetList, Causes
  <1>3. CASE Send
    <2> DEFINE n == Text(Here.probe)
               overridden == Here.payload # None
    <2>1. contacted' \subseteq Endpoint /\ attempt' = attempt /\ elapsed' = elapsed
      BY <1>0, <1>3, ConnectsType DEF Send
    <2>2. CASE End(Failure("error", "probe"), context)
      BY <1>0, <2>1, <2>2, EndType DEF Causes
    <2>3. ASSUME CanSend(n), NEW facts \in SUBSET Facts,
                 Proceed(pc + 1, Received(n, overridden, facts))
          PROVE  TypeOK'
      <3>1. Received(n, overridden, facts) \in Contexts
        BY <2>3, ReceivedType DEF CanSend
      <3> QED
        BY <1>0, <2>1, <2>3, <3>1 DEF Proceed, TypeOK
    <2> QED
      BY <1>3, <2>2, <2>3 DEF Send
  <1>4. CASE RetryNever
    BY <1>4, AbortType DEF RetryNever, Causes
  <1>5. CASE RetryAttempt
    <2> DEFINE n == Text(Here.probe)
    <2>1. Here.count \in Nat
      BY <1>5, HereType DEF RetryAttempt, AtRetry, Instr
    <2>2. contacted' \subseteq Endpoint
      BY <1>0, <1>5, ConnectsType DEF RetryAttempt
    <2>3. elapsed' \in Nat
      BY <1>0, <1>5, ExecutorAssumption DEF RetryAttempt, After, RetryDelayNow, Contexts
    <2>4. ASSUME CanSend(n), attempt' = 0, NEW facts \in SUBSET Facts,
                 Proceed(pc + 1, Received(n, FALSE, facts))
          PROVE  TypeOK'
      <3>1. Received(n, FALSE, facts) \in Contexts
        BY <2>4, ReceivedType DEF CanSend
      <3> QED
        BY <1>0, <2>2, <2>3, <2>4, <3>1 DEF Proceed, TypeOK
    <2>5. CASE attempt' = attempt + 1 /\ Proceed(pc, context)
      BY <1>0, <2>2, <2>3, <2>5 DEF Proceed, TypeOK
    <2>6. CASE UNCHANGED attempt /\ End(Failure("error", "probe"), context)
      BY <1>0, <2>2, <2>3, <2>6, EndType DEF Causes
    <2> QED
      BY <1>5, <2>4, <2>5, <2>6 DEF RetryAttempt
  <1>6. CASE SetRetryDelay
    <2>1. ASSUME Text(Here.value) \in DOMAIN DurationOf
          PROVE  [context EXCEPT !.retry_delay = DurationOf[Text(Here.value)]] \in Contexts
      BY <1>0, <2>1, ExecutorAssumption DEF Contexts
    <2> QED
      BY <1>0, <1>6, <2>1, GotoType, AbortType DEF SetRetryDelay, Causes
  <1>7. CASE Sleep
    <2>1. CASE Text(Here.value) \in DOMAIN DurationOf
      <3>1. elapsed' \in Nat
        BY <1>0, <1>7, <2>1, ExecutorAssumption DEF Sleep, After
      <3> QED
        BY <1>0, <1>7, <2>1, <3>1 DEF Sleep, Proceed, TypeOK
    <2>2. CASE Text(Here.value) \notin DOMAIN DurationOf
      BY <1>7, <2>2, AbortType DEF Sleep, Causes
    <2> QED
      BY <2>1, <2>2
  <1>8. CASE Save
    <2>1. Here.from \in Nat /\ Here.to \in Nat
      BY <1>8, HereType DEF Save, Instr
    <2>2. Text(Here.from) \in Strs /\ Text(Here.to) \in Strs
      BY <1>8, <2>1, TextType DEF Save, Panics
    <2> QED
      BY <1>0, <1>8, <2>2, AliasResponseType, GotoType DEF Save
  <1>9. CASE Match
    BY <1>0, <1>9, ApplyVerdictType, GotoType DEF Match
  <1>10. CASE MatchAll
    BY <1>0, <1>10, ApplyVerdictType, GotoType DEF MatchAll
  <1>11. CASE MatchAny
    BY <1>0, <1>11, ApplyVerdictType, GotoType DEF MatchAny
  <1>12. CASE Assert
    BY <1>0, <1>12, AbortType, GotoType DEF Assert, Causes
  <1>13. CASE IfMatch
    <2>1. Here.else_pc \in Nat
      BY <1>13, HereType DEF IfMatch, Instr
    <2> QED
      BY <1>0, <1>13, <2>1, AbortType, GotoType DEF IfMatch, Causes
  <1>14. CASE Extract
    <2>1. CASE ~ context.matched
      BY <1>0, <1>14, <2>1, GotoType DEF Extract
    <2>2. CASE context.matched
      <3> DEFINE rule == prog.extracts[Here.source + 1]
                 texts == ExtractTexts(rule, context.responses[rule.target])
      <3>1. Here.name \in Nat /\ Here.source \in Nat
        BY <1>14, HereType DEF Extract, Instr
      <3>2. Text(Here.name) \in Strs
        BY <1>14, <2>2, <3>1, TextType DEF Extract, Panics
      <3>3. rule \in Extracts
        BY <1>14, <2>2, <3>1 DEF Extract, Panics, Misses, TypeOK, IsProgram
      <3>4. rule.target \in Strs
        BY <3>3 DEF Extracts
      <3>5. context.responses[rule.target].facts \subseteq Facts
        BY <1>0, <3>4 DEF Contexts, Response
      <3>6. texts \subseteq Strs
        BY <3>5, StringsAssumption DEF ExtractTexts
      <3>7. ASSUME NEW text \in texts, Goto(pc + 1, SetVariable(context, Text(Here.name), text))
            PROVE  TypeOK'
        BY <1>0, <3>2, <3>6, <3>7, SetVariableType, GotoType
      <3>8. CASE Abort("extract")
        BY <3>8, AbortType DEF Causes
      <3> QED
        BY <1>14, <2>2, <3>7, <3>8 DEF Extract
    <2> QED
      BY <2>1, <2>2
  <1>15. CASE Evidence
    <2>1. CASE ~ context.matched
      BY <1>0, <1>15, <2>1, GotoType DEF Evidence
    <2>2. CASE context.matched
      <3> DEFINE rule == prog.evidence[Here.evidence + 1]
                 texts == EvidenceTexts(rule, context.responses[rule.target])
      <3>1. Here.evidence \in Nat
        BY <1>15, HereType DEF Evidence, Instr
      <3>2. rule \in Evidences
        BY <1>15, <2>2, <3>1 DEF Evidence, Panics, Misses, TypeOK, IsProgram
      <3>3. rule.target \in Strs
        BY <3>2 DEF Evidences
      <3>4. context.responses[rule.target].facts \subseteq Facts
        BY <1>0, <3>3 DEF Contexts, Response
      <3>5. texts \subseteq Strs
        BY <3>4, StringsAssumption DEF EvidenceTexts
      <3>6. ASSUME NEW text \in texts,
                   Goto(pc + 1, [context EXCEPT !.evidence = context.evidence \cup {text}])
            PROVE  TypeOK'
        <4>1. [context EXCEPT !.evidence = context.evidence \cup {text}] \in Contexts
          BY <1>0, <3>5 DEF Contexts
        <4> QED
          BY <1>0, <3>6, <4>1, GotoType
      <3>7. CASE Abort("evidence")
        BY <3>7, AbortType DEF Causes
      <3> QED
        BY <1>15, <2>2, <3>6, <3>7 DEF Evidence
    <2> QED
      BY <2>1, <2>2
  <1>16. CASE ForList
    <2>1. Here.item \in Nat /\ Here.start \in Nat /\ Here.len \in Nat /\ Here.end_pc \in Nat
      BY <1>16, HereType DEF ForList, Instr
    <2>2. Text(Here.item) \in Strs
      BY <1>16, <2>1, TextType DEF ForList, Panics
    <2>3. Slice(Here.start, Here.len) \in Seq(Strs)
      BY <1>16, <2>1, SliceType DEF ForList, Panics, TypeOK, IsProgram
    <2>4. InterpolateAll(Slice(Here.start, Here.len)) \in Seq(Strs)
      BY <1>0, <2>3, InterpolateAllType
    <2> QED
      BY <1>16, <2>1, <2>2, <2>4, EnterType, AbortType DEF ForList, Causes
  <1>17. CASE ForVar
    <2>1. Here.item \in Nat /\ Here.list \in Nat /\ Here.end_pc \in Nat
      BY <1>17, HereType DEF ForVar, Instr
    <2>2. Text(Here.item) \in Strs /\ Text(Here.list) \in Strs
      BY <1>17, <2>1, TextType DEF ForVar, Panics
    <2>3. context.variables[Text(Here.list)].items \in Seq(Strs)
      BY <1>0, <2>2 DEF Contexts, Value
    <2> QED
      BY <1>0, <1>17, <2>1, <2>2, <2>3, EnterType, AbortType, GotoType DEF ForVar, Causes
  <1>18. ASSUME context.loop_stack # << >>
         PROVE  /\ Top(context) \in LoopFrame
                /\ Top(context).head_pc \in Nat /\ Top(context).end_pc \in Nat
                /\ Top(context).continue_pc \in Nat
                /\ LeaveLoop(context) \in Contexts
    BY <1>0, <1>18, TopType, LeaveLoopType DEF LoopFrame
  <1>19. CASE LoopBack
    BY <1>0, <1>18, <1>19, AbortType, GotoType, AdvanceLoopType DEF LoopBack, Causes
  <1>20. CASE Break
    BY <1>18, <1>20, AbortType, GotoType DEF Break, Causes
  <1>21. CASE Continue
    BY <1>0, <1>18, <1>21, AbortType, GotoType DEF Continue, Causes
  <1>22. CASE Stop
    <2>1. [context EXCEPT !.emit_finding = FALSE] \in Contexts
      BY <1>0 DEF Contexts
    <2> QED
      BY <1>22, <2>1, ConcludeType DEF Stop
  <1>23. CASE Exit
    BY <1>0, <1>23, ConcludeType DEF Exit
  <1>24. CASE Fail
    <2>1. [context EXCEPT !.failed = TRUE] \in Contexts
      BY <1>0 DEF Contexts
    <2> QED
      BY <1>0, <1>24, <2>1, EndType DEF Fail, Causes
  <1> QED
    BY <1>1, <1>2, <1>3, <1>4, <1>5, <1>6, <1>7, <1>8, <1>9, <1>10, <1>11, <1>12, <1>13,
       <1>14, <1>15, <1>16, <1>17, <1>19, <1>20, <1>21, <1>22, <1>23, <1>24 DEF Instruction

LEMMA PreCheckType ==
    ASSUME TypeOK, PreCheck
    PROVE  TypeOK'
  <1>1. PICK open \in SUBSET {e \in Endpoints(prog) : e.host # Empty} :
            /\ port_checks' = {[endpoint |-> e, open |-> e \in open] : e \in Endpoints(prog)}
            /\ phase' \in {"run", "done"}
            /\ result' \in {result, Failure("skipped", "port_closed")}
    BY DEF PreCheck
  <1>2. Endpoints(prog) \subseteq Endpoint
    <2>1. ASSUME NEW n \in DOMAIN prog.probes, prog.probes[n].port # None
          PROVE  [host |-> Interpolate(prog.probes[n].host, ScanVariables),
                  port |-> prog.probes[n].port] \in Endpoint
      <3>1. prog.probes[n].host \in Strs /\ prog.probes[n].port \in Ports
        BY <2>1 DEF TypeOK, IsProgram, Probe
      <3> QED
        BY <3>1, InterpolateType, ExecutorAssumption DEF Endpoint
    <2> QED
      BY <2>1, ExecutorAssumption DEF Endpoints, Endpoint
  <1>3. port_checks' \subseteq [endpoint : Endpoint, open : BOOLEAN]
    <2>1. ASSUME NEW e \in Endpoint
          PROVE  [endpoint |-> e, open |-> e \in open] \in [endpoint : Endpoint, open : BOOLEAN]
      OBVIOUS
    <2> HIDE DEF Endpoint
    <2> QED
      BY <1>1, <1>2, <2>1
  <1>4. Failure("skipped", "port_closed") \in
            [tag : {"none", "rejected", "skipped", "ok", "error", "panic"},
             why : Causes, detected : BOOLEAN, evidence : SUBSET Strs]
    BY FailureType DEF Causes
  <1> QED
    BY <1>1, <1>3, <1>4 DEF PreCheck, TypeOK

LEMMA NextType ==
    ASSUME TypeOK, [Next]_vars
    PROVE  TypeOK'
  <1>1. CASE DecodeFails
    BY <1>1, FailureType DEF DecodeFails, Reject, Causes, TypeOK
  <1>2. CASE CompileFails
    BY <1>2, FailureType DEF CompileFails, Reject, Causes, TypeOK
  <1>3. CASE Construct
    BY <1>3 DEF Construct, TypeOK
  <1>4. CASE PreCheck
    BY <1>4, PreCheckType
  <1>5. CASE Instruction
    BY <1>5, InstructionType
  <1>6. CASE Finish
    BY <1>6, ConcludeType DEF Finish, TypeOK
  <1>7. CASE BudgetExceeded
    BY <1>7, AbortType DEF BudgetExceeded, Causes
  <1>8. CASE Panic
    BY <1>8, EndType DEF Panic, Causes, TypeOK
  <1>9. CASE Tick
    BY <1>9 DEF Tick, TypeOK
  <1>10. CASE UNCHANGED vars
    BY <1>10 DEF vars, TypeOK
  <1> QED
    BY <1>1, <1>2, <1>3, <1>4, <1>5, <1>6, <1>7, <1>8, <1>9, <1>10
    DEF Next, Step, Terminated

\* Every variable keeps its type whatever program is run: in particular every
\* context an instruction builds is again a Context.
THEOREM TypeCorrect == Spec => []TypeOK
  <1>1. Init => TypeOK
    BY InitType
  <1>2. TypeOK /\ [Next]_vars => TypeOK'
    BY NextType
  <1> QED
    BY <1>1, <1>2, PTL DEF Spec

-----------------------------------------------------------------------------
(* Validation covers every access of the executor.                         *)

\* An instruction whose operands are valid does not panic, whether or not the
\* match chain still holds.
LEMMA ValidIsSafe ==
    ASSUME NEW p, NEW i \in Instr, NEW matched, OperandsValid(i, p)
    PROVE  ~ Panics(i, p, matched)
  <1> USE DEF OneIn, RangeIn, Misses, Overruns
  <1>1. CASE i.op \in {"Set", "SetList", "Send"}
    BY <1>1 DEF OperandsValid, Panics
  <1>2. CASE i.op \in {"Match", "Assert", "IfMatch", "MatchAll", "MatchAny", "Extract"}
    BY <1>2 DEF OperandsValid, Panics
  <1>3. CASE i.op \in {"ForList", "ForVar", "Save", "Evidence", "Retry", "RetryDelay", "Sleep"}
    BY <1>3 DEF OperandsValid, Panics
  <1>4. CASE i.op \in {"LoopBack", "Break", "Continue", "Stop", "Exit", "Fail"}
    BY <1>4 DEF Panics
  <1> QED
    BY <1>1, <1>2, <1>3, <1>4 DEF Instr

-----------------------------------------------------------------------------
(* What an instruction can do to the verdict: the five effects below.      *)

SameChain == context'.matched = context.matched /\ context'.evidence = context.evidence
GoesOn == phase' = phase /\ result' = result

Quiet == GoesOn /\ SameChain
MissesChain == /\ GoesOn
           /\ context.matched /\ ~ context'.matched
           /\ context'.evidence = context.evidence
Collects == /\ GoesOn
            /\ context.matched /\ context'.matched
            /\ \E t \in Strs : context'.evidence = context.evidence \cup {t}
ChainCauses == {"match", "assert", "extract", "evidence"}
Fails == /\ phase' = "done" /\ SameChain
         /\ \E cause \in Causes : /\ result' = Failure("error", cause)
                                  /\ ~ context.matched => cause \notin ChainCauses
Returns == /\ phase' = "done" /\ SameChain
           /\ \E found \in BOOLEAN :
                /\ found => context.matched
                /\ result' = [tag |-> "ok", why |-> "none", detected |-> found,
                              evidence |-> IF found THEN context.evidence ELSE {}]

Effect == Quiet \/ MissesChain \/ Collects \/ Fails \/ Returns

LEMMA KeepsChain ==
    ASSUME NEW c \in Contexts
    PROVE  /\ \A n, x : /\ SetVariable(c, n, x).matched = c.matched
                        /\ SetVariable(c, n, x).evidence = c.evidence
           /\ \A n, x : /\ SetListVariable(c, n, x).matched = c.matched
                        /\ SetListVariable(c, n, x).evidence = c.evidence
           /\ \A n, x : /\ AliasResponse(c, n, x).matched = c.matched
                        /\ AliasResponse(c, n, x).evidence = c.evidence
           /\ \A n, x, f, e : /\ EnterForeach(c, n, x, f, e).matched = c.matched
                              /\ EnterForeach(c, n, x, f, e).evidence = c.evidence
           /\ AdvanceLoop(c).matched = c.matched /\ AdvanceLoop(c).evidence = c.evidence
           /\ LeaveLoop(c).matched = c.matched /\ LeaveLoop(c).evidence = c.evidence
  BY DEF Contexts, SetVariable, SetListVariable, AliasResponse, EnterForeach, AdvanceLoop,
         LeaveLoop, RestoreOrRemoveVariable

LEMMA ReceivedKeepsChain ==
    ASSUME context \in Contexts, NEW n, NEW o, NEW facts
    PROVE  /\ Received(n, o, facts).matched = context.matched
           /\ Received(n, o, facts).evidence = context.evidence
  BY DEF Received, StoreResponse, Contexts

LEMMA GotoQuiet ==
    ASSUME NEW target, NEW c, c.matched = context.matched, c.evidence = context.evidence,
           Goto(target, c)
    PROVE  Quiet
  BY DEF Goto, Proceed, Quiet, GoesOn, SameChain

LEMMA AbortFails ==
    ASSUME NEW cause \in Causes, ~ context.matched => cause \notin ChainCauses, Abort(cause)
    PROVE  Fails
  BY DEF Abort, End, Fails, SameChain

LEMMA ConcludeReturns ==
    ASSUME NEW c \in Contexts, c.matched = context.matched, c.evidence = context.evidence,
           Conclude(c), prog.named \in BOOLEAN
    PROVE  Returns
  <1>1. EmitsFinding(c, prog.named) \in BOOLEAN /\ (EmitsFinding(c, prog.named) => context.matched)
    BY DEF EmitsFinding, Contexts
  <1>2. CloseSessions(c).matched = c.matched /\ CloseSessions(c).evidence = c.evidence
    BY DEF CloseSessions, Contexts
  <1> QED
    BY <1>1, <1>2 DEF Conclude, End, Returns, SameChain

LEMMA ApplyVerdictEffect ==
    ASSUME context \in Contexts, context.matched, NEW verdict, ApplyVerdict(verdict)
    PROVE  Effect
  <1>1. CASE verdict = "true"
    BY <1>1, GotoQuiet DEF ApplyVerdict, Effect
  <1>2. CASE verdict = "false"
    BY <1>2 DEF ApplyVerdict, Goto, Proceed, Effect, MissesChain, GoesOn, Contexts
  <1>3. CASE verdict \notin {"true", "false"}
    BY <1>3, AbortFails DEF ApplyVerdict, Effect, Causes
  <1> QED
    BY <1>1, <1>2, <1>3

LEMMA EnterQuiet ==
    ASSUME context \in Contexts, NEW n, NEW l, NEW end, Enter(n, l, end)
    PROVE  Quiet
  BY GotoQuiet, KeepsChain DEF Enter

\* Every instruction has one of the five effects: from a broken chain the only
\* way on is one that keeps it broken.
LEMMA InstructionEffect ==
    ASSUME TypeOK, Instruction
    PROVE  Effect
  <1> USE DEF At, AtInstr
  <1>0. context \in Contexts /\ prog.named \in BOOLEAN
    BY DEF TypeOK, IsProgram
  <1>1. CASE Set
    BY <1>0, <1>1, GotoQuiet, KeepsChain, AbortFails DEF Set, Effect, Causes, ChainCauses
  <1>2. CASE SetList
    BY <1>0, <1>2, GotoQuiet, KeepsChain, AbortFails DEF SetList, Effect, Causes, ChainCauses
  <1>3. CASE Send
    BY <1>0, <1>3, ReceivedKeepsChain
    DEF Send, Proceed, End, Effect, Quiet, Fails, GoesOn, SameChain, Causes, ChainCauses
  <1>4. CASE RetryNever
    BY <1>4, AbortFails DEF RetryNever, Effect, Causes, ChainCauses
  <1>5. CASE RetryAttempt
    BY <1>0, <1>5, ReceivedKeepsChain
    DEF RetryAttempt, Proceed, End, Effect, Quiet, Fails, GoesOn, SameChain, Causes, ChainCauses
  <1>6. CASE SetRetryDelay
    <2>1. \A d : /\ [context EXCEPT !.retry_delay = d].matched = context.matched
                 /\ [context EXCEPT !.retry_delay = d].evidence = context.evidence
      BY <1>0 DEF Contexts
    <2> QED
      BY <1>6, <2>1, GotoQuiet, AbortFails DEF SetRetryDelay, Effect, Causes, ChainCauses
  <1>7. CASE Sleep
    BY <1>7, AbortFails
    DEF Sleep, Proceed, Effect, Quiet, GoesOn, SameChain, Causes, ChainCauses
  <1>8. CASE Save
    BY <1>0, <1>8, GotoQuiet, KeepsChain DEF Save, Effect
  <1>9. CASE Match
    BY <1>0, <1>9, GotoQuiet, ApplyVerdictEffect DEF Match, Effect
  <1>10. CASE MatchAll
    BY <1>0, <1>10, GotoQuiet, ApplyVerdictEffect DEF MatchAll, Effect
  <1>11. CASE MatchAny
    BY <1>0, <1>11, GotoQuiet, ApplyVerdictEffect DEF MatchAny, Effect
  <1>12. CASE Assert
    BY <1>12, GotoQuiet, AbortFails DEF Assert, Effect, Causes
  <1>13. CASE IfMatch
    BY <1>13, GotoQuiet, AbortFails DEF IfMatch, Effect, Causes
  <1>14. CASE Extract
    BY <1>0, <1>14, GotoQuiet, KeepsChain, AbortFails DEF Extract, Effect, Causes
  <1>15. CASE Evidence
    <2>1. CASE ~ context.matched
      BY <1>15, <2>1, GotoQuiet DEF Evidence, Effect
    <2>2. CASE context.matched
      <3> DEFINE rule == prog.evidence[Here.evidence + 1]
                 texts == EvidenceTexts(rule, context.responses[rule.target])
      <3>1. Here.evidence \in Nat
        BY <1>15, HereType DEF Evidence, Instr
      <3>2. rule \in Evidences
        BY <1>15, <2>2, <3>1 DEF Evidence, Panics, Misses, TypeOK, IsProgram
      <3>3. context.responses[rule.target].facts \subseteq Facts
        BY <1>0, <3>2 DEF Evidences, Contexts, Response
      <3>4. texts \subseteq Strs
        BY <3>3, StringsAssumption DEF EvidenceTexts
      <3>5. ASSUME NEW text \in texts,
                   Goto(pc + 1, [context EXCEPT !.evidence = context.evidence \cup {text}])
            PROVE  Collects
        BY <1>0, <2>2, <3>4, <3>5 DEF Goto, Proceed, Collects, GoesOn, Contexts
      <3>6. CASE Abort("evidence")
        BY <2>2, <3>6, AbortFails DEF Effect, Causes
      <3> QED
        BY <1>15, <2>2, <3>5, <3>6 DEF Evidence, Effect
    <2> QED
      BY <2>1, <2>2
  <1>16. CASE ForList
    BY <1>0, <1>16, EnterQuiet, AbortFails DEF ForList, Effect, Causes, ChainCauses
  <1>17. CASE ForVar
    BY <1>0, <1>17, EnterQuiet, GotoQuiet, AbortFails DEF ForVar, Effect, Causes, ChainCauses
  <1>18. CASE LoopBack
    BY <1>0, <1>18, GotoQuiet, KeepsChain, AbortFails DEF LoopBack, Effect, Causes, ChainCauses
  <1>19. CASE Break
    BY <1>0, <1>19, GotoQuiet, KeepsChain, AbortFails DEF Break, Effect, Causes, ChainCauses
  <1>20. CASE Continue
    BY <1>20, GotoQuiet, AbortFails DEF Continue, Effect, Causes, ChainCauses
  <1>21. CASE Stop
    <2>1. /\ [context EXCEPT !.emit_finding = FALSE] \in Contexts
          /\ [context EXCEPT !.emit_finding = FALSE].matched = context.matched
          /\ [context EXCEPT !.emit_finding = FALSE].evidence = context.evidence
      BY <1>0 DEF Contexts
    <2> QED
      BY <1>0, <1>21, <2>1, ConcludeReturns DEF Stop, Effect
  <1>22. CASE Exit
    BY <1>0, <1>22, ConcludeReturns DEF Exit, Effect
  <1>23. CASE Fail
    BY <1>0, <1>23 DEF Fail, End, Effect, Fails, SameChain, Contexts, Causes, ChainCauses
  <1> QED
    BY <1>1, <1>2, <1>3, <1>4, <1>5, <1>6, <1>7, <1>8, <1>9, <1>10, <1>11, <1>12, <1>13,
       <1>14, <1>15, <1>16, <1>17, <1>18, <1>19, <1>20, <1>21, <1>22, <1>23 DEF Instruction

LEMMA InstructionFrame ==
    ASSUME Instruction
    PROVE  phase = "run" /\ UNCHANGED <<prog, origin>>
  <1>1. phase = "run"
    BY DEF Instruction, At, AtInstr, Set, SetList, Send, RetryNever, RetryAttempt, AtRetry,
           SetRetryDelay, Sleep, Save, Match, MatchAll, MatchAny, Assert, IfMatch, Extract,
           Evidence, ForList, ForVar, LoopBack, Break, Continue, Stop, Exit, Fail
  <1>2. UNCHANGED <<prog, origin>>
    BY DEF Instruction, Set, SetList, Send, RetryNever, RetryAttempt, SetRetryDelay,
           Sleep, Save, Match, MatchAll, MatchAny, Assert, IfMatch, Extract, Evidence, ForList,
           ForVar, LoopBack, Break, Continue, Stop, Exit, Fail, Enter, ApplyVerdict, Goto,
           Proceed, Abort, Conclude, End
  <1> QED
    BY <1>1, <1>2

-----------------------------------------------------------------------------
(* The same for every step of the run.                                     *)

\* While the run goes on it has no result, and nothing is matched or collected
\* before it starts.
Pending ==
    /\ phase # "done" => result = NoResult
    /\ phase \in {"load", "precheck"} => context.matched /\ context.evidence = {}

LEMMA RunningEffect ==
    ASSUME TypeOK, phase = "run", Next
    PROVE  \/ Effect
           \/ /\ Panic /\ phase' = "done" /\ SameChain
              /\ result' = Failure("panic", "operand")
  <1>0. context \in Contexts /\ prog.named \in BOOLEAN
    BY DEF TypeOK, IsProgram
  <1>1. CASE Instruction
    BY <1>1, InstructionEffect
  <1>2. CASE Finish
    BY <1>0, <1>2, ConcludeReturns DEF Finish, Effect
  <1>3. CASE BudgetExceeded
    BY <1>3, AbortFails DEF BudgetExceeded, Effect, Causes, ChainCauses
  <1>4. CASE Panic
    BY <1>4 DEF Panic, End, SameChain
  <1>5. CASE Tick
    BY <1>5 DEF Tick, Effect, Quiet, GoesOn, SameChain
  <1> QED
    BY <1>1, <1>2, <1>3, <1>4, <1>5
    DEF Next, Step, Terminated, DecodeFails, CompileFails, Construct, PreCheck

LEMMA PreparingEffect ==
    ASSUME phase # "run", Next
    PROVE  \/ UNCHANGED <<phase, context, result>>
           \/ /\ phase = "load" /\ phase' = "precheck" /\ UNCHANGED <<context, result>>
           \/ /\ phase = "precheck" /\ phase' = "run" /\ UNCHANGED <<context, result>>
           \/ /\ phase \in {"load", "precheck"} /\ phase' = "done" /\ UNCHANGED context
              /\ \E cause \in Causes : result' = Failure("rejected", cause)
                                       \/ result' = Failure("skipped", cause)
  <1>1. ~ Instruction
    BY InstructionFrame
  <1>2. ~ Finish /\ ~ BudgetExceeded /\ ~ Panic /\ ~ Tick
    BY DEF Finish, BudgetExceeded, Panic, AtInstr, Tick
  <1>3. CASE DecodeFails
    BY <1>3 DEF DecodeFails, Reject, Causes
  <1>4. CASE CompileFails
    BY <1>4 DEF CompileFails, Reject, Causes
  <1>5. CASE Construct
    BY <1>5 DEF Construct
  <1>6. CASE PreCheck
    BY <1>6 DEF PreCheck, Causes
  <1>7. CASE Terminated
    BY <1>7 DEF Terminated, vars
  <1> QED
    BY <1>1, <1>2, <1>3, <1>4, <1>5, <1>6, <1>7 DEF Next, Step

LEMMA PendingInductive ==
    ASSUME TypeOK, Pending, [Next]_vars
    PROVE  Pending'
  <1>1. CASE UNCHANGED vars
    BY <1>1 DEF vars, Pending
  <1>2. CASE Next /\ phase = "run"
    BY <1>2, RunningEffect
    DEF Pending, Effect, Quiet, MissesChain, Collects, Fails, Returns, GoesOn
  <1>3. CASE Next /\ phase # "run"
    BY <1>3, PreparingEffect DEF Pending
  <1> QED
    BY <1>1, <1>2, <1>3

LEMMA InitPending == Init => Pending
  BY DEF Init, Pending, FromSpec

\* A broken chain stays broken whatever the rest of the program does, and no
\* instruction of the chain can fail the run after it broke.
THEOREM MissFinal == Spec => MissIsFinal
  <1>1. ASSUME TypeOK, Pending, [Next]_vars, phase = "run", ~ context.matched,
               ~ UNCHANGED vars
        PROVE  /\ ~ context'.matched
               /\ context'.evidence = context.evidence
               /\ ~ result'.detected
               /\ result'.why \notin {"match", "assert", "extract", "evidence"}
    <2>1. result = NoResult
      BY <1>1 DEF Pending
    <2>2. \/ Effect
          \/ /\ phase' = "done" /\ SameChain
             /\ result' = Failure("panic", "operand")
      BY <1>1, RunningEffect
    <2>3. CASE Quiet
      BY <1>1, <2>1, <2>3 DEF Quiet, GoesOn, SameChain, NoResult
    <2>4. CASE Fails
      BY <1>1, <2>4 DEF Fails, SameChain, Failure, NoResult, ChainCauses
    <2>5. CASE Returns
      BY <1>1, <2>5 DEF Returns, SameChain
    <2>6. CASE phase' = "done" /\ SameChain /\ result' = Failure("panic", "operand")
      BY <1>1, <2>6 DEF SameChain, Failure, NoResult
    <2> QED
      BY <1>1, <2>2, <2>3, <2>4, <2>5, <2>6 DEF Effect, MissesChain, Collects
  <1>2. TypeOK /\ Pending /\ [Next]_vars =>
          [(phase = "run" /\ ~ context.matched) =>
              /\ ~ context'.matched
              /\ context'.evidence = context.evidence
              /\ ~ result'.detected
              /\ result'.why \notin {"match", "assert", "extract", "evidence"}]_vars
    BY <1>1
  <1> QED
    BY <1>2, TypeCorrect, InitPending, PendingInductive, PTL DEF Spec, MissIsFinal

-----------------------------------------------------------------------------
(* Decoded bytecode.                                                       *)

\* What decode has checked holds for as long as the program runs, and no run
\* of a decoded program has panicked.
Decoded ==
    origin = "bytes" => /\ phase \in {"precheck", "run"} => Validate(prog)
                        /\ result.tag # "panic"

LEMMA DecodedStep ==
    ASSUME TypeOK, Pending, Decoded, [Next]_vars
    PROVE  Decoded'
  <1> SUFFICES ASSUME origin' = "bytes" PROVE Decoded'
    BY DEF Decoded
  <1>0. prog' = prog /\ origin' = origin
    BY InstructionFrame
    DEF Next, Step, vars, DecodeFails, CompileFails, Reject, Construct, PreCheck, Finish,
        Conclude, End, BudgetExceeded, Abort, Panic, Tick, Terminated
  <1>1. CASE UNCHANGED vars
    BY <1>1 DEF vars, Decoded
  <1>2. CASE Next /\ phase = "run"
    <2>1. Validate(prog) /\ result.tag # "panic"
      BY <1>0, <1>2 DEF Decoded
    <2>2. ~ Panic
      <3> SUFFICES ASSUME AtInstr PROVE ~ Panics(Here, prog, context.matched)
        BY DEF Panic
      <3>1. Here \in Instr
        BY HereType DEF AtInstr
      <3>2. pc + 1 \in DOMAIN prog.code
        BY DEF AtInstr, TypeOK, IsProgram
      <3>3. OperandsValid(Here, prog)
        BY <2>1, <3>2 DEF Validate, Here
      <3> QED
        BY <3>1, <3>3, ValidIsSafe
    <2>3. Effect
      BY <1>2, <2>2, RunningEffect
    <2>4. result'.tag # "panic"
      <3>1. CASE GoesOn
        BY <2>1, <3>1 DEF GoesOn
      <3>2. CASE Fails
        BY <3>2 DEF Fails, Failure, NoResult
      <3>3. CASE Returns
        BY <3>3 DEF Returns
      <3> QED
        BY <2>3, <3>1, <3>2, <3>3 DEF Effect, Quiet, MissesChain, Collects
    <2>5. Validate(prog')
      BY <1>0, <2>1
    <2> QED
      BY <2>4, <2>5 DEF Decoded
  <1>3. CASE Next /\ phase # "run"
    <2>1. CASE Construct
      BY <1>0, <2>1 DEF Construct, Decoded
    <2>2. CASE ~ Construct
      <3>1. phase' = phase \/ phase = "precheck" \/ phase' = "done"
        BY <1>3, <2>2, InstructionFrame
        DEF Next, Step, DecodeFails, CompileFails, Reject, PreCheck, Finish, BudgetExceeded, Panic,
            AtInstr, Tick, Terminated, vars
      <3> QED
        BY <1>0, <1>3, <3>1, PreparingEffect DEF Decoded, Failure, NoResult, TypeOK
    <2> QED
      BY <2>1, <2>2
  <1> QED
    BY <1>1, <1>2, <1>3

\* Bytecode that decode accepts never makes the executor index outside a pool,
\* for every program, every response and every interleaving with the clock.
THEOREM DecodedSafe == Spec => []NoPanicFromBytes
  <1>1. Init => Decoded
    BY DEF Init, Decoded, NoResult
  <1>2. Decoded => NoPanicFromBytes
    BY DEF Decoded, NoPanicFromBytes
  <1> QED
    BY <1>1, <1>2, DecodedStep, TypeCorrect, InitPending, PendingInductive, PTL DEF Spec

-----------------------------------------------------------------------------
(* Refinement.                                                             *)

LEMMA StepKeepsPromise ==
    ASSUME TypeOK, Pending, TypeOK', [Next]_vars
    PROVE  [Promise!Next]_(Promise!checkVars)
  <1> USE DEF Promise!Next, Promise!Prepare, Promise!Miss, Promise!Collect, Promise!Detect,
              Promise!EndWithout, Promise!checkVars
  <1>0. context.matched \in BOOLEAN /\ context'.matched \in BOOLEAN
    BY DEF TypeOK, Contexts
  <1>1. CASE UNCHANGED vars
    BY <1>1 DEF vars
  <1>2. CASE Next /\ phase = "run"
    <2>1. result = NoResult
      BY <1>2 DEF Pending
    <2>2. CASE Quiet
      BY <2>2 DEF Quiet, GoesOn, SameChain
    <2>3. CASE MissesChain
      BY <1>0, <1>2, <2>3 DEF MissesChain, GoesOn
    <2>4. CASE Collects
      BY <1>0, <1>2, <2>4 DEF Collects, GoesOn
    <2>5. CASE Fails \/ (phase' = "done" /\ SameChain /\ result' = Failure("panic", "operand"))
      BY <1>2, <2>1, <2>5 DEF Fails, SameChain, Failure, NoResult
    <2>6. CASE Returns
      <3>1. PICK found \in BOOLEAN :
                /\ found => context.matched
                /\ result' = [tag |-> "ok", why |-> "none", detected |-> found,
                              evidence |-> IF found THEN context.evidence ELSE {}]
        BY <2>6 DEF Returns
      <3>2. CASE found
        BY <1>2, <2>6, <3>1, <3>2 DEF Returns, SameChain
      <3>3. CASE ~ found
        BY <1>2, <2>1, <2>6, <3>1, <3>3 DEF Returns, SameChain, NoResult
      <3> QED
        BY <3>2, <3>3
    <2> QED
      BY <1>2, <2>2, <2>3, <2>4, <2>5, <2>6, RunningEffect DEF Effect
  <1>3. CASE Next /\ phase # "run"
    BY <1>3, PreparingEffect DEF Pending, Failure, NoResult
  <1> QED
    BY <1>1, <1>2, <1>3

\* The executor implements Check: every run of every program collects proof
\* and reports a finding only as Check allows.
THEOREM Implements == Spec => ImplementsCheck
  <1>1. Init => Promise!Init
    BY DEF Init, Promise!Init, Promise!NoFinding, FromSpec, NoResult
  <1> QED
    BY <1>1, StepKeepsPromise, TypeCorrect, InitPending, PendingInductive, PTL
    DEF Spec, ImplementsCheck, Promise!Spec
=============================================================================
