------------------------------ MODULE LoopProofs ------------------------------
(***************************************************************************)
(* What TLAPS proves about the control flow and the sends of Executor, for *)
(* every program: which value a loop variable has, that in a program of    *)
(* compiler shape the stack is the loops around pc, which endpoints the    *)
(* sends contact and what they leave of a session's transcript.            *)
(***************************************************************************)
EXTENDS ExecutorProofs

-----------------------------------------------------------------------------
(* What a step can do to the stack and to the variables.                   *)

SameStack == context'.loop_stack = context.loop_stack
WritesNoItem ==
    \A y \in Strs : ~ BoundOtherwise(prog, y) => context'.variables[y] = context.variables[y]
Ordinary == SameStack /\ WritesNoItem

AtCode == phase = "run" /\ pc < Len(prog.code)
IsFor(i) == i.op \in {"ForList", "ForVar"}
InLoop == context.loop_stack # << >>

\* The steps that change the stack.
Enters ==
    /\ AtCode /\ IsFor(Here) /\ pc' = pc + 1 /\ phase' = "run" /\ result' = result
    /\ \E x \in Strs, l \in Seq(Strs) :
          /\ l # << >> /\ BoundByLoop(prog, x)
          /\ context' = EnterForeach(context, x, l, pc, Here.end_pc)
Advances ==
    /\ AtCode /\ Here.op = "LoopBack" /\ InLoop /\ HasNext(context)
    /\ context' = AdvanceLoop(context)
    /\ pc' = Top(context).head_pc /\ phase' = "run" /\ result' = result
Leaves ==
    /\ AtCode /\ Here.op \in {"LoopBack", "Break"} /\ InLoop
    /\ context' = LeaveLoop(context)
    /\ pc' = Top(context).end_pc /\ phase' = "run" /\ result' = result

\* The steps that do not: where they go.
Starts == /\ phase \in {"load", "precheck"} /\ phase' \in {"precheck", "run"}
          /\ pc' = pc /\ result' = result
Waits == pc' = pc /\ phase' = phase /\ result' = result
StepsOn == /\ AtCode /\ ~ IsFor(Here) /\ Here.op # "LoopBack"
             /\ pc' = pc + 1 /\ phase' = "run" /\ result' = result
Branches == /\ AtCode /\ Here.op = "IfMatch"
            /\ pc' = Here.else_pc /\ phase' = "run" /\ result' = result
Skips == /\ AtCode /\ IsFor(Here)
         /\ pc' = Here.end_pc /\ phase' = "run" /\ result' = result
Continues == /\ AtCode /\ Here.op = "Continue" /\ InLoop
             /\ pc' = Top(context).continue_pc /\ phase' = "run" /\ result' = result
Ends == /\ phase' = "done"
        /\ result'.why = "outside_loop" =>
              AtCode /\ Here.op \in {"LoopBack", "Break", "Continue"} /\ ~ InLoop

Moves == Starts \/ Waits \/ StepsOn \/ Branches \/ Skips \/ Continues \/ Ends
LoopStep == (Ordinary /\ Moves) \/ Enters \/ Advances \/ Leaves

\* The operations of a context that leave the stack alone.
LEMMA KeepsStack ==
    ASSUME NEW c \in Contexts
    PROVE  /\ \A n \in Strs : \A s : SetVariable(c, n, s).loop_stack = c.loop_stack
           /\ \A n \in Strs : \A s : SetListVariable(c, n, s).loop_stack = c.loop_stack
           /\ \A n, y \in Strs : \A s : y # n =>
                 /\ SetVariable(c, n, s).variables[y] = c.variables[y]
                 /\ SetListVariable(c, n, s).variables[y] = c.variables[y]
           /\ \A n, x : /\ AliasResponse(c, n, x).variables = c.variables
                        /\ AliasResponse(c, n, x).loop_stack = c.loop_stack
           /\ CloseSessions(c).variables = c.variables
           /\ CloseSessions(c).loop_stack = c.loop_stack
  BY DEF Contexts, SetVariable, SetListVariable, AliasResponse, CloseSessions

LEMMA ReceivedKeepsStack ==
    ASSUME context \in Contexts, NEW n, NEW o, NEW facts
    PROVE  /\ Received(n, o, facts).variables = context.variables
           /\ Received(n, o, facts).loop_stack = context.loop_stack
  BY DEF Received, StoreResponse, Contexts

LEMMA AbortLoops ==
    ASSUME NEW cause \in Causes, Abort(cause),
           cause = "outside_loop" =>
              AtCode /\ Here.op \in {"LoopBack", "Break", "Continue"} /\ ~ InLoop
    PROVE  LoopStep
  BY DEF Abort, End, Failure, NoResult, LoopStep, Ordinary, SameStack, WritesNoItem, Moves, Ends

LEMMA NextInstruction ==
    ASSUME NEW c, Goto(pc + 1, c), AtCode, ~ IsFor(Here), Here.op # "LoopBack",
           c.loop_stack = context.loop_stack,
           \A y \in Strs : ~ BoundOtherwise(prog, y) => c.variables[y] = context.variables[y]
    PROVE  LoopStep
  BY DEF Goto, Proceed, AtCode, LoopStep, Ordinary, SameStack, WritesNoItem, Moves, StepsOn

LEMMA ConcludeLoops ==
    ASSUME NEW c \in Contexts, Conclude(c), c.loop_stack = context.loop_stack,
           c.variables = context.variables
    PROVE  LoopStep
  <1>1. result'.why = "none" /\ phase' = "done" /\ context' = CloseSessions(c)
    BY DEF Conclude, End
  <1> QED
    BY <1>1, KeepsStack DEF LoopStep, Ordinary, SameStack, WritesNoItem, Moves, Ends

LEMMA ApplyVerdictLoops ==
    ASSUME TypeOK, AtCode, ~ IsFor(Here), Here.op # "LoopBack", NEW verdict, ApplyVerdict(verdict)
    PROVE  LoopStep
  <1>1. CASE verdict = "true"
    BY <1>1, NextInstruction DEF ApplyVerdict
  <1>2. CASE verdict = "false"
    <2>1. /\ [context EXCEPT !.matched = FALSE].loop_stack = context.loop_stack
          /\ [context EXCEPT !.matched = FALSE].variables = context.variables
      BY DEF TypeOK, Contexts
    <2> QED
      BY <1>2, <2>1, NextInstruction DEF ApplyVerdict
  <1>3. CASE verdict \notin {"true", "false"}
    BY <1>3, AbortLoops DEF ApplyVerdict, Causes
  <1> QED
    BY <1>1, <1>2, <1>3

LEMMA EnterLoops ==
    ASSUME TypeOK, AtCode, IsFor(Here), NEW x \in Strs, BoundByLoop(prog, x),
           NEW l \in Seq(Strs), Enter(x, l, Here.end_pc)
    PROVE  LoopStep
  <1>1. CASE l = << >>
    BY <1>1 DEF Enter, Goto, Proceed, AtCode, LoopStep, Ordinary, SameStack, WritesNoItem, Moves, Skips
  <1>2. CASE l # << >>
    BY <1>2 DEF Enter, Goto, Proceed, AtCode, LoopStep, Enters
  <1> QED
    BY <1>1, <1>2

\* The names that instructions write are the names BoundByLoop and
\* BoundOtherwise speak of.
LEMMA NamesBound ==
    ASSUME TypeOK, AtCode
    PROVE  /\ \A i \in Nat : Here.op \in {"Set", "SetList", "Extract"} /\ i = Here.name
                 /\ ~ Misses(i, Len(prog.strings)) => BoundOtherwise(prog, Text(i))
           /\ \A i \in Nat : IsFor(Here) /\ i = Here.item
                 /\ ~ Misses(i, Len(prog.strings)) => BoundByLoop(prog, Text(i))
  <1>1. pc + 1 \in 1..Len(prog.code)
    BY DEF AtCode, TypeOK, IsProgram
  <1> QED
    BY <1>1 DEF BoundOtherwise, BoundByLoop, Misses, Text, Here, IsFor

\* Every instruction is one of these steps.
LEMMA InstructionLoops ==
    ASSUME TypeOK, Instruction
    PROVE  LoopStep
  <1> USE DEF At, AtInstr, AtCode, IsFor
  <1>0. context \in Contexts /\ prog.named \in BOOLEAN
    BY DEF TypeOK, IsProgram
  <1>1. CASE Set
    <2>1. Here.name \in Nat
      BY <1>1, HereType DEF Set, AtCode, Instr
    <2>2. Text(Here.name) \in Strs /\ BoundOtherwise(prog, Text(Here.name))
      BY <1>1, <2>1, TextType, NamesBound DEF Set, Panics
    <2> QED
      BY <1>0, <1>1, <2>2, KeepsStack, NextInstruction, AbortLoops DEF Set, Causes
  <1>2. CASE SetList
    <2>1. Here.name \in Nat
      BY <1>2, HereType DEF SetList, AtCode, Instr
    <2>2. Text(Here.name) \in Strs /\ BoundOtherwise(prog, Text(Here.name))
      BY <1>2, <2>1, TextType, NamesBound DEF SetList, Panics
    <2> QED
      BY <1>0, <1>2, <2>2, KeepsStack, NextInstruction, AbortLoops DEF SetList, Causes
  <1>3. CASE Send
    BY <1>0, <1>3, ReceivedKeepsStack
    DEF Send, AtCode, Proceed, End, Failure, NoResult, LoopStep, Ordinary, SameStack,
        WritesNoItem, Moves, StepsOn, Ends
  <1>4. CASE RetryNever
    BY <1>4, AbortLoops DEF RetryNever, Causes
  <1>5. CASE RetryAttempt
    <2>1. CASE Proceed(pc, context)
      BY <2>1 DEF Proceed, LoopStep, Ordinary, SameStack, WritesNoItem, Moves, Waits
    <2>2. CASE End(Failure("error", "probe"), context)
      BY <2>2 DEF End, Failure, NoResult, LoopStep, Ordinary, SameStack, WritesNoItem, Moves, Ends
    <2>3. ASSUME NEW facts, Proceed(pc + 1, Received(Text(Here.probe), FALSE, facts))
          PROVE  LoopStep
      BY <1>0, <1>5, <2>3, ReceivedKeepsStack
      DEF RetryAttempt, AtRetry, Proceed, LoopStep, Ordinary, SameStack, WritesNoItem, Moves, StepsOn
    <2> QED
      BY <1>5, <2>1, <2>2, <2>3 DEF RetryAttempt
  <1>6. CASE SetRetryDelay
    <2>1. \A d : /\ [context EXCEPT !.retry_delay = d].loop_stack = context.loop_stack
                 /\ [context EXCEPT !.retry_delay = d].variables = context.variables
      BY <1>0 DEF Contexts
    <2> QED
      BY <1>6, <2>1, NextInstruction, AbortLoops DEF SetRetryDelay, Causes
  <1>7. CASE Sleep
    BY <1>7, AbortLoops
    DEF Sleep, Proceed, AtCode, LoopStep, Ordinary, SameStack, WritesNoItem, Moves, StepsOn, Causes
  <1>8. CASE Save
    BY <1>0, <1>8, KeepsStack, NextInstruction DEF Save
  <1>9. CASE Match
    BY <1>9, NextInstruction, ApplyVerdictLoops DEF Match
  <1>10. CASE MatchAll
    BY <1>10, NextInstruction, ApplyVerdictLoops DEF MatchAll
  <1>11. CASE MatchAny
    BY <1>11, NextInstruction, ApplyVerdictLoops DEF MatchAny
  <1>12. CASE Assert
    BY <1>12, NextInstruction, AbortLoops DEF Assert, Causes
  <1>13. CASE IfMatch
    <2>1. CASE Goto(pc + 1, context)
      BY <1>13, <2>1, NextInstruction DEF IfMatch
    <2>2. CASE Goto(Here.else_pc, context)
      BY <1>13, <2>2
      DEF IfMatch, Goto, Proceed, AtCode, LoopStep, Ordinary, SameStack, WritesNoItem, Moves, Branches
    <2>3. CASE Abort("match")
      BY <2>3, AbortLoops DEF Causes
    <2> QED
      BY <1>13, <2>1, <2>2, <2>3 DEF IfMatch
  <1>14. CASE Extract
    <2>1. CASE ~ context.matched
      BY <1>14, <2>1, NextInstruction DEF Extract
    <2>2. CASE context.matched
      <3>1. Here.name \in Nat
        BY <1>14, HereType DEF Extract, AtCode, Instr
      <3>2. Text(Here.name) \in Strs /\ BoundOtherwise(prog, Text(Here.name))
        BY <1>14, <2>2, <3>1, TextType, NamesBound DEF Extract, Panics
      <3>3. ASSUME NEW s, Goto(pc + 1, SetVariable(context, Text(Here.name), s))
            PROVE  LoopStep
        BY <1>0, <1>14, <3>2, <3>3, KeepsStack, NextInstruction DEF Extract
      <3>4. CASE Abort("extract")
        BY <3>4, AbortLoops DEF Causes
      <3> QED
        BY <1>14, <2>2, <3>3, <3>4 DEF Extract
    <2> QED
      BY <2>1, <2>2
  <1>15. CASE Evidence
    <2>1. \A e : /\ [context EXCEPT !.evidence = e].loop_stack = context.loop_stack
                 /\ [context EXCEPT !.evidence = e].variables = context.variables
      BY <1>0 DEF Contexts
    <2>2. ASSUME NEW e, Goto(pc + 1, [context EXCEPT !.evidence = e])
          PROVE  LoopStep
      BY <1>15, <2>1, <2>2, NextInstruction DEF Evidence
    <2>3. CASE Goto(pc + 1, context)
      BY <1>15, <2>3, NextInstruction DEF Evidence
    <2>4. CASE Abort("evidence")
      BY <2>4, AbortLoops DEF Causes
    <2> QED
      BY <1>15, <2>2, <2>3, <2>4 DEF Evidence
  <1>16. CASE ForList
    <2>1. Here.item \in Nat /\ Here.start \in Nat /\ Here.len \in Nat
      BY <1>16, HereType DEF ForList, AtCode, Instr
    <2>2. Text(Here.item) \in Strs /\ BoundByLoop(prog, Text(Here.item))
      BY <1>16, <2>1, TextType, NamesBound DEF ForList, Panics
    <2>3. InterpolateAll(Slice(Here.start, Here.len)) \in Seq(Strs)
      BY <1>0, <1>16, <2>1, SliceType, InterpolateAllType DEF ForList, Panics, TypeOK, IsProgram
    <2> QED
      BY <1>16, <2>2, <2>3, EnterLoops, AbortLoops DEF ForList, Causes
  <1>17. CASE ForVar
    <2>1. Here.item \in Nat /\ Here.list \in Nat
      BY <1>17, HereType DEF ForVar, AtCode, Instr
    <2>2. /\ Text(Here.item) \in Strs /\ BoundByLoop(prog, Text(Here.item))
          /\ Text(Here.list) \in Strs
      BY <1>17, <2>1, TextType, NamesBound DEF ForVar, Panics
    <2>3. context.variables[Text(Here.list)].items \in Seq(Strs)
      BY <1>0, <2>2 DEF Contexts, Value
    <2>4. CASE Goto(Here.end_pc, context)
      BY <1>17, <2>4
      DEF ForVar, Goto, Proceed, AtCode, LoopStep, Ordinary, SameStack, WritesNoItem, Moves, Skips
    <2> QED
      BY <1>17, <2>2, <2>3, <2>4, EnterLoops, AbortLoops DEF ForVar, Causes
  <1>18. CASE LoopBack
    BY <1>18, AbortLoops
    DEF LoopBack, Causes, Goto, Proceed, AtCode, InLoop, LoopStep, Advances, Leaves
  <1>19. CASE Break
    BY <1>19, AbortLoops
    DEF Break, Causes, Goto, Proceed, AtCode, InLoop, LoopStep, Leaves
  <1>20. CASE Continue
    BY <1>20, AbortLoops
    DEF Continue, Causes, Goto, Proceed, AtCode, InLoop, LoopStep, Ordinary, SameStack,
        WritesNoItem, Moves, Continues
  <1>21. CASE Stop
    <2>1. /\ [context EXCEPT !.emit_finding = FALSE] \in Contexts
          /\ [context EXCEPT !.emit_finding = FALSE].loop_stack = context.loop_stack
          /\ [context EXCEPT !.emit_finding = FALSE].variables = context.variables
      BY <1>0 DEF Contexts
    <2> QED
      BY <1>21, <2>1, ConcludeLoops DEF Stop
  <1>22. CASE Exit
    BY <1>0, <1>22, ConcludeLoops DEF Exit
  <1>23. CASE Fail
    BY <1>0, <1>23
    DEF Fail, End, Failure, NoResult, LoopStep, Ordinary, SameStack, WritesNoItem, Moves, Ends, Contexts
  <1> QED
    BY <1>1, <1>2, <1>3, <1>4, <1>5, <1>6, <1>7, <1>8, <1>9, <1>10, <1>11, <1>12, <1>13,
       <1>14, <1>15, <1>16, <1>17, <1>18, <1>19, <1>20, <1>21, <1>22, <1>23 DEF Instruction

\* And so is every step of the run.
LEMMA NextLoops ==
    ASSUME TypeOK, [Next]_vars
    PROVE  LoopStep /\ prog' = prog
  <1> USE DEF LoopStep, Ordinary, SameStack, WritesNoItem, Moves
  <1>0. context \in Contexts
    BY DEF TypeOK
  <1>1. CASE DecodeFails
    BY <1>1 DEF DecodeFails, Reject, Failure, NoResult, Ends
  <1>2. CASE CompileFails
    BY <1>2 DEF CompileFails, Reject, Failure, NoResult, Ends
  <1>3. CASE Construct
    BY <1>3 DEF Construct, Starts
  <1>4. CASE PreCheck
    <2>1. CASE phase' = "run"
      BY <1>4, <2>1 DEF PreCheck, Starts
    <2>2. CASE phase' = "done"
      BY <1>4, <2>2 DEF PreCheck, Failure, NoResult, Ends
    <2> QED
      BY <1>4, <2>1, <2>2 DEF PreCheck
  <1>5. CASE Instruction
    BY <1>5, InstructionLoops, InstructionFrame
  <1>6. CASE Finish
    BY <1>0, <1>6, ConcludeLoops DEF Finish, Conclude, End
  <1>7. CASE BudgetExceeded
    BY <1>7, AbortLoops DEF BudgetExceeded, Causes, Abort, End
  <1>8. CASE Panic
    BY <1>8 DEF Panic, End, Failure, NoResult, Ends
  <1>9. CASE Tick \/ UNCHANGED vars
    BY <1>9 DEF Tick, vars, Waits
  <1> QED
    BY <1>1, <1>2, <1>3, <1>4, <1>5, <1>6, <1>7, <1>8, <1>9 DEF Next, Step, Terminated

-----------------------------------------------------------------------------
(* The values of loop variables.                                           *)

\* v is the value of x under the first n frames of the stack.
Under(stack, n, x, v) ==
    LET frames == {k \in 1..n : stack[k].item = x} IN
    /\ frames = {} => v = ScanVariables[x]
    /\ \A k \in frames : (\A j \in frames : j <= k) =>
          v = Scalar(stack[k].values[stack[k].index + 1])

\* What makes LoopBinding inductive: each frame for x also keeps the value that
\* x has under the frames below it, which leaving the loop brings back.
Binds(c, x) ==
    /\ Under(c.loop_stack, Len(c.loop_stack), x, c.variables[x])
    /\ \A k \in 1..Len(c.loop_stack) : c.loop_stack[k].item = x =>
          Under(c.loop_stack, k - 1, x, c.loop_stack[k].previous)

\* Under looks at the items and at the values of the frames for x only.
LEMMA UnderAgrees ==
    ASSUME NEW s, NEW t, NEW n \in Nat, NEW x, NEW v, Under(s, n, x, v),
           \A k \in 1..n : t[k] = s[k]
    PROVE  Under(t, n, x, v)
  BY DEF Under

LEMMA EnterBinds ==
    ASSUME NEW c \in Contexts, NEW n \in Strs, NEW l \in Seq(Strs), NEW from \in Nat,
           NEW end \in Nat, NEW x \in Strs, Binds(c, x)
    PROVE  Binds(EnterForeach(c, n, l, from, end), x)
  <1> DEFINE d == EnterForeach(c, n, l, from, end)
             s == c.loop_stack
             t == d.loop_stack
             m == Len(s)
  <1>1. s \in Seq(LoopFrame) /\ m \in Nat
    BY DEF Contexts
  <1>2. /\ Len(t) = m + 1 /\ \A k \in 1..m : t[k] = s[k]
        /\ t[m + 1].item = n /\ t[m + 1].values = l /\ t[m + 1].index = 0
        /\ t[m + 1].previous = c.variables[n]
    BY <1>1 DEF EnterForeach, SetVariable, Contexts
  <1>3. d.variables = [c.variables EXCEPT ![n] = Scalar(l[1])]
    BY DEF EnterForeach, SetVariable, Contexts
  <1>4. d.variables[n] = Scalar(l[1]) /\ \A y \in Strs \ {n} : d.variables[y] = c.variables[y]
    BY <1>3 DEF Contexts
  <1> HIDE DEF d, s
  <1>5. Under(t, m, x, c.variables[x])
    BY <1>1, <1>2, UnderAgrees DEF Binds, s
  <1>6. Under(t, m + 1, x, d.variables[x])
    <2>1. CASE x = n
      <3>1. m + 1 \in {k \in 1..(m + 1) : t[k].item = x}
        BY <1>1, <1>2, <2>1
      <3>2. \A k \in 1..(m + 1) : m + 1 <= k => k = m + 1
        BY <1>1
      <3> QED
        BY <1>2, <1>4, <2>1, <3>1, <3>2 DEF Under
    <2>2. CASE x # n
      <3>1. {k \in 1..(m + 1) : t[k].item = x} = {k \in 1..m : t[k].item = x}
        BY <1>1, <1>2, <2>2
      <3> QED
        BY <1>4, <1>5, <2>2, <3>1 DEF Under
    <2> QED
      BY <2>1, <2>2
  <1>7. ASSUME NEW k \in 1..(m + 1), t[k].item = x
        PROVE  Under(t, k - 1, x, t[k].previous)
    <2>1. CASE k = m + 1
      BY <1>1, <1>2, <1>5, <1>7, <2>1
    <2>2. CASE k \in 1..m
      <3>1. Under(s, k - 1, x, t[k].previous)
        BY <1>2, <1>7, <2>2 DEF Binds, s
      <3>2. k - 1 \in Nat /\ \A j \in 1..(k - 1) : t[j] = s[j]
        BY <1>1, <1>2, <2>2
      <3> QED
        BY <3>1, <3>2, UnderAgrees
    <2> QED
      BY <1>1, <2>1, <2>2
  <1> QED
    BY <1>2, <1>6, <1>7 DEF Binds, d

LEMMA AdvanceBinds ==
    ASSUME NEW c \in Contexts, c.loop_stack # << >>, NEW x \in Strs, Binds(c, x)
    PROVE  Binds(AdvanceLoop(c), x)
  <1> DEFINE d == AdvanceLoop(c)
             s == c.loop_stack
             t == d.loop_stack
             m == Len(s)
             f == s[m]
  <1>1. s \in Seq(LoopFrame) /\ m \in Nat /\ m >= 1 /\ f \in LoopFrame
    BY DEF Contexts
  <1>2. t = [s EXCEPT ![m] = [f EXCEPT !.index = f.index + 1]]
    BY DEF AdvanceLoop, SetVariable, Top, Contexts
  <1>3. /\ Len(t) = m /\ \A k \in 1..(m - 1) : t[k] = s[k]
        /\ t[m].item = f.item /\ t[m].previous = f.previous
        /\ t[m].values = f.values /\ t[m].index = f.index + 1
    <2> DEFINE g == [f EXCEPT !.index = f.index + 1]
    <2>1. /\ g.item = f.item /\ g.previous = f.previous
          /\ g.values = f.values /\ g.index = f.index + 1
      BY <1>1 DEF LoopFrame
    <2>2. t = [s EXCEPT ![m] = g]
      BY <1>2
    <2> HIDE DEF g, f, t, s, d
    <2>3. Len(t) = m /\ t[m] = g /\ \A k \in 1..(m - 1) : t[k] = s[k]
      BY <1>1, <2>2
    <2> QED
      BY <2>1, <2>3
  <1>4. /\ d.variables[f.item] = Scalar(f.values[f.index + 2])
        /\ \A y \in Strs : y # f.item => d.variables[y] = c.variables[y]
    BY <1>1 DEF AdvanceLoop, SetVariable, Top, Contexts, LoopFrame
  <1>5. \A k \in 1..m : t[k].item = s[k].item /\ t[k].previous = s[k].previous
    BY <1>1, <1>3
  <1> HIDE DEF d, s, f
  <1>6. Under(t, m, x, d.variables[x])
    <2>1. CASE x = f.item
      <3>1. m \in {k \in 1..m : t[k].item = x}
        BY <1>1, <1>3, <2>1
      <3>2. \A k \in 1..m : m <= k => k = m
        BY <1>1
      <3>3. t[m].index + 1 = f.index + 2
        BY <1>1, <1>3 DEF LoopFrame
      <3> QED
        BY <1>3, <1>4, <2>1, <3>1, <3>2, <3>3 DEF Under
    <2>2. CASE x # f.item
      <3>1. {k \in 1..m : t[k].item = x} = {k \in 1..(m - 1) : s[k].item = x}
        BY <1>1, <1>3, <2>2
      <3>2. {k \in 1..m : s[k].item = x} = {k \in 1..(m - 1) : s[k].item = x}
        BY <1>1, <1>3, <1>5, <2>2
      <3>3. \A k \in 1..(m - 1) : t[k] = s[k]
        BY <1>3
      <3>4. Under(s, m, x, c.variables[x])
        BY DEF Binds, s
      <3> QED
        BY <1>4, <2>2, <3>1, <3>2, <3>3, <3>4 DEF Under
    <2> QED
      BY <2>1, <2>2
  <1>7. ASSUME NEW k \in 1..m, t[k].item = x
        PROVE  Under(t, k - 1, x, t[k].previous)
    <2>1. Under(s, k - 1, x, t[k].previous)
      BY <1>5, <1>7 DEF Binds, s
    <2>2. k - 1 \in Nat /\ \A j \in 1..(k - 1) : t[j] = s[j]
      BY <1>1, <1>3
    <2> QED
      BY <2>1, <2>2, UnderAgrees
  <1> QED
    BY <1>3, <1>6, <1>7 DEF Binds, d

LEMMA LeaveBinds ==
    ASSUME NEW c \in Contexts, c.loop_stack # << >>, NEW x \in Strs, Binds(c, x)
    PROVE  Binds(LeaveLoop(c), x)
  <1> DEFINE d == LeaveLoop(c)
             s == c.loop_stack
             t == d.loop_stack
             m == Len(s)
             f == s[m]
  <1>1. s \in Seq(LoopFrame) /\ m \in Nat /\ m >= 1 /\ f \in LoopFrame
    BY DEF Contexts
  <1>2. t = SubSeq(s, 1, m - 1)
    BY DEF LeaveLoop, RestoreOrRemoveVariable, Pop, Contexts
  <1>3. Len(t) = m - 1 /\ \A k \in 1..(m - 1) : t[k] = s[k]
    BY <1>1, <1>2
  <1>4. /\ d.variables[f.item] = f.previous
        /\ \A y \in Strs : y # f.item => d.variables[y] = c.variables[y]
    BY <1>1 DEF LeaveLoop, RestoreOrRemoveVariable, Top, Contexts, LoopFrame
  <1> HIDE DEF d, s, f
  <1>5. Under(s, m - 1, x, d.variables[x])
    <2>1. CASE x = f.item
      BY <1>1, <1>4, <2>1 DEF Binds, s, f
    <2>2. CASE x # f.item
      <3>1. {k \in 1..m : s[k].item = x} = {k \in 1..(m - 1) : s[k].item = x}
        BY <1>1, <2>2 DEF f
      <3>2. Under(s, m, x, c.variables[x])
        BY DEF Binds, s
      <3> QED
        BY <1>4, <2>2, <3>1, <3>2 DEF Under
    <2> QED
      BY <2>1, <2>2
  <1>6. Under(t, m - 1, x, d.variables[x])
    BY <1>1, <1>3, <1>5, UnderAgrees
  <1>7. ASSUME NEW k \in 1..(m - 1), t[k].item = x
        PROVE  Under(t, k - 1, x, t[k].previous)
    <2>1. Under(s, k - 1, x, t[k].previous)
      BY <1>1, <1>3, <1>7 DEF Binds, s
    <2>2. k - 1 \in Nat /\ \A j \in 1..(k - 1) : t[j] = s[j]
      BY <1>1, <1>3
    <2> QED
      BY <2>1, <2>2, UnderAgrees
  <1> QED
    BY <1>3, <1>6, <1>7 DEF Binds, d

LoopInv == \A x \in Strs : ~ BoundOtherwise(prog, x) => Binds(context, x)

LEMMA LoopInvInit == Init => LoopInv
  BY DEF Init, LoopInv, Binds, Under, FromSpec

LEMMA LoopInvStep ==
    ASSUME TypeOK, LoopInv, [Next]_vars
    PROVE  LoopInv'
  <1> SUFFICES ASSUME NEW x \in Strs, ~ BoundOtherwise(prog', x) PROVE Binds(context', x)
    BY DEF LoopInv
  <1>0. context \in Contexts /\ pc \in Nat
    BY DEF TypeOK
  <1>1. Binds(context, x) /\ ~ BoundOtherwise(prog, x)
    BY NextLoops DEF LoopInv
  <1>2. CASE Ordinary
    BY <1>1, <1>2 DEF Ordinary, SameStack, WritesNoItem, Binds
  <1>3. CASE Enters
    <2>1. Here.end_pc \in Nat
      BY <1>3, HereType DEF Enters, AtCode, IsFor, Instr
    <2> QED
      BY <1>0, <1>1, <1>3, <2>1, EnterBinds DEF Enters
  <1>4. CASE Advances
    BY <1>0, <1>1, <1>4, AdvanceBinds DEF Advances, InLoop
  <1>5. CASE Leaves
    BY <1>0, <1>1, <1>5, LeaveBinds DEF Leaves, InLoop
  <1> QED
    BY <1>2, <1>3, <1>4, <1>5, NextLoops DEF LoopStep

\* A variable that only loops bind has the current item of its innermost frame,
\* and outside of them the value it had before the run, whatever breaks,
\* continues and jumps a program makes, well shaped or not.
THEOREM LoopsBind == Spec => []LoopBinding
  <1>1. LoopInv => LoopBinding
    BY DEF LoopInv, Binds, Under, LoopBinding
  <1> QED
    BY <1>1, LoopInvInit, LoopInvStep, TypeCorrect, PTL DEF Spec

-----------------------------------------------------------------------------
(* Programs of compiler shape: which loops enclose the pcs that a step goes *)
(* to.                                                                     *)

LEMMA ForBounds ==
    ASSUME NEW p, IsProgram(p), NEW f, ForAt(p, f)
    PROVE  /\ f \in Nat /\ f + 1 \in 1..Len(p.code) /\ p.code[f + 1] \in Instr
           /\ EndOf(p, f) \in Nat
  <1>1. f \in Nat /\ f + 1 \in 1..Len(p.code) /\ p.code \in Seq(Instr)
    BY DEF ForAt, IsProgram
  <1>2. p.code[f + 1] \in Instr
    BY <1>1
  <1> QED
    BY <1>1, <1>2 DEF ForAt, EndOf, Instr

\* Both ends of a loop are at the level of the loop itself, its head is inside.
LEMMA LoopEnds ==
    ASSUME NEW p, IsProgram(p), Structured(p), NEW f, ForAt(p, f)
    PROVE  /\ f + 1 < EndOf(p, f) /\ EndOf(p, f) <= Len(p.code)
           /\ p.code[EndOf(p, f)].op = "LoopBack"
           /\ Enclosing(p, EndOf(p, f)) = Enclosing(p, f)
           /\ \A g : ForAt(p, g) /\ Inside(p, f, g) => EndOf(p, g) < EndOf(p, f)
  BY DEF Structured, ForAt

\* No loop begins or ends at an ordinary instruction.
LEMMA SameLevelNext ==
    ASSUME NEW p, IsProgram(p), Structured(p), NEW q \in 0..(Len(p.code) - 1),
           ~ IsFor(p.code[q + 1]), p.code[q + 1].op # "LoopBack"
    PROVE  Enclosing(p, q + 1) = Enclosing(p, q)
  <1>1. q \in Nat
    BY DEF IsProgram
  <1>2. ASSUME NEW f, ForAt(p, f) PROVE Inside(p, f, q + 1) <=> Inside(p, f, q)
    <2>1. f \in Nat /\ EndOf(p, f) \in Nat
      BY <1>2, ForBounds
    <2>2. f # q /\ EndOf(p, f) # q + 1
      BY <1>2, LoopEnds DEF ForAt, IsFor
    <2> QED
      BY <1>1, <2>1, <2>2 DEF Inside
  <1> QED
    BY <1>2 DEF Enclosing

LEMMA EnterLevel ==
    ASSUME NEW p, IsProgram(p), Structured(p), NEW q, ForAt(p, q)
    PROVE  Enclosing(p, q + 1) = Enclosing(p, q) \cup {q}
  <1>1. q \in Nat /\ EndOf(p, q) \in Nat /\ q + 1 < EndOf(p, q)
    BY ForBounds, LoopEnds
  <1>2. ASSUME NEW f, ForAt(p, f)
        PROVE  Inside(p, f, q + 1) <=> (Inside(p, f, q) \/ f = q)
    <2>1. f \in Nat /\ EndOf(p, f) \in Nat
      BY <1>2, ForBounds
    <2>2. EndOf(p, f) # q + 1
      BY <1>2, LoopEnds DEF ForAt
    <2> QED
      BY <1>1, <2>1, <2>2 DEF Inside
  <1>3. q \in 0..(Len(p.code) - 1)
    BY DEF ForAt
  <1> QED
    BY <1>2, <1>3 DEF Enclosing

\* f is the innermost loop around q.
Innermost(p, q, f) == f \in Enclosing(p, q) /\ \A g \in Enclosing(p, q) : g <= f

LEMMA InnermostLevel ==
    ASSUME NEW p, IsProgram(p), Structured(p), NEW q \in Nat, NEW f, Innermost(p, q, f)
    PROVE  Enclosing(p, q) = Enclosing(p, f) \cup {f} /\ f \notin Enclosing(p, f)
  <1>1. ForAt(p, f) /\ f \in Nat /\ EndOf(p, f) \in Nat /\ f < q /\ q < EndOf(p, f)
    BY ForBounds DEF Innermost, Enclosing, Inside
  <1>2. ASSUME NEW g \in Enclosing(p, q), g # f PROVE g \in Enclosing(p, f)
    <2>1. ForAt(p, g) /\ g \in Nat /\ EndOf(p, g) \in Nat /\ g < q /\ q < EndOf(p, g)
      BY ForBounds DEF Enclosing, Inside
    <2>2. g < f
      BY <1>1, <1>2, <2>1 DEF Innermost
    <2> QED
      BY <1>1, <2>1, <2>2 DEF Enclosing, Inside
  <1>3. ASSUME NEW g \in Enclosing(p, f) PROVE g \in Enclosing(p, q)
    <2>1. ForAt(p, g) /\ g \in Nat /\ EndOf(p, g) \in Nat /\ g < f /\ f < EndOf(p, g)
      BY ForBounds DEF Enclosing, Inside
    <2>2. EndOf(p, f) < EndOf(p, g)
      BY <1>1, <2>1, LoopEnds DEF Inside
    <2> QED
      BY <1>1, <1>3, <2>1, <2>2 DEF Enclosing, Inside
  <1>4. f \notin Enclosing(p, f)
    BY <1>1 DEF Enclosing, Inside
  <1> QED
    BY <1>2, <1>3, <1>4 DEF Innermost

\* A loop is the innermost one at its own loop_back.
LEMMA BackInnermost ==
    ASSUME NEW p, IsProgram(p), Structured(p), NEW f, ForAt(p, f)
    PROVE  Innermost(p, EndOf(p, f) - 1, f)
  <1>1. f \in Nat /\ EndOf(p, f) \in Nat /\ f + 1 < EndOf(p, f) /\ f \in 0..(Len(p.code) - 1)
    BY ForBounds, LoopEnds DEF ForAt
  <1>2. f \in Enclosing(p, EndOf(p, f) - 1)
    BY <1>1 DEF Enclosing, Inside
  <1>3. ASSUME NEW g \in Enclosing(p, EndOf(p, f) - 1), ~ (g <= f) PROVE FALSE
    <2>1. /\ ForAt(p, g) /\ g \in Nat /\ EndOf(p, g) \in Nat
          /\ g < EndOf(p, f) - 1 /\ EndOf(p, f) - 1 < EndOf(p, g)
      BY ForBounds DEF Enclosing, Inside
    <2>2. Inside(p, f, g)
      BY <1>1, <1>3, <2>1 DEF Inside
    <2>3. EndOf(p, g) < EndOf(p, f)
      BY <2>1, <2>2, LoopEnds
    <2> QED
      BY <1>1, <2>1, <2>3
  <1> QED
    BY <1>2, <1>3 DEF Innermost

LEMMA BackLoop ==
    ASSUME NEW p, IsProgram(p), Structured(p), NEW q \in 0..(Len(p.code) - 1),
           p.code[q + 1].op = "LoopBack"
    PROVE  \E f : ForAt(p, f) /\ EndOf(p, f) = q + 1 /\ Innermost(p, q, f)
  <1>1. PICK f \in 0..(Len(p.code) - 1) : ForAt(p, f) /\ EndOf(p, f) = q + 1
    BY DEF Structured
  <1>2. Innermost(p, EndOf(p, f) - 1, f)
    BY <1>1, BackInnermost
  <1>3. EndOf(p, f) - 1 = q
    BY <1>1
  <1> QED
    BY <1>1, <1>2, <1>3

-----------------------------------------------------------------------------
(* The stack is the loops around pc.                                       *)

\* StackIsNesting is inductive with where `continue` goes.
Nests(p, stack, q) ==
    /\ {stack[k].head_pc - 1 : k \in 1..Len(stack)} = Enclosing(p, q)
    /\ \A k \in 1..Len(stack) :
          /\ stack[k].end_pc = EndOf(p, stack[k].head_pc - 1)
          /\ stack[k].continue_pc = stack[k].end_pc - 1
          /\ \A j \in 1..(k - 1) : stack[j].head_pc < stack[k].head_pc

\* The top frame is the innermost loop.
LEMMA TopInnermost ==
    ASSUME NEW p, IsProgram(p), NEW s \in Seq(LoopFrame), s # << >>, NEW q, Nests(p, s, q)
    PROVE  LET f == s[Len(s)].head_pc - 1 IN
           /\ Innermost(p, q, f) /\ s[Len(s)].end_pc = EndOf(p, f)
           /\ s[Len(s)].continue_pc = EndOf(p, f) - 1
  <1> DEFINE f == s[Len(s)].head_pc - 1
  <1>1. Len(s) \in 1..Len(s)
    OBVIOUS
  <1>2. \A k \in 1..Len(s) : s[k].head_pc \in Nat /\ s[k].head_pc <= s[Len(s)].head_pc
    <2> TAKE k \in 1..Len(s)
    <2>1. s[k] \in LoopFrame /\ s[Len(s)] \in LoopFrame
      BY <1>1
    <2>2. s[k].head_pc \in Nat /\ s[Len(s)].head_pc \in Nat
      BY <2>1 DEF LoopFrame
    <2>3. k = Len(s) \/ k \in 1..(Len(s) - 1)
      BY <1>1
    <2> QED
      BY <1>1, <2>2, <2>3 DEF Nests
  <1>3. f \in Enclosing(p, q)
    BY <1>1 DEF Nests
  <1>4. ASSUME NEW g \in Enclosing(p, q) PROVE g <= f
    <2>1. PICK k \in 1..Len(s) : g = s[k].head_pc - 1
      BY DEF Nests
    <2> QED
      BY <1>1, <1>2, <2>1
  <1>5. s[Len(s)].end_pc = EndOf(p, f) /\ s[Len(s)].continue_pc = EndOf(p, f) - 1
    BY <1>1 DEF Nests
  <1> QED
    BY <1>3, <1>4, <1>5 DEF Innermost

\* The frames below it are the loops around that loop.
LEMMA PopNests ==
    ASSUME NEW p, IsProgram(p), Structured(p), NEW s \in Seq(LoopFrame), s # << >>,
           NEW q \in Nat, Nests(p, s, q)
    PROVE  Nests(p, SubSeq(s, 1, Len(s) - 1), s[Len(s)].end_pc)
  <1> DEFINE m == Len(s)
             f == s[m].head_pc - 1
             t == SubSeq(s, 1, m - 1)
  <1>1. m \in Nat /\ m >= 1 /\ Len(t) = m - 1 /\ \A k \in 1..(m - 1) : t[k] = s[k]
    <2>1. m \in Nat /\ m >= 1
      OBVIOUS
    <2>2. \A i \in 1..(m - 1) : s[i] \in LoopFrame
      BY <2>1
    <2> HIDE DEF m
    <2> QED
      BY <2>1, <2>2, SubSeqProperties
  <1>2. Innermost(p, q, f) /\ s[m].end_pc = EndOf(p, f) /\ ForAt(p, f)
    BY TopInnermost DEF Innermost, Enclosing
  <1>3. Enclosing(p, s[m].end_pc) = Enclosing(p, q) \ {f}
    BY <1>2, InnermostLevel, LoopEnds
  <1>4. \A k \in 1..m : s[k].head_pc \in Nat
    <2>1. \A k \in 1..m : s[k] \in LoopFrame
      OBVIOUS
    <2> QED
      BY <2>1 DEF LoopFrame
  <1>5. \A k \in 1..(m - 1) : s[k].head_pc < s[m].head_pc
    BY <1>1 DEF Nests
  <1>6. {t[k].head_pc - 1 : k \in 1..Len(t)} = {s[k].head_pc - 1 : k \in 1..m} \ {f}
    <2>1. ASSUME NEW k \in 1..(m - 1)
          PROVE  t[k].head_pc - 1 = s[k].head_pc - 1 /\ s[k].head_pc - 1 # f /\ k \in 1..m
      BY <1>1, <1>4, <1>5
    <2>2. \A k \in 1..m : k \in 1..(m - 1) \/ k = m
      BY <1>1
    <2> HIDE DEF t, f, m
    <2> QED
      BY <1>1, <2>1, <2>2 DEF f
  <1>7. \A k \in 1..Len(t) :
          /\ t[k].end_pc = EndOf(p, t[k].head_pc - 1)
          /\ t[k].continue_pc = t[k].end_pc - 1
          /\ \A j \in 1..(k - 1) : t[j].head_pc < t[k].head_pc
    BY <1>1 DEF Nests
  <1> QED
    BY <1>3, <1>6, <1>7 DEF Nests

NestInv ==
    /\ phase \in {"load", "precheck"} => pc = 0 /\ context.loop_stack = << >>
    /\ Structured(prog) =>
          /\ result.why # "outside_loop"
          /\ phase = "run" => Nests(prog, context.loop_stack, pc)

LEMMA NestInvInit == Init => NestInv
  BY DEF Init, NestInv, NoResult, FromSpec

\* Before the first instruction there is no frame and no loop.
LEMMA StartNests ==
    ASSUME NEW p, IsProgram(p)
    PROVE  Nests(p, << >>, 0)
  <1>1. Enclosing(p, 0) = {}
    <2> SUFFICES ASSUME NEW f \in Enclosing(p, 0) PROVE FALSE
      OBVIOUS
    <2>1. f \in Nat /\ f < 0
      BY ForBounds DEF Enclosing, Inside
    <2> QED
      BY <2>1
  <1> QED
    BY <1>1 DEF Nests

\* The steps that leave the stack alone go to a pc inside the same loops.
LEMMA MovesNest ==
    ASSUME TypeOK, NestInv, Moves, SameStack, prog' = prog, Structured(prog)
    PROVE  /\ result'.why # "outside_loop"
           /\ phase' = "run" => Nests(prog, context.loop_stack, pc')
  <1> DEFINE s == context.loop_stack
  <1>0. /\ pc \in Nat /\ IsProgram(prog) /\ s \in Seq(LoopFrame)
        /\ result.why # "outside_loop"
        /\ phase = "run" => Nests(prog, s, pc)
    BY DEF TypeOK, Contexts, NestInv
  <1>1. AtCode => pc \in 0..(Len(prog.code) - 1) /\ Here = prog.code[pc + 1] /\ phase = "run"
    BY <1>0 DEF AtCode, Here, IsProgram
  <1> HIDE DEF s
  <1>2. CASE Starts
    <2>1. pc = 0 /\ s = << >>
      BY <1>2 DEF Starts, NestInv, s
    <2> QED
      BY <1>0, <1>2, <2>1, StartNests DEF Starts, s
  <1>3. CASE Waits
    BY <1>0, <1>3 DEF Waits, s
  <1>4. CASE StepsOn
    <2>1. Enclosing(prog, pc + 1) = Enclosing(prog, pc)
      BY <1>0, <1>1, <1>4, SameLevelNext DEF StepsOn
    <2> QED
      BY <1>0, <1>1, <1>4, <2>1 DEF StepsOn, Nests, s
  <1>5. CASE Branches
    <2>1. Enclosing(prog, Here.else_pc) = Enclosing(prog, pc)
      BY <1>1, <1>5 DEF Branches, Structured
    <2> QED
      BY <1>0, <1>1, <1>5, <2>1 DEF Branches, Nests, s
  <1>6. CASE Skips
    <2>1. ForAt(prog, pc) /\ EndOf(prog, pc) = Here.end_pc
      BY <1>1, <1>6 DEF Skips, ForAt, EndOf, IsFor
    <2>2. Enclosing(prog, Here.end_pc) = Enclosing(prog, pc)
      BY <1>0, <2>1, LoopEnds
    <2> QED
      BY <1>0, <1>1, <1>6, <2>2 DEF Skips, Nests, s
  <1>7. CASE Continues
    <2> DEFINE f == s[Len(s)].head_pc - 1
    <2>1. s # << >> /\ Nests(prog, s, pc) /\ pc' = s[Len(s)].continue_pc
      BY <1>0, <1>1, <1>7 DEF Continues, InLoop, Top, s
    <2>2. /\ Innermost(prog, pc, f) /\ s[Len(s)].continue_pc = EndOf(prog, f) - 1
          /\ ForAt(prog, f)
      BY <1>0, <2>1, TopInnermost DEF Innermost, Enclosing
    <2>3. EndOf(prog, f) - 1 \in Nat
      BY <1>0, <2>2, ForBounds, LoopEnds
    <2> HIDE DEF f
    <2>4. Enclosing(prog, pc') = Enclosing(prog, pc)
      <3>1. Innermost(prog, EndOf(prog, f) - 1, f)
        BY <1>0, <2>2, BackInnermost
      <3>2. Enclosing(prog, EndOf(prog, f) - 1) = Enclosing(prog, f) \cup {f}
        BY <1>0, <2>3, <3>1, InnermostLevel
      <3>3. Enclosing(prog, pc) = Enclosing(prog, f) \cup {f}
        BY <1>0, <2>2, InnermostLevel
      <3> QED
        BY <2>1, <2>2, <3>2, <3>3
    <2> QED
      BY <1>0, <1>7, <2>1, <2>4 DEF Continues, Nests, s
  <1>8. CASE Ends
    <2> SUFFICES ASSUME result'.why = "outside_loop" PROVE FALSE
      BY <1>8 DEF Ends
    <2>1. AtCode /\ Here.op \in {"LoopBack", "Break", "Continue"} /\ s = << >>
      BY <1>8 DEF Ends, InLoop, s
    <2>2. Enclosing(prog, pc) = {}
      BY <1>0, <1>1, <2>1 DEF Nests
    <2>3. CASE Here.op = "LoopBack"
      BY <1>0, <1>1, <2>1, <2>2, <2>3, BackLoop DEF Innermost
    <2>4. CASE Here.op \in {"Break", "Continue"}
      BY <1>1, <2>1, <2>2, <2>4 DEF Structured
    <2> QED
      BY <2>1, <2>3, <2>4
  <1> QED
    BY <1>2, <1>3, <1>4, <1>5, <1>6, <1>7, <1>8 DEF Moves

LEMMA EntersNest ==
    ASSUME TypeOK, NestInv, Enters, Structured(prog)
    PROVE  Nests(prog, context'.loop_stack, pc')
  <1> DEFINE s == context.loop_stack
             t == context'.loop_stack
             m == Len(s)
  <1>0. /\ pc \in Nat /\ IsProgram(prog) /\ s \in Seq(LoopFrame) /\ m \in Nat
        /\ Nests(prog, s, pc) /\ context \in Contexts /\ pc' = pc + 1
    BY DEF TypeOK, Contexts, NestInv, Enters, AtCode
  <1>1. ForAt(prog, pc) /\ EndOf(prog, pc) = Here.end_pc
    BY <1>0 DEF Enters, AtCode, IsFor, ForAt, EndOf, Here, IsProgram
  <1>2. Here.end_pc \in Nat /\ Here.end_pc # 0 /\ Enclosing(prog, pc + 1) = Enclosing(prog, pc) \cup {pc}
    BY <1>0, <1>1, ForBounds, LoopEnds, EnterLevel
  <1>3. /\ Len(t) = m + 1 /\ \A k \in 1..m : t[k] = s[k]
        /\ t[m + 1].head_pc = pc + 1 /\ t[m + 1].end_pc = Here.end_pc
        /\ t[m + 1].continue_pc = Here.end_pc - 1
    <2>1. PICK x \in Strs, l \in Seq(Strs) : context' = EnterForeach(context, x, l, pc, Here.end_pc)
      BY DEF Enters
    <2> QED
      BY <1>0, <1>2, <2>1 DEF EnterForeach, SetVariable, Contexts
  <1> HIDE DEF s, t, m
  <1>4. ASSUME NEW k \in 1..m PROVE s[k].head_pc - 1 < pc /\ s[k].head_pc \in Nat
    <2>1. s[k] \in LoopFrame
      BY <1>0 DEF m
    <2>2. s[k].head_pc - 1 \in Enclosing(prog, pc)
      BY <1>0 DEF Nests, m
    <2> QED
      BY <2>1, <2>2 DEF Enclosing, Inside, LoopFrame
  <1>5. {t[k].head_pc - 1 : k \in 1..Len(t)} = {s[k].head_pc - 1 : k \in 1..m} \cup {pc}
    <2>1. \A k \in 1..(m + 1) : k \in 1..m \/ k = m + 1
      BY <1>0
    <2>2. m + 1 \in 1..(m + 1) /\ \A k \in 1..m : k \in 1..(m + 1)
      BY <1>0
    <2>3. t[m + 1].head_pc - 1 = pc
      BY <1>0, <1>3
    <2> QED
      BY <1>3, <2>1, <2>2, <2>3
  <1>6. ASSUME NEW k \in 1..Len(t)
        PROVE  /\ t[k].end_pc = EndOf(prog, t[k].head_pc - 1)
               /\ t[k].continue_pc = t[k].end_pc - 1
               /\ \A j \in 1..(k - 1) : t[j].head_pc < t[k].head_pc
    <2>1. CASE k \in 1..m
      <3>1. t[k] = s[k] /\ \A j \in 1..(k - 1) : t[j] = s[j]
        BY <1>0, <1>3, <2>1
      <3> QED
        BY <1>0, <2>1, <3>1 DEF Nests, m
    <2>2. CASE k = m + 1
      <3>0. t[k].head_pc = pc + 1
        BY <1>3, <2>2
      <3>1. t[k].head_pc - 1 = pc
        BY <1>0, <3>0
      <3>2. \A j \in 1..(k - 1) : t[j].head_pc < t[k].head_pc
        BY <1>0, <1>3, <1>4, <2>2, <3>0
      <3> QED
        BY <1>1, <1>3, <2>2, <3>1, <3>2
    <2> QED
      BY <1>0, <1>3, <2>1, <2>2
  <1> QED
    BY <1>0, <1>2, <1>5, <1>6 DEF Nests, t, s, m

LEMMA AdvancesNest ==
    ASSUME TypeOK, NestInv, Advances, Structured(prog)
    PROVE  Nests(prog, context'.loop_stack, pc')
  <1> DEFINE s == context.loop_stack
             t == context'.loop_stack
             m == Len(s)
             f == s[m].head_pc - 1
  <1>0. /\ pc \in Nat /\ IsProgram(prog) /\ s \in Seq(LoopFrame) /\ s # << >> /\ m \in Nat /\ m >= 1
        /\ Nests(prog, s, pc) /\ context \in Contexts /\ pc' = s[m].head_pc
    BY DEF TypeOK, Contexts, NestInv, Advances, AtCode, InLoop, Top
  <1>1. s[m] \in LoopFrame
    BY <1>0
  <1>2. t = [s EXCEPT ![m] = [s[m] EXCEPT !.index = s[m].index + 1]]
    BY <1>0 DEF Advances, AdvanceLoop, SetVariable, Top, Contexts
  <1>3. /\ Len(t) = m
        /\ \A k \in 1..m : /\ t[k].head_pc = s[k].head_pc /\ t[k].end_pc = s[k].end_pc
                           /\ t[k].continue_pc = s[k].continue_pc
    <2> DEFINE g == [s[m] EXCEPT !.index = s[m].index + 1]
    <2>1. g.head_pc = s[m].head_pc /\ g.end_pc = s[m].end_pc /\ g.continue_pc = s[m].continue_pc
      BY <1>1 DEF LoopFrame
    <2>2. t = [s EXCEPT ![m] = g]
      BY <1>2
    <2> HIDE DEF g, t, s
    <2>3. Len(t) = m /\ t[m] = g /\ \A k \in 1..m : k # m => t[k] = s[k]
      BY <1>0, <2>2
    <2> QED
      BY <2>1, <2>3
  <1>4. Innermost(prog, pc, f) /\ ForAt(prog, f)
    BY <1>0, TopInnermost DEF Innermost, Enclosing
  <1>5. pc' = f + 1 /\ Enclosing(prog, pc') = Enclosing(prog, pc)
    <2>1. pc' = f + 1
      BY <1>0, <1>1 DEF LoopFrame
    <2> HIDE DEF f
    <2>2. Enclosing(prog, f + 1) = Enclosing(prog, f) \cup {f}
      BY <1>0, <1>4, EnterLevel
    <2>3. Enclosing(prog, pc) = Enclosing(prog, f) \cup {f}
      BY <1>0, <1>4, InnermostLevel
    <2> QED
      BY <2>1, <2>2, <2>3
  <1> HIDE DEF s, t, m
  <1>6. {t[k].head_pc - 1 : k \in 1..Len(t)} = {s[k].head_pc - 1 : k \in 1..m}
    BY <1>3
  <1>7. ASSUME NEW k \in 1..Len(t)
        PROVE  /\ t[k].end_pc = EndOf(prog, t[k].head_pc - 1)
               /\ t[k].continue_pc = t[k].end_pc - 1
               /\ \A j \in 1..(k - 1) : t[j].head_pc < t[k].head_pc
    <2>1. k \in 1..m /\ \A j \in 1..(k - 1) : j \in 1..m
      BY <1>0, <1>3
    <2> QED
      BY <1>0, <1>3, <2>1 DEF Nests, m
  <1> QED
    BY <1>0, <1>5, <1>6, <1>7 DEF Nests, t, s, m

LEMMA LeavesNest ==
    ASSUME TypeOK, NestInv, Leaves, Structured(prog)
    PROVE  Nests(prog, context'.loop_stack, pc')
  <1> DEFINE s == context.loop_stack
  <1>0. /\ pc \in Nat /\ IsProgram(prog) /\ s \in Seq(LoopFrame) /\ s # << >>
        /\ Nests(prog, s, pc) /\ context \in Contexts /\ pc' = s[Len(s)].end_pc
    BY DEF TypeOK, Contexts, NestInv, Leaves, AtCode, InLoop, Top
  <1>1. context'.loop_stack = SubSeq(s, 1, Len(s) - 1)
    BY <1>0 DEF Leaves, LeaveLoop, RestoreOrRemoveVariable, Pop, Contexts
  <1> QED
    BY <1>0, <1>1, PopNests

LEMMA NestInvStep ==
    ASSUME TypeOK, NestInv, [Next]_vars
    PROVE  NestInv'
  <1>1. LoopStep /\ prog' = prog
    BY NextLoops
  <1>2. phase' \in {"load", "precheck"} => pc' = 0 /\ context'.loop_stack = << >>
    BY <1>1
    DEF LoopStep, Ordinary, SameStack, Moves, Starts, Waits, StepsOn, Branches, Skips, Continues,
        Ends, Enters, Advances, Leaves, NestInv
  <1>3. ASSUME Structured(prog')
        PROVE  /\ result'.why # "outside_loop"
               /\ phase' = "run" => Nests(prog', context'.loop_stack, pc')
    <2>0. Structured(prog) /\ result.why # "outside_loop"
      BY <1>1, <1>3 DEF NestInv
    <2>1. CASE Ordinary /\ Moves
      BY <1>1, <2>0, <2>1, MovesNest DEF Ordinary, SameStack
    <2>2. CASE Enters
      BY <1>1, <2>0, <2>2, EntersNest DEF Enters
    <2>3. CASE Advances
      BY <1>1, <2>0, <2>3, AdvancesNest DEF Advances
    <2>4. CASE Leaves
      BY <1>1, <2>0, <2>4, LeavesNest DEF Leaves
    <2> QED
      BY <1>1, <2>1, <2>2, <2>3, <2>4 DEF LoopStep
  <1> QED
    BY <1>2, <1>3 DEF NestInv

\* In every program of the shape the loop operations are written for, the loop
\* stack is at every step the loops around pc, and no loop instruction is ever
\* reached outside of a loop.
THEOREM StackNests == Spec => []StackIsNesting
  <1>1. NestInv => StackIsNesting
    BY DEF NestInv, Nests, StackIsNesting
  <1> QED
    BY <1>1, NestInvInit, NestInvStep, TypeCorrect, PTL DEF Spec

-----------------------------------------------------------------------------
(* What a step can do to the responses, the sessions and the contacts.     *)

NoResponseChanges == /\ context'.responses = context.responses
                     /\ context'.sessions \subseteq context.sessions
Aliases == /\ At("Save") /\ contacted' = contacted
           /\ context' = AliasResponse(context, Text(Here.from), Text(Here.to))
Receives == \E n \in DOMAIN prog.probes, o \in BOOLEAN, facts \in SUBSET Facts :
                context' = Received(n, o, facts)
Contacts == contacted' = contacted \/ \E n : contacted' = contacted \cup Connects(n)

SendStep == NoResponseChanges \/ Aliases \/ Receives

LEMMA KeepsResponses ==
    ASSUME NEW c \in Contexts
    PROVE  /\ \A n, s : /\ SetVariable(c, n, s).responses = c.responses
                        /\ SetVariable(c, n, s).sessions = c.sessions
           /\ \A n, s : /\ SetListVariable(c, n, s).responses = c.responses
                        /\ SetListVariable(c, n, s).sessions = c.sessions
           /\ \A n, x, f, e : /\ EnterForeach(c, n, x, f, e).responses = c.responses
                              /\ EnterForeach(c, n, x, f, e).sessions = c.sessions
           /\ AdvanceLoop(c).responses = c.responses /\ AdvanceLoop(c).sessions = c.sessions
           /\ LeaveLoop(c).responses = c.responses /\ LeaveLoop(c).sessions = c.sessions
           /\ CloseSessions(c).responses = c.responses /\ CloseSessions(c).sessions = {}
           /\ \A m \in BOOLEAN : /\ [c EXCEPT !.matched = m].responses = c.responses
                                 /\ [c EXCEPT !.matched = m].sessions = c.sessions
           /\ \A e : /\ [c EXCEPT !.evidence = e].responses = c.responses
                     /\ [c EXCEPT !.evidence = e].sessions = c.sessions
           /\ \A d : /\ [c EXCEPT !.retry_delay = d].responses = c.responses
                     /\ [c EXCEPT !.retry_delay = d].sessions = c.sessions
           /\ [c EXCEPT !.emit_finding = FALSE].responses = c.responses
           /\ [c EXCEPT !.failed = TRUE].responses = c.responses
           /\ [c EXCEPT !.failed = TRUE].sessions = c.sessions
  BY DEF Contexts, SetVariable, SetListVariable, EnterForeach, AdvanceLoop, LeaveLoop,
         RestoreOrRemoveVariable, CloseSessions

LEMMA GotoSends ==
    ASSUME NEW target, NEW c, Goto(target, c),
           c.responses = context.responses, c.sessions \subseteq context.sessions
    PROVE  SendStep /\ Contacts
  BY DEF Goto, Proceed, SendStep, NoResponseChanges, Contacts

LEMMA AbortSends ==
    ASSUME NEW cause, Abort(cause)
    PROVE  SendStep /\ Contacts
  BY DEF Abort, End, SendStep, NoResponseChanges, Contacts

LEMMA ConcludeSends ==
    ASSUME NEW c \in Contexts, Conclude(c), c.responses = context.responses
    PROVE  SendStep /\ Contacts
  BY KeepsResponses DEF Conclude, End, SendStep, NoResponseChanges, Contacts

LEMMA ApplyVerdictSends ==
    ASSUME context \in Contexts, NEW verdict, ApplyVerdict(verdict)
    PROVE  SendStep /\ Contacts
  BY GotoSends, AbortSends, KeepsResponses DEF ApplyVerdict

LEMMA EnterSends ==
    ASSUME context \in Contexts, NEW n, NEW l, NEW end, Enter(n, l, end)
    PROVE  SendStep /\ Contacts
  BY GotoSends, KeepsResponses DEF Enter

LEMMA InstructionSends ==
    ASSUME TypeOK, Instruction
    PROVE  SendStep /\ Contacts
  <1>0. context \in Contexts
    BY DEF TypeOK
  <1>1. CASE Set \/ SetList
    BY <1>0, <1>1, GotoSends, AbortSends, KeepsResponses DEF Set, SetList
  <1>2. CASE Send
    <2>1. Contacts
      BY <1>2 DEF Send, Contacts
    <2>2. CASE End(Failure("error", "probe"), context)
      BY <2>1, <2>2 DEF End, SendStep, NoResponseChanges
    <2>3. ASSUME CanSend(Text(Here.probe)), NEW facts \in SUBSET Facts,
                 Proceed(pc + 1, Received(Text(Here.probe), Here.payload # None, facts))
          PROVE  SendStep
      <3>1. Text(Here.probe) \in DOMAIN prog.probes /\ (Here.payload # None) \in BOOLEAN
        BY <2>3 DEF CanSend
      <3> QED
        BY <2>3, <3>1 DEF Proceed, SendStep, Receives
    <2> QED
      BY <1>2, <2>1, <2>2, <2>3 DEF Send
  <1>3. CASE RetryNever
    BY <1>3, AbortSends DEF RetryNever
  <1>4. CASE RetryAttempt
    <2>1. Contacts
      BY <1>4 DEF RetryAttempt, Contacts
    <2>2. CASE End(Failure("error", "probe"), context) \/ Proceed(pc, context)
      BY <2>1, <2>2 DEF End, Proceed, SendStep, NoResponseChanges
    <2>3. ASSUME CanSend(Text(Here.probe)), NEW facts \in SUBSET Facts,
                 Proceed(pc + 1, Received(Text(Here.probe), FALSE, facts))
          PROVE  SendStep
      BY <2>3 DEF Proceed, SendStep, Receives, CanSend
    <2> QED
      BY <1>4, <2>1, <2>2, <2>3 DEF RetryAttempt
  <1>5. CASE SetRetryDelay
    BY <1>0, <1>5, GotoSends, AbortSends, KeepsResponses DEF SetRetryDelay
  <1>6. CASE Sleep
    BY <1>6, AbortSends DEF Sleep, Proceed, SendStep, NoResponseChanges, Contacts
  <1>7. CASE Save
    BY <1>7 DEF Save, Goto, Proceed, SendStep, Aliases, Contacts
  <1>8. CASE Match \/ MatchAll \/ MatchAny
    BY <1>0, <1>8, GotoSends, ApplyVerdictSends DEF Match, MatchAll, MatchAny
  <1>9. CASE Assert \/ IfMatch
    BY <1>9, GotoSends, AbortSends DEF Assert, IfMatch
  <1>10. CASE Extract
    BY <1>0, <1>10, GotoSends, AbortSends, KeepsResponses DEF Extract
  <1>11. CASE Evidence
    BY <1>0, <1>11, GotoSends, AbortSends, KeepsResponses DEF Evidence
  <1>12. CASE ForList \/ ForVar
    BY <1>0, <1>12, GotoSends, EnterSends, AbortSends DEF ForList, ForVar
  <1>13. CASE LoopBack \/ Break \/ Continue
    BY <1>0, <1>13, GotoSends, AbortSends, KeepsResponses DEF LoopBack, Break, Continue
  <1>14. CASE Stop
    <2>1. [context EXCEPT !.emit_finding = FALSE] \in Contexts
      BY <1>0 DEF Contexts
    <2> QED
      BY <1>0, <1>14, <2>1, ConcludeSends, KeepsResponses DEF Stop
  <1>15. CASE Exit
    BY <1>0, <1>15, ConcludeSends DEF Exit
  <1>16. CASE Fail
    BY <1>0, <1>16, KeepsResponses DEF Fail, End, SendStep, NoResponseChanges, Contacts
  <1> QED
    BY <1>1, <1>2, <1>3, <1>4, <1>5, <1>6, <1>7, <1>8, <1>9, <1>10, <1>11, <1>12, <1>13,
       <1>14, <1>15, <1>16 DEF Instruction

LEMMA NextSends ==
    ASSUME TypeOK, [Next]_vars
    PROVE  SendStep
  <1> USE DEF SendStep, NoResponseChanges
  <1>1. CASE Instruction
    BY <1>1, InstructionSends
  <1>2. CASE Finish
    BY <1>2, ConcludeSends DEF Finish, TypeOK
  <1> QED
    BY <1>1, <1>2
    DEF Next, Step, Terminated, vars, DecodeFails, CompileFails, Reject, Construct, PreCheck,
        BudgetExceeded, Abort, Panic, End, Tick

-----------------------------------------------------------------------------
(* Sessions.                                                               *)

\* Only a probe that asks for a session has one.
SessionsAsked ==
    context.sessions \subseteq
        {n \in DOMAIN prog.probes : prog.probes[n].session /\ prog.probes[n].kind \in {"tcp", "udp"}}

LEMMA SessionsAskedStep ==
    ASSUME TypeOK, SessionsAsked, [Next]_vars
    PROVE  SessionsAsked'
  <1>0. prog' = prog /\ context \in Contexts
    BY NextLoops DEF TypeOK
  <1>1. CASE NoResponseChanges
    BY <1>0, <1>1 DEF NoResponseChanges, SessionsAsked
  <1>2. CASE Aliases
    BY <1>0, <1>2 DEF Aliases, AliasResponse, SessionsAsked, Contexts
  <1>3. CASE Receives
    <2>1. PICK n \in DOMAIN prog.probes, o \in BOOLEAN, facts \in SUBSET Facts :
              context' = Received(n, o, facts)
      BY <1>3 DEF Receives
    <2>2. context'.sessions = IF prog.probes[n].session /\ prog.probes[n].kind \in {"tcp", "udp"}
                              THEN context.sessions \cup {n} ELSE context.sessions
      BY <1>0, <2>1 DEF Received, StoreResponse, Contexts
    <2> QED
      BY <1>0, <2>2 DEF SessionsAsked
  <1> QED
    BY <1>1, <1>2, <1>3, NextSends DEF SendStep

\* What a probe has received in a live session is lost only to a save.
LEMMA TranscriptStep ==
    ASSUME TypeOK, SessionsAsked, [Next]_vars, NEW n \in context.sessions,
           context.responses[n].kind = "socket", ~ SavesTo(n)
    PROVE  context.responses[n].facts \subseteq context'.responses[n].facts
  <1>0. context \in Contexts /\ n \in Strs
    BY DEF TypeOK, Contexts
  <1>1. CASE NoResponseChanges
    BY <1>1 DEF NoResponseChanges
  <1>2. CASE Aliases
    <2>1. Text(Here.to) # n
      BY <1>2 DEF Aliases, SavesTo
    <2> QED
      BY <1>0, <1>2, <2>1 DEF Aliases, AliasResponse, Contexts
  <1>3. CASE Receives
    <2>1. PICK m \in DOMAIN prog.probes, o \in BOOLEAN, facts \in SUBSET Facts :
              context' = Received(m, o, facts)
      BY <1>3 DEF Receives
    <2>2. m \in Strs
      BY DEF TypeOK, IsProgram
    <2>3. CASE m # n
      <3>1. context'.responses[n] = context.responses[n]
        BY <1>0, <2>1, <2>2, <2>3 DEF Received, StoreResponse, Contexts
      <3> QED
        BY <3>1
    <2>4. CASE m = n
      <3>1. prog.probes[n].session /\ prog.probes[n].kind \in {"tcp", "udp"}
        BY DEF SessionsAsked
      <3>2. ResponseKind(prog.probes[n], o) = "socket"
        BY <3>1 DEF ResponseKind
      <3>3. context.responses[n] \in Response
        BY <1>0 DEF Contexts
      <3>4. context'.responses[n] =
              [context.responses[n] EXCEPT !.facts = context.responses[n].facts \cup facts]
        BY <1>0, <2>1, <2>4, <3>1, <3>2 DEF Received, StoreResponse, Contexts
      <3> QED
        BY <3>3, <3>4 DEF Response
    <2> QED
      BY <2>3, <2>4
  <1> QED
    BY <1>1, <1>2, <1>3, NextSends DEF SendStep

\* The data of a live session only grows, whatever the probes of the program
\* and whatever they answer.
THEOREM SessionsKeep == Spec => SessionKeepsTranscript
  <1>1. Init => SessionsAsked
    BY DEF Init, SessionsAsked, FromSpec
  <1>2. TypeOK /\ SessionsAsked /\ [Next]_vars =>
          [\A n \in context.sessions :
              (phase = "run" /\ context.responses[n].kind = "socket" /\ ~ SavesTo(n)) =>
                  context.responses[n].facts \subseteq context'.responses[n].facts]_vars
    BY TranscriptStep
  <1> QED
    BY <1>1, <1>2, SessionsAskedStep, TypeCorrect, PTL DEF Spec, SessionKeepsTranscript

-----------------------------------------------------------------------------
(* Contacts.                                                               *)

\* PrecheckCoversSend is inductive with what the pre-run check left behind,
\* and with the fact that only loops make frames.
Covered ==
    /\ \A k \in 1..Len(context.loop_stack) : BoundByLoop(prog, context.loop_stack[k].item)
    /\ phase \in {"load", "precheck"} => contacted = {}
    /\ phase = "run" => Checked = Endpoints(prog) /\ \A c \in port_checks : c.open
    /\ PrecheckCoversSend

\* With its variables as they were before the run, a host is the host that was
\* checked.
LEMMA HostAsChecked ==
    ASSUME TypeOK, LoopBinding, Covered, HostsFixed(prog), NEW n
    PROVE  Connects(n) \subseteq Endpoints(prog)
  <1> SUFFICES ASSUME CanSend(n), prog.probes[n].kind = "tcp"
               PROVE  [host |-> Interpolate(prog.probes[n].host, context.variables),
                       port |-> prog.probes[n].port] \in Endpoints(prog)
    BY DEF Connects
  <1> DEFINE h == prog.probes[n].host
             x == PlaceholderOf[h]
  <1>1. n \in DOMAIN prog.probes /\ prog.probes[n].port # None
    BY DEF CanSend
  <1>2. Interpolate(h, context.variables) = Interpolate(h, ScanVariables)
    <2>1. CASE h \notin DOMAIN PlaceholderOf
      BY <2>1 DEF Interpolate
    <2>2. CASE h \in DOMAIN PlaceholderOf
      <3>1. x \in Strs /\ ~ BoundByLoop(prog, x) /\ ~ BoundOtherwise(prog, x)
        BY <1>1, <2>2, StringsAssumption DEF HostsFixed
      <3>2. {k \in 1..Len(context.loop_stack) : context.loop_stack[k].item = x} = {}
        BY <3>1 DEF Covered
      <3>3. context.variables[x] = ScanVariables[x]
        BY <3>1, <3>2 DEF LoopBinding
      <3> QED
        BY <2>2, <3>3 DEF Interpolate
    <2> QED
      BY <2>1, <2>2
  <1> QED
    BY <1>1, <1>2 DEF Endpoints

LEMMA FramesBound ==
    ASSUME TypeOK, Covered, [Next]_vars
    PROVE  \A k \in 1..Len(context'.loop_stack) : BoundByLoop(prog', context'.loop_stack[k].item)
  <1> DEFINE s == context.loop_stack
             t == context'.loop_stack
             m == Len(s)
  <1>0. prog' = prog /\ context \in Contexts /\ s \in Seq(LoopFrame) /\ m \in Nat
        /\ \A k \in 1..m : BoundByLoop(prog, s[k].item)
    BY NextLoops DEF TypeOK, Contexts, Covered
  <1>1. CASE Ordinary
    BY <1>0, <1>1 DEF Ordinary, SameStack
  <1>2. CASE Enters
    <2>1. PICK x \in Strs, l \in Seq(Strs) :
              BoundByLoop(prog, x) /\ context' = EnterForeach(context, x, l, pc, Here.end_pc)
      BY <1>2 DEF Enters
    <2>2. /\ Len(t) = m + 1 /\ t[m + 1].item = x /\ \A k \in 1..m : t[k] = s[k]
      BY <1>0, <2>1 DEF EnterForeach, SetVariable, Contexts
    <2>3. \A k \in 1..(m + 1) : k \in 1..m \/ k = m + 1
      BY <1>0
    <2> HIDE DEF s, t, m
    <2> QED
      BY <1>0, <2>1, <2>2, <2>3 DEF t
  <1>3. CASE Advances
    <2>1. s[m] \in LoopFrame /\ m >= 1
      BY <1>0, <1>3 DEF Advances, InLoop
    <2>2. t = [s EXCEPT ![m] = [s[m] EXCEPT !.index = s[m].index + 1]]
      BY <1>0, <1>3 DEF Advances, AdvanceLoop, SetVariable, Top, Contexts
    <2> DEFINE g == [s[m] EXCEPT !.index = s[m].index + 1]
    <2>3. g.item = s[m].item
      BY <2>1 DEF LoopFrame
    <2>4. t = [s EXCEPT ![m] = g]
      BY <2>2
    <2> HIDE DEF g, t, s
    <2>5. Len(t) = m /\ \A k \in 1..m : t[k].item = s[k].item
      BY <1>0, <2>1, <2>3, <2>4
    <2> QED
      BY <1>0, <2>5 DEF t
  <1>4. CASE Leaves
    <2>1. t = SubSeq(s, 1, m - 1) /\ m >= 1
      BY <1>0, <1>4 DEF Leaves, InLoop, LeaveLoop, RestoreOrRemoveVariable, Pop, Contexts
    <2>2. Len(t) = m - 1 /\ \A k \in 1..(m - 1) : t[k] = s[k]
      <3> HIDE DEF t, m
      <3>1. \A k \in 1..(m - 1) : s[k] \in LoopFrame
        BY <1>0 DEF m
      <3> QED
        BY <1>0, <2>1, <3>1, SubSeqProperties
    <2> HIDE DEF s, t
    <2> QED
      BY <1>0, <2>2 DEF t
  <1> QED
    BY <1>1, <1>2, <1>3, <1>4, NextLoops DEF LoopStep

LEMMA CoveredStep ==
    ASSUME TypeOK, LoopBinding, Covered, [Next]_vars
    PROVE  Covered'
  <1>0. prog' = prog
    BY NextLoops
  <1>1. CASE PreCheck
    <2>1. PICK open \in SUBSET {e \in Endpoints(prog) : e.host # Empty} :
              /\ port_checks' = {[endpoint |-> e, open |-> e \in open] : e \in Endpoints(prog)}
              /\ phase' = "run" => open = Endpoints(prog)
              /\ phase' \in {"run", "done"}
      BY <1>1 DEF PreCheck
    <2>2. contacted' = {}
      BY <1>1 DEF PreCheck, Covered
    <2>3. Checked' = Endpoints(prog)
      <3> DEFINE check(e) == [endpoint |-> e, open |-> e \in open]
      <3>1. \A e : check(e).endpoint = e
        OBVIOUS
      <3>2. port_checks' = {check(e) : e \in Endpoints(prog)}
        BY <2>1
      <3> HIDE DEF check
      <3> QED
        BY <3>1, <3>2 DEF Checked
    <2>4. phase' = "run" => \A c \in port_checks' : c.open
      <3> SUFFICES ASSUME phase' = "run", NEW c \in port_checks' PROVE c.open
        OBVIOUS
      <3>1. PICK e \in Endpoints(prog) : c = [endpoint |-> e, open |-> e \in open]
        BY <2>1
      <3> QED
        BY <2>1, <3>1
    <2> QED
      BY <1>0, <2>1, <2>2, <2>3, <2>4, FramesBound DEF Covered, PrecheckCoversSend
  <1>2. CASE ~ PreCheck /\ port_checks' = port_checks /\ contacted' = contacted
             /\ (phase' = phase \/ phase' \in {"precheck", "done"})
             /\ (phase' = "precheck" => phase = "load" \/ phase = "precheck")
    BY <1>0, <1>2, FramesBound DEF Covered, PrecheckCoversSend, Checked
  <1>3. CASE Instruction
    <2>1. phase = "run" /\ phase' \in {"run", "done"} /\ port_checks' = port_checks
      BY <1>3, InstructionFrame
      DEF Instruction, Set, SetList, Send, RetryNever, RetryAttempt, SetRetryDelay, Sleep, Save,
          Match, MatchAll, MatchAny, Assert, IfMatch, Extract, Evidence, ForList, ForVar, LoopBack,
          Break, Continue, Stop, Exit, Fail, Enter, ApplyVerdict, Goto, Proceed, Abort, Conclude, End
    <2>2. HostsFixed(prog) => contacted' \subseteq contacted \cup Endpoints(prog)
      BY <1>3, InstructionSends, HostAsChecked DEF Contacts
    <2> QED
      BY <1>0, <2>1, <2>2, FramesBound DEF Covered, PrecheckCoversSend, Checked
  <1> QED
    BY <1>1, <1>2, <1>3
    DEF Next, Step, Terminated, vars, DecodeFails, CompileFails, Reject, Construct, PreCheck,
        Finish, Conclude, BudgetExceeded, Abort, Panic, AtInstr, End, Tick, Covered

\* Every TCP endpoint that a run contacts is one that the pre-run check found
\* open, for every program that leaves the variables of its hosts alone.
THEOREM SendsAreCovered == Spec => []PrecheckCoversSend
  <1>1. Init => Covered
    BY DEF Init, Covered, PrecheckCoversSend, FromSpec
  <1>2. Covered => PrecheckCoversSend
    BY DEF Covered
  <1> QED
    BY <1>1, <1>2, CoveredStep, LoopsBind, TypeCorrect, PTL DEF Spec
=============================================================================
