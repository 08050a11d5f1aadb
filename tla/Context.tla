------------------------------- MODULE Context -------------------------------
(***************************************************************************)
(* context.rs: the mutable state of one script run, and the operations on  *)
(* it.  A context is a value; every operation returns the next context.    *)
(*                                                                         *)
(* HashMaps are total functions over Strs, with Unbound and NoResponse for *)
(* an absent key.  A template is a string with one placeholder;            *)
(* PlaceholderOf[s] is the variable it names.                              *)
(***************************************************************************)
EXTENDS Matcher

CONSTANTS
    None,            \* an absent Option
    Empty,           \* the empty string
    PlaceholderOf    \* template |-> the variable in its {{ }}

ASSUME StringsAssumption ==
    /\ Empty \in Strs
    /\ DOMAIN PlaceholderOf \subseteq Strs
    /\ \A s \in DOMAIN PlaceholderOf : PlaceholderOf[s] \in Strs
    /\ Facts \subseteq Strs

\* VariableValue, with the value of a string as a list of one.
Value == {v \in [tag : {"none", "string", "list"}, items : Seq(Strs)] :
             v.tag = "string" => Len(v.items) = 1}
Unbound == [tag |-> "none", items |-> << >>]
Scalar(s) == [tag |-> "string", items |-> <<s>>]
List(l) == [tag |-> "list", items |-> l]

LoopFrame == [item : Strs, values : Seq(Strs), index : Nat, previous : Value,
              head_pc : Nat, continue_pc : Nat, end_pc : Nat]

Contexts ==
    [variables   : [Strs -> Value],
     responses   : [Strs -> Response],
     sessions    : SUBSET Strs,         \* probe names with a live connection
     evidence    : SUBSET Strs,         \* the texts pushed so far
     retry_delay : Nat \cup {None},
     failed      : BOOLEAN,
     matched     : BOOLEAN,
     emit_finding : BOOLEAN,
     loop_stack  : Seq(LoopFrame)]

\* Context::from_spec, then inject_scan_target_variables.
FromSpec(scan_variables) ==
    [variables   |-> scan_variables,
     responses   |-> [n \in Strs |-> NoResponse],
     sessions    |-> {},
     evidence    |-> {},
     retry_delay |-> None,
     failed      |-> FALSE,
     matched     |-> TRUE,
     emit_finding |-> TRUE,
     loop_stack  |-> << >>]

SetVariable(c, name, s) == [c EXCEPT !.variables[name] = Scalar(s)]
SetListVariable(c, name, l) == [c EXCEPT !.variables[name] = List(l)]
RestoreOrRemoveVariable(c, name, value) == [c EXCEPT !.variables[name] = value]
StoreResponse(c, name, r) == [c EXCEPT !.responses[name] = r]

\* A missing `from` leaves the alias as it was.
AliasResponse(c, from, alias) ==
    IF c.responses[from].kind = "none"
    THEN c
    ELSE [c EXCEPT !.responses[alias] = c.responses[from]]

CloseSessions(c) == [c EXCEPT !.sessions = {}]

\* Fault: the match chain is not asked.
EmitsFindingUnlatched(c, named) == c.emit_finding /\ named

\* Does finalize_finding put a finding in the report?
EmitsFinding(c, named) == c.matched /\ c.emit_finding /\ named

-----------------------------------------------------------------------------
(* interpolate.rs: a scalar expands, a missing variable expands to the     *)
(* empty string, a list is an error.  The value is not expanded again.     *)
Interpolates(s, variables) ==
    s \in DOMAIN PlaceholderOf => variables[PlaceholderOf[s]].tag # "list"

Interpolate(s, variables) ==
    IF s \notin DOMAIN PlaceholderOf THEN s
    ELSE IF variables[PlaceholderOf[s]].tag = "string"
         THEN variables[PlaceholderOf[s]].items[1]
         ELSE Empty

-----------------------------------------------------------------------------
(* The loop operations of the executor, as context and next pc.            *)
Top(c) == c.loop_stack[Len(c.loop_stack)]
Pop(c) == SubSeq(c.loop_stack, 1, Len(c.loop_stack) - 1)

\* Faults: `continue` aims past the loop_back; the subtraction does not saturate.
EnterForeachPastEnd(c, name, list, pc, end) ==
    [SetVariable(c, name, list[1]) EXCEPT
        !.loop_stack = Append(c.loop_stack,
            [item |-> name, values |-> list, index |-> 0, previous |-> c.variables[name],
             head_pc |-> pc + 1, continue_pc |-> end, end_pc |-> end])]
EnterForeachUnsaturated(c, name, list, pc, end) ==
    [SetVariable(c, name, list[1]) EXCEPT
        !.loop_stack = Append(c.loop_stack,
            [item |-> name, values |-> list, index |-> 0, previous |-> c.variables[name],
             head_pc |-> pc + 1, continue_pc |-> end - 1, end_pc |-> end])]

\* enter_foreach on a list that is not empty.
EnterForeach(c, name, list, pc, end) ==
    [SetVariable(c, name, list[1]) EXCEPT
        !.loop_stack = Append(c.loop_stack,
            [item |-> name, values |-> list, index |-> 0,
             previous |-> c.variables[name],
             head_pc |-> pc + 1,
             continue_pc |-> IF end = 0 THEN 0 ELSE end - 1,
             end_pc |-> end])]

HasNext(c) == Top(c).index + 1 < Len(Top(c).values)

\* Fault: the index is not advanced.
AdvanceLoopNowhere(c) == SetVariable(c, Top(c).item, Top(c).values[Top(c).index + 2])

\* The Jump arm of step_loop_back: the next item is bound.
AdvanceLoop(c) ==
    LET f == Top(c) IN
    [SetVariable(c, f.item, f.values[f.index + 2]) EXCEPT
        !.loop_stack = [c.loop_stack EXCEPT ![Len(c.loop_stack)].index = f.index + 1]]

\* Fault: the frame goes and its item stays.
LeaveLoopKeepsItem(c) == [c EXCEPT !.loop_stack = Pop(c)]

\* The End arm of step_loop_back, and step_break.
LeaveLoop(c) ==
    [RestoreOrRemoveVariable(c, Top(c).item, Top(c).previous) EXCEPT
        !.loop_stack = Pop(c)]
=============================================================================
