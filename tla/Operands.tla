------------------------------ MODULE Operands -------------------------------
(***************************************************************************)
(* validate_program of binary.rs: every operand of every instruction,      *)
(* whatever a run would do with it.  Operands are 0-based as in the code.  *)
(***************************************************************************)
EXTENDS Integers, Sequences

CONSTANT None   \* an absent payload

OneIn(idx, pool) == idx < Len(pool)
\* Fault: only the start of a range is checked.
RangeStartsIn(start, len, pool) == start < Len(pool)
RangeIn(start, len, pool) == start + len <= Len(pool)

\* p.payloads is the size of that pool.
OperandsValid(i, p) ==
    CASE i.op = "Set" -> OneIn(i.name, p.strings) /\ OneIn(i.value, p.strings)
      [] i.op = "SetList" -> /\ OneIn(i.name, p.strings)
                             /\ RangeIn(i.start, i.len, p.strings)
      [] i.op = "Send" -> /\ OneIn(i.probe, p.strings)
                          /\ i.payload # None => i.payload < p.payloads
      [] i.op \in {"Match", "Assert", "IfMatch"} -> OneIn(i.matcher, p.matchers)
      [] i.op \in {"MatchAll", "MatchAny"} -> RangeIn(i.start, i.len, p.matchers)
      [] i.op = "Extract" -> /\ OneIn(i.name, p.strings)
                             /\ OneIn(i.source, p.extracts)
      [] i.op = "ForList" -> /\ OneIn(i.item, p.strings)
                             /\ RangeIn(i.start, i.len, p.strings)
      [] i.op = "ForVar" -> OneIn(i.item, p.strings) /\ OneIn(i.list, p.strings)
      [] i.op = "Save" -> OneIn(i.from, p.strings) /\ OneIn(i.to, p.strings)
      [] i.op = "Evidence" -> OneIn(i.evidence, p.evidence)
      [] i.op = "Retry" -> OneIn(i.probe, p.strings)
      [] i.op \in {"RetryDelay", "Sleep"} -> OneIn(i.value, p.strings)
      [] OTHER -> TRUE

Validate(p) == \A k \in 1..Len(p.code) : OperandsValid(p.code[k], p)
=============================================================================
