------------------------------ MODULE Bytecode -------------------------------
(***************************************************************************)
(* bytecode.rs and spec.rs: a program, with what decoding checks of it     *)
(* (Operands), and which pool accesses of the executor would panic on it.  *)
(*                                                                         *)
(* Operands are 0-based as in the code; the pools are sequences, so pool   *)
(* entry i is at i + 1.                                                    *)
(***************************************************************************)
EXTENDS Context

CONSTANTS Ports

\* validate_program: Validate.
INSTANCE Operands

\* The socket fields of a ProbeKind.  Of an http probe only `host` is used:
\* it stands for the templates of its request.
Probe == [kind : {"http", "dns", "tcp", "udp"}, host : Strs,
          port : Ports \cup {None}, payload : Strs \cup {None},
          tls : BOOLEAN, session : BOOLEAN]

\* The fact of a body or response rule is its regex, if it has one; of a header
\* rule, that the header is there (and matches the regex of an evidence rule).
Extracts ==
    [kind : {"body"}, target : Strs, fact : Facts \cup {None}]
    \cup [kind : {"header"}, target : Strs, fact : Facts]
Evidences ==
    [kind : {"body", "response"}, target : Strs, fact : Facts \cup {None}]
    \cup [kind : {"header"}, target : Strs, fact : Facts]

Instr ==
    [op : {"Set"}, name : Nat, value : Nat]
    \cup [op : {"SetList"}, name : Nat, start : Nat, len : Nat]
    \cup [op : {"Send"}, probe : Nat, payload : Nat \cup {None}]
    \cup [op : {"Match", "Assert"}, matcher : Nat]
    \cup [op : {"MatchAll", "MatchAny"}, start : Nat, len : Nat]
    \cup [op : {"Extract"}, name : Nat, source : Nat]
    \cup [op : {"IfMatch"}, matcher : Nat, else_pc : Nat]
    \cup [op : {"ForList"}, item : Nat, start : Nat, len : Nat, end_pc : Nat]
    \cup [op : {"ForVar"}, item : Nat, list : Nat, end_pc : Nat]
    \cup [op : {"Save"}, from : Nat, to : Nat]
    \cup [op : {"Evidence"}, evidence : Nat]
    \cup [op : {"Retry"}, probe : Nat, count : Nat]
    \cup [op : {"RetryDelay", "Sleep"}, value : Nat]
    \cup [op : {"LoopBack", "Break", "Continue", "Stop", "Exit", "Fail"}]

\* `named` is metadata.name.is_some(); `payloads` the size of that pool.
IsProgram(p) ==
    /\ p.named \in BOOLEAN
    /\ DOMAIN p.probes \subseteq Strs
    /\ \A n \in DOMAIN p.probes : p.probes[n] \in Probe
    /\ p.strings \in Seq(Strs)
    /\ p.payloads \in Nat
    /\ p.matchers \in Seq(Matchers)
    /\ p.extracts \in Seq(Extracts)
    /\ p.evidence \in Seq(Evidences)
    /\ p.code \in Seq(Instr)

-----------------------------------------------------------------------------
(* The executor's own accesses: an index outside its pool panics.  With    *)
(* the chain already false, the match, extract and evidence instructions   *)
(* return before they touch a pool.                                        *)
Misses(idx, size) == ~ (idx < size)
Overruns(start, len, size) == ~ (start + len <= size)

Panics(i, p, matched) ==
    \/ /\ i.op = "Set"
       /\ Misses(i.name, Len(p.strings)) \/ Misses(i.value, Len(p.strings))
    \/ /\ i.op = "SetList"
       /\ Misses(i.name, Len(p.strings)) \/ Overruns(i.start, i.len, Len(p.strings))
    \/ /\ i.op = "ForList"
       /\ Misses(i.item, Len(p.strings)) \/ Overruns(i.start, i.len, Len(p.strings))
    \/ /\ i.op = "Send"
       /\ \/ Misses(i.probe, Len(p.strings))
          \/ i.payload # None /\ Misses(i.payload, p.payloads)
    \/ /\ i.op \in {"Match", "Assert", "IfMatch"}
       /\ matched /\ Misses(i.matcher, Len(p.matchers))
    \/ /\ i.op \in {"MatchAll", "MatchAny"}
       /\ matched /\ Overruns(i.start, i.len, Len(p.matchers))
    \/ /\ i.op = "Extract"
       /\ matched
       /\ Misses(i.name, Len(p.strings)) \/ Misses(i.source, Len(p.extracts))
    \/ /\ i.op = "ForVar"
       /\ Misses(i.item, Len(p.strings)) \/ Misses(i.list, Len(p.strings))
    \/ /\ i.op = "Save"
       /\ Misses(i.from, Len(p.strings)) \/ Misses(i.to, Len(p.strings))
    \/ i.op = "Evidence" /\ matched /\ Misses(i.evidence, Len(p.evidence))
    \/ i.op = "Retry" /\ Misses(i.probe, Len(p.strings))
    \/ i.op \in {"RetryDelay", "Sleep"} /\ Misses(i.value, Len(p.strings))

-----------------------------------------------------------------------------
\* from_program compiles every regex of the three pools up front.
RegexesFail(p) ==
    \/ \E k \in 1..Len(p.matchers) : RegexFails(p.matchers[k])
    \/ \E k \in 1..Len(p.evidence) : p.evidence[k].fact \in Invalid
    \/ \E k \in 1..Len(p.extracts) : /\ p.extracts[k].kind = "body"
                                     /\ p.extracts[k].fact \in Invalid

-----------------------------------------------------------------------------
(* The program shape that the executor's loop operations are written for:  *)
(* a `for` at f owns the pcs strictly between f and its end_pc, the last   *)
(* of them is its loop_back, loops nest, and a jump neither enters a loop  *)
(* nor leaves one.  Nothing in the repository checks it.                   *)
ForAt(p, f) == f \in 0..(Len(p.code) - 1) /\ p.code[f + 1].op \in {"ForList", "ForVar"}
EndOf(p, f) == p.code[f + 1].end_pc
Inside(p, f, pc) == f < pc /\ pc < EndOf(p, f)
Enclosing(p, pc) == {f \in 0..(Len(p.code) - 1) : ForAt(p, f) /\ Inside(p, f, pc)}

Structured(p) ==
    LET pcs == 0..(Len(p.code) - 1) IN
    /\ \A f \in pcs : ForAt(p, f) =>
          /\ f + 1 < EndOf(p, f) /\ EndOf(p, f) <= Len(p.code)
          /\ p.code[EndOf(p, f)].op = "LoopBack"
          /\ Enclosing(p, EndOf(p, f)) = Enclosing(p, f)
    /\ \A f, g \in pcs : (ForAt(p, f) /\ ForAt(p, g) /\ Inside(p, f, g))
          => EndOf(p, g) < EndOf(p, f)
    /\ \A k \in pcs : p.code[k + 1].op = "LoopBack"
          => \E f \in pcs : ForAt(p, f) /\ EndOf(p, f) = k + 1
    /\ \A k \in pcs : p.code[k + 1].op \in {"Break", "Continue"}
          => Enclosing(p, k) # {}
    /\ \A k \in pcs : p.code[k + 1].op = "IfMatch"
          => /\ k < p.code[k + 1].else_pc /\ p.code[k + 1].else_pc <= Len(p.code)
             /\ Enclosing(p, p.code[k + 1].else_pc) = Enclosing(p, k)
=============================================================================
