-------------------------------- MODULE Check --------------------------------
(***************************************************************************)
(* What a check promises to whoever reads its result, and nothing about    *)
(* instructions: proof is collected only while the chain of matches holds, *)
(* a broken chain does not heal, and a finding comes out of an unbroken    *)
(* chain, once, with exactly the proof collected on the way.               *)
(***************************************************************************)
CONSTANT Texts     \* the texts that can serve as proof

VARIABLES
    stage,         \* "load", "precheck", "run" or "done"
    chain,         \* do the matches still hold?
    collected,     \* the proof so far
    verdict        \* [found, proof]

checkVars == <<stage, chain, collected, verdict>>

NoFinding == [found |-> FALSE, proof |-> {}]

Init ==
    /\ stage = "load"
    /\ chain = TRUE
    /\ collected = {}
    /\ verdict = NoFinding

\* Loading and the port check go forward, or end the run with no finding.
Prepare ==
    /\ \/ stage = "load" /\ stage' \in {"precheck", "done"}
       \/ stage = "precheck" /\ stage' \in {"run", "done"}
    /\ UNCHANGED <<chain, collected, verdict>>

Miss ==
    /\ stage = "run" /\ chain
    /\ chain' = FALSE
    /\ UNCHANGED <<stage, collected, verdict>>

Collect ==
    /\ stage = "run" /\ chain
    /\ \E t \in Texts : collected' = collected \cup {t}
    /\ UNCHANGED <<stage, chain, verdict>>

Detect ==
    /\ stage = "run" /\ chain
    /\ stage' = "done"
    /\ verdict' = [found |-> TRUE, proof |-> collected]
    /\ UNCHANGED <<chain, collected>>

EndWithout ==
    /\ stage = "run"
    /\ stage' = "done"
    /\ UNCHANGED <<chain, collected, verdict>>

Next == Prepare \/ Miss \/ Collect \/ Detect \/ EndWithout

Spec == Init /\ [][Next]_checkVars
=============================================================================
