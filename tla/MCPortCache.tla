----------------------------- MODULE MCPortCache -----------------------------
(***************************************************************************)
(* Two runs of the executor that share one cache with fewer places than    *)
(* they have endpoints.  One endpoint is common: the second run comes to   *)
(* it early enough to find a fresh entry, or late enough for the entry to  *)
(* have expired or gone.                                                   *)
(***************************************************************************)
EXTENDS PortCache

CONSTANTS r1, r2, k1, k2, k3

TwoRuns == {r1, r2}
ThreeKeys == {k1, k2, k3}
SharedEndpoints == [r \in TwoRuns |-> IF r = r1 THEN <<k1, k2>> ELSE <<k3, k1>>]
=============================================================================
