-------------------------- MODULE MCDecisionExecution --------------------------
(***************************************************************************)
(* Small instances of DecisionExecution for TLC.                           *)
(***************************************************************************)
EXTENDS DecisionExecution, TLC

CONSTANTS m1, m2, m3, retry

\* Two memory states that lead to one strategy on different evidence, and one in
\* which the policy abstains.
Policy == [m \in {m1, m2, m3} |-> IF m = m3 THEN Abstain ELSE retry]

Interchangeable == Permutations(Workers) \cup Permutations(Snapshots)

=============================================================================
