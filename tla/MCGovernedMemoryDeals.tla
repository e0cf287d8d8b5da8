------------------------ MODULE MCGovernedMemoryDeals ------------------------
(***************************************************************************)
(* Three environments of GovernedMemory in one run: a single scope with    *)
(* many receipts; two scopes of different quorum, with two registries and  *)
(* two embedding spaces; and two deployments of different spaces that      *)
(* serve one scope.  Their product would be out of TLC's reach.            *)
(***************************************************************************)
EXTENDS MCGovernedMemory

CONSTANTS e5, e6

VARIABLE deal   \* the environment

Deals == {
  [receipts |-> CoreReceipts, spaces |-> {e5}, judges |-> {Producers}, until |-> 2],
  [receipts |-> ScopedReceipts, spaces |-> {e5, e6}, judges |-> TwoRegistries, until |-> 1],
  [receipts |-> RollingReceipts, spaces |-> {e5, e6}, judges |-> {Producers}, until |-> 1]}

AllReceipts == CoreReceipts \cup ScopedReceipts \cup RollingReceipts

\* The processes of the environment serve; the security reconciler may hold any
\* registry.
DealtNext ==
  /\ \/ \E g \in deal.judges, sp \in deal.spaces : Serve(g, sp)
     \/ \E g \in GrantSets : RetireUntrusted(g)
     \/ Tick
  /\ now' <= deal.until
  /\ Recorded' \subseteq deal.receipts
  /\ deal' = deal

DealtInit == Init /\ deal \in Deals

DealtSpec == DealtInit /\ [][DealtNext]_<<vars, deal>>

\* Who judged a scope matters while the scope owes nothing: its next settlement
\* overwrites it.
Essential ==
  <<deal, now, episodeVars, ruleVars, projection, outbox,
    [sc \in Scopes |-> IF sc \in outbox THEN Nobody ELSE judgedBy[sc]]>>

=============================================================================
