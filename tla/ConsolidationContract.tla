------------------------- MODULE ConsolidationContract -------------------------
(***************************************************************************)
(* What the outbox promises to those who read derived statistics and rules,*)
(* free of rows, leases and workers: a commit that changes the state of a  *)
(* scope leaves the scope owing a consolidation, and only a consolidation  *)
(* that has read the state as it then is ends the obligation.              *)
(***************************************************************************)
CONSTANT Scopes

VARIABLES
  state,   \* what consolidation reads of a scope
  read,    \* what the latest consolidation of a scope read
  owed     \* scopes that owe a consolidation

contractVars == <<state, read, owed>>

Init == read = state /\ owed = {}

\* One commit may change many scopes, and may owe more than it changed.
Commit ==
  /\ owed \subseteq owed'
  /\ \A s \in Scopes : state'[s] # state[s] => s \in owed'
  /\ read' = read

\* The end of the obligation may come later than the consolidation, as long as
\* nothing moved in between.
Consolidate(s) ==
  /\ read' = [read EXCEPT ![s] = state[s]]
  /\ owed' \in {owed, owed \ {s}}
  /\ state' = state

Next == Commit \/ \E s \in Scopes : Consolidate(s)

Spec == Init /\ [][Next]_contractVars

=============================================================================
