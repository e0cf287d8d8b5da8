------------------------------ MODULE RuleLedger ------------------------------
(***************************************************************************)
(* What the rule store promises to the agents that read it, free of how    *)
(* evidence is gathered: each slot (scope, rule, space) holds at most one  *)
(* live rule, a rule goes live at most once, and a rule that ended stays   *)
(* in the audit history and is never reactivated.                          *)
(***************************************************************************)
VARIABLES
  live,    \* rules the resolver may apply
  ended    \* rules superseded, revoked or expired

ledgerVars == <<live, ended>>

SameSlot(m, c) == m.scope = c.scope /\ m.rule = c.rule /\ m.space = c.space

OneLivePerSlot(rules) == \A m, c \in rules : SameSlot(m, c) => m = c

Init == live = {} /\ ended = {}

\* One commit may end any live rules and start rules never seen before.
Change ==
  /\ ended' = ended \cup (live \ live')
  /\ live' \cap ended' = {}
  /\ OneLivePerSlot(live')

Next == Change

Spec == Init /\ [][Next]_ledgerVars

=============================================================================
