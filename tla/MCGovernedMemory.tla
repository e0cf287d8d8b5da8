--------------------------- MODULE MCGovernedMemory ---------------------------
(***************************************************************************)
(* Small instances of GovernedMemory for TLC.                              *)
(***************************************************************************)
EXTENDS GovernedMemory

CONSTANTS p1, p2, p3, retry, refresh, team, private

Receipt(i, sc, p, k, v, t) ==
  [id |-> i, scope |-> sc, producer |-> p, strategy |-> k, rule |-> k,
   verdict |-> v, observed |-> t]

\* Three producers report one rule in turn, so the third may displace the rule
\* of the first two or arrive too late to; the second one may then contradict
\* the others, and the first may switch to a strategy that names no rule.
CoreReceipts == {
  Receipt(1, team, p1, retry, "success", 0),
  Receipt(2, team, p2, retry, "success", 0),
  Receipt(3, team, p3, retry, "success", 1),
  [Receipt(4, team, p1, refresh, "success", 1) EXCEPT !.rule = Unclassified],
  Receipt(5, team, p2, retry, "failure", 1) }

\* A private scope, whose rules need one producer, beside the team's, with a
\* producer in both: a failure that makes a rule to avoid, and a success against it.
ScopedReceipts == {
  Receipt(1, team, p1, retry, "success", 0),
  Receipt(6, private, p1, retry, "failure", 1),
  Receipt(7, private, p2, retry, "success", 1) }

\* A rule of one failure, one that joins it too late, and an older one of the same
\* producer, which another deployment may save.
RollingReceipts == {
  Receipt(6, private, p1, retry, "failure", 1),
  Receipt(8, private, p2, retry, "failure", 0),
  Receipt(9, private, p1, retry, "failure", 0) }

\* One producer's outcomes under two strategies, delivered in any order.
SwitchReceipts == {
  Receipt(1, team, p1, retry, "success", 0),
  Receipt(2, team, p1, retry, "success", 1),
  Receipt(3, team, p1, refresh, "success", 2) }

TeamQuorum == [sc \in {team} |-> 2]
ScopedQuorum == [sc \in {team, private} |-> IF sc = team THEN 2 ELSE 1]
FixedRegistry == {Producers}
TwoRegistries == {Producers, Producers \ {p1}}

=============================================================================
