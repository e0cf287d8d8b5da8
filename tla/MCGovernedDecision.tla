-------------------------- MODULE MCGovernedDecision --------------------------
(***************************************************************************)
(* A small instance of GovernedDecision for TLC.                           *)
(***************************************************************************)
EXTENDS GovernedDecision

CONSTANTS p1, p2, p3, generic, refresh, team, e5

Receipt(i, p, k, v, t) ==
  [id |-> i, scope |-> team, producer |-> p, strategy |-> k, rule |-> k,
   verdict |-> v, observed |-> t]

\* The generic retry failed for one producer and worked for another; a fresh
\* token helped one and not the other, and a third one earlier, in a situation
\* unlike the request's: its report may make a rule, join one or come too late.
MixedReceipts == {
  Receipt(1, p1, generic, "failure", 0),
  Receipt(2, p2, generic, "success", 1),
  Receipt(3, p2, refresh, "success", 1),
  Receipt(4, p1, refresh, "failure", 1),
  Receipt(5, p3, refresh, "success", 0) }

SimilarReceipts == {r \in Receipts : r.id # 5}

\* The first producer is trusted more than the second one.
Signals == [r \in Receipts |-> IF r.producer = p1 THEN 4 ELSE 2]

\* Rules gain strength with producers and lose it with age.
Strengths ==
  [k \in Rules |-> [n \in 0..3 |-> [age \in 0..MaxTime |->
     Max({0, 3 * n - age})]]]

Same == [k \in Rules |-> k]

OneQuorum == [sc \in Scopes |-> 1]
FixedRegistry == {Producers}

\* Of the history only what no guard and no answer reads is left out, down to
\* whether it is empty, and the judge of a scope that is to be judged again.
\* The properties read the revocations, which are disjoint from the heads in
\* every reachable state (WithdrawnIsHistory, proved).
Essential ==
  <<now, space, supersedes, heads, active, EverPromoted, decision, outbox,
    [sc \in Scopes |-> IF sc \in outbox THEN Nobody ELSE judgedBy[sc]],
    {h \in {revocations, superseded, revoked, expired, lineage} : h # {}} = {},
    projection = [sc \in Scopes |-> {}]>>

=============================================================================
