--------------------------- MODULE MCSpaceMigration ---------------------------
(***************************************************************************)
(* A small instance of SpaceMigration for TLC.                             *)
(***************************************************************************)
EXTENDS SpaceMigration

CONSTANTS p1, p2, retry, team, e5, e6

Receipt(i, p, k, v, t) ==
  [id |-> i, scope |-> team, producer |-> p, strategy |-> k, rule |-> k,
   verdict |-> v, observed |-> t]

\* A success that makes a rule, a failure of another producer against it, and
\* the first producer's next report, which replaces the head of its key or
\* supersedes it.
MigratedReceipts == {
  Receipt(1, p1, retry, "success", 0),
  Receipt(2, p2, retry, "failure", 1),
  Receipt(3, p1, retry, "success", 1) }

OneQuorum == [sc \in Scopes |-> 1]

TwoRegistries == {Producers, Producers \ {p1}}

\* Of the history of rules nothing is read but that a promotion is not repeated;
\* of the rest it is kept whether it is empty.
Essential ==
  <<now, space, supersedes, heads, revocations, active, EverPromoted, outbox,
    vector, statistics, plan,
    [sc \in Scopes |-> IF sc \in outbox THEN Nobody ELSE judgedBy[sc]],
    {h \in {superseded, revoked, expired, lineage} : h # {}} = {},
    projection = [sc \in Scopes |-> {}]>>

=============================================================================
