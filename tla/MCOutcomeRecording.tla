-------------------------- MODULE MCOutcomeRecording --------------------------
(***************************************************************************)
(* Small instances of OutcomeRecording for TLC.                            *)
(***************************************************************************)
EXTENDS OutcomeRecording, TLC

CONSTANTS planner, executor, retry, team, snap1, snap2, snap3

Receipt(s, p, t) ==
  [id |-> s, scope |-> team, producer |-> p, strategy |-> retry, observed |-> t]

\* One snapshot that two agents execute, the second one later, and two snapshots
\* whose episodes may both want to replace the first one's.
ContendedReceipts ==
  {Receipt(snap1, executor, 0), Receipt(snap1, planner, 1),
   Receipt(snap2, executor, 1), Receipt(snap3, executor, 1)}

LaterReceipts == {r \in Receipts : r.id # snap1}

\* Invocations and drawn ids are interchangeable.
Interchangeable == Permutations(Workers) \cup Permutations(EpisodeIds) \cup Permutations({snap2, snap3})

\* No action reads the answers, and an answer that is right stays right, because no
\* episode is ever changed: states that differ in right answers alone are one.
Essential ==
  <<now, storeVars, call, faults,
    {a \in answers :
       IF a.reply = Refused THEN a.replay
       ELSE \A e \in Existing(a.receipt) : e.id # a.reply}>>

=============================================================================
