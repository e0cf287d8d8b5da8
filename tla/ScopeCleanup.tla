----------------------------- MODULE ScopeCleanup -----------------------------
(***************************************************************************)
(* The deletion of a demonstration's scope and the sweep of what a broken  *)
(* deletion leaves.                                                        *)
(*                                                                         *)
(* No database identity may delete from all tables, so a scope is deleted  *)
(* in two transactions: first its episodes and heads, then every row       *)
(* derived from them.  Between the two, the invocation may end, a worker   *)
(* that claimed the scope long before may consolidate it, and the security *)
(* reconciliation may retire its heads.  Of the derived tables only        *)
(* whether they hold a row of the scope is kept; see GovernedMemory and    *)
(* ConsolidationOutbox for what the rows say.                              *)
(***************************************************************************)
EXTENDS Integers, FiniteSets

CONSTANTS
  Scopes,       \* names are drawn by uuid4, so a scope is never used again
  Producers,
  Workers,      \* invocations that drain the outbox
  NoScope

ASSUME NamesAssumption == NoScope \notin Scopes

\* The rules with their support, and the candidates they were judged as.
Audited == {"support", "memories", "candidates"}
Derived == Audited \cup {"outbox", "effectiveness"}

VARIABLES
  phase,      \* per scope: how far its demonstration has got
  episodes,   \* per scope: producers with an episode
  heads,      \* per scope: producers with a current head
  rows,       \* per scope: derived tables that hold rows of it
  claimed     \* per worker: the scope it works on

l1Vars == <<episodes, heads>>
cleanupVars == <<phase, l1Vars, rows, claimed>>

-----------------------------------------------------------------------------

CleanupInit ==
  /\ phase = [s \in Scopes |-> "open"]
  /\ episodes = [s \in Scopes |-> {}]
  /\ heads = [s \in Scopes |-> {}]
  /\ rows = [s \in Scopes |-> {}]
  /\ claimed = [w \in Workers |-> NoScope]

Goto(s, p) == phase' = [phase EXCEPT ![s] = p]

\* The demonstration records an outcome; save enqueues the scope.
Demonstrate(s, p) ==
  /\ phase[s] = "open" /\ p \notin episodes[s]
  /\ episodes' = [episodes EXCEPT ![s] = @ \cup {p}]
  /\ heads' = [heads EXCEPT ![s] = @ \cup {p}]
  /\ rows' = [rows EXCEPT ![s] = @ \cup {"outbox"}]
  /\ UNCHANGED <<phase, claimed>>

\* retire_untrusted_heads: over all scopes, and every scope that loses a head is
\* enqueued.
Retire(p) ==
  /\ \E s \in Scopes : p \in heads[s]
  /\ heads' = [s \in Scopes |-> heads[s] \ {p}]
  /\ rows' = [s \in Scopes |-> IF p \in heads[s] THEN rows[s] \cup {"outbox"} ELSE rows[s]]
  /\ UNCHANGED <<phase, episodes, claimed>>

-----------------------------------------------------------------------------
(* The drain *)

Claim(w, s) ==
  /\ claimed[w] = NoScope /\ "outbox" \in rows[s]
  /\ claimed' = [claimed EXCEPT ![w] = s]
  /\ UNCHANGED <<phase, l1Vars, rows>>

\* What a consolidation may write from the heads it finds: nothing, statistics,
\* candidates, or rules.  Without heads there is nothing to write from.
Writes(s) ==
  IF heads[s] = {} THEN {{}}
  ELSE {{}, {"effectiveness"}, {"effectiveness", "candidates"}, Audited \cup {"effectiveness"}}

\* consolidate_scope, in one transaction: the statistics are written anew, the
\* rest is only added to.  It may run twice.
Build(w) ==
  /\ claimed[w] # NoScope
  /\ \E written \in Writes(claimed[w]) :
       rows' = [rows EXCEPT ![claimed[w]] = (@ \ {"effectiveness"}) \cup written]
  /\ UNCHANGED <<phase, l1Vars, claimed>>

\* mark_complete, whose generation may be out of date; mark_deferred; or the end of
\* the invocation.
Settle(w) ==
  /\ claimed[w] # NoScope
  /\ claimed' = [claimed EXCEPT ![w] = NoScope]
  /\ rows' \in {rows, [rows EXCEPT ![claimed[w]] = @ \ {"outbox"}]}
  /\ UNCHANGED <<phase, l1Vars>>

-----------------------------------------------------------------------------
(* _delete_scope *)

DeleteL1(s) ==
  /\ heads' = [heads EXCEPT ![s] = {}]
  /\ episodes' = [episodes EXCEPT ![s] = {}]
  /\ UNCHANGED rows

DeleteDerived(s) ==
  /\ rows' = [rows EXCEPT ![s] = {}]
  /\ UNCHANGED l1Vars

\* Mutant: what is derived is deleted first.
CleanUpDerivedFirst(s) ==
  /\ \/ phase[s] = "open" /\ DeleteDerived(s) /\ Goto(s, "half")
     \/ phase[s] = "half" /\ DeleteL1(s) /\ Goto(s, "cleaned")
  /\ UNCHANGED claimed

CleanUp(s) ==
  /\ \/ phase[s] = "open" /\ DeleteL1(s) /\ Goto(s, "half")
     \/ phase[s] = "half" /\ DeleteDerived(s) /\ Goto(s, "cleaned")
  /\ UNCHANGED claimed

\* The invocation ends, or a transaction of the deletion fails.
Abandon(s) ==
  /\ phase[s] \in {"open", "half"}
  /\ Goto(s, "abandoned")
  /\ UNCHANGED <<l1Vars, rows, claimed>>

-----------------------------------------------------------------------------
(* _sweep_orphaned_adaptive_rows *)

\* Mutant: only what the outbox names is swept.
OrphanedInOutbox == {s \in Scopes : heads[s] = {} /\ "outbox" \in rows[s]}

\* Mutant: a scope that owes no consolidation is taken for an orphan.
OrphanedWhenSettled == {s \in Scopes : "outbox" \notin rows[s]}

Orphaned == {s \in Scopes : heads[s] = {}}

\* All tables in one transaction; there may be nothing to sweep.
Sweep ==
  /\ rows' = [s \in Scopes |-> IF s \in Orphaned THEN {} ELSE rows[s]]
  /\ UNCHANGED <<phase, l1Vars, claimed>>

CleanupNext ==
  \/ \E s \in Scopes, p \in Producers : Demonstrate(s, p)
  \/ \E p \in Producers : Retire(p)
  \/ \E w \in Workers, s \in Scopes : Claim(w, s)
  \/ \E w \in Workers : Build(w)
  \/ \E w \in Workers : Settle(w)
  \/ \E s \in Scopes : CleanUp(s)
  \/ \E s \in Scopes : Abandon(s)
  \/ Sweep

CleanupSpec == CleanupInit /\ [][CleanupNext]_cleanupVars

\* The scheduled event keeps coming, and its sweep succeeds some time.
FairCleanupSpec == CleanupSpec /\ WF_cleanupVars(Sweep)

-----------------------------------------------------------------------------
(* Correctness *)

CleanupTypeOK ==
  /\ phase \in [Scopes -> {"open", "half", "cleaned", "abandoned"}]
  /\ episodes \in [Scopes -> SUBSET Producers]
  /\ heads \in [Scopes -> SUBSET Producers]
  /\ \A s \in Scopes : heads[s] \subseteq episodes[s]
  /\ rows \in [Scopes -> SUBSET Derived]
  /\ claimed \in [Workers -> Scopes \cup {NoScope}]

\* docs/evidence/REAL_EXTERNAL_EXECUTION_SOAK_V11.md:257-267: once a deletion is
\* complete, no table it clears holds a row of the scope, whichever worker had claimed
\* it and whenever that worker consolidates.  The audit of revocations is not cleared.
CleanupIsFinal ==
  \A s \in Scopes : phase[s] = "cleaned" => episodes[s] = {} /\ heads[s] = {} /\ rows[s] = {}

\* tests/test_aws_lambda.py:1384-1385: rules and candidates of a scope that has a head
\* survive: neither a sweep nor the second transaction of a deletion takes them.
AuthoritativeSurvive ==
  [][\A s \in Scopes : heads[s] # {} => rows[s] \cap Audited \subseteq rows'[s]]_cleanupVars

\* src/decisionvault/aws_lambda.py:959-967: what a broken deletion leaves of a scope
\* without heads is gone some day.
DebrisIsSwept ==
  \A s \in Scopes : phase[s] = "abandoned" /\ heads[s] = {} ~> rows[s] = {}

=============================================================================
