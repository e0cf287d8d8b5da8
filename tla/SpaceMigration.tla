---------------------------- MODULE SpaceMigration ----------------------------
(***************************************************************************)
(* The change of embedding space of a running system: the job of           *)
(* scripts/migrate_semantic_embedding_space.py re-embeds the current heads *)
(* row by row while producers, revocations and consolidation workers of    *)
(* the old and of the new deployment commit, and the readiness probe       *)
(* decides from the data when a deployment may serve.                      *)
(*                                                                         *)
(* The job reads all the rows it will write in one transaction and writes  *)
(* each in one of its own.  It touches no rule, no statistics and no       *)
(* outbox row.                                                             *)
(***************************************************************************)
EXTENDS GovernedMemory

CONSTANT Target   \* the embedding space the job re-embeds the heads into

ASSUME TargetAssumption == Target \in Spaces

VARIABLES
  vector,      \* [Receipts -> the episode its stored embedding was computed from]
  statistics,  \* [Scopes -> the space its L2 rows were written in, if it has rows]
  plan         \* the rows the job has read and not yet written

migrationVars == <<vars, vector, statistics, plan>>

-----------------------------------------------------------------------------
(* The job *)

MigrationInit ==
  /\ Init
  /\ vector = [r \in Receipts |-> NoReceipt]
  /\ statistics = [sc \in Scopes |-> NoSpace]
  /\ plan = {}

\* The first query: the heads that are not in the target space.
Discover ==
  /\ plan = {}
  /\ plan' = {[episode |-> h, space |-> space[h]] :
                h \in {g \in heads : space[g] # Target}}
  /\ plan' # {}
  /\ UNCHANGED <<vars, vector, statistics>>

\* Mutant: the head is found by its key and space alone.
HeadsOfKey(row) == {h \in heads : Key(h) = Key(row.episode) /\ space[h] = row.space}

\* The head row the UPDATE still finds: the episode and the space that were read.
Unmoved(row) == {h \in heads : h = row.episode /\ space[h] = row.space}

\* A transaction per row.  A head replaced, withdrawn or re-embedded since it
\* was read is skipped.
Migrate(row) ==
  /\ row \in plan
  /\ space' = [r \in Receipts |-> IF r \in Unmoved(row) THEN Target ELSE space[r]]
  /\ vector' = [r \in Receipts |->
                  IF r \in Unmoved(row) THEN row.episode ELSE vector[r]]
  /\ plan' = plan \ {row}
  /\ UNCHANGED <<now, supersedes, heads, revocations, ruleVars,
                 projection, outbox, judgedBy, statistics>>

\* An error, or --limit, ends the job before the rest of the rows.
Break ==
  /\ plan # {}
  /\ plan' = {}
  /\ UNCHANGED <<vars, vector, statistics>>

-----------------------------------------------------------------------------
(* The store beside it *)

\* A save embeds the situation of its own episode.
Embedded(r) == vector' = [vector EXCEPT ![r] = r] /\ UNCHANGED <<statistics, plan>>

\* Consolidation rewrites the L2 rows of its scope in the space of the worker.
Consolidated(sc, sp, g, done) ==
  /\ Consolidate(sc, sp, g, done)
  /\ statistics' = [statistics EXCEPT ![sc] = IF HeadsOf(sc) = {} THEN NoSpace ELSE sp]
  /\ UNCHANGED <<vector, plan>>

\* The operations of the store, by processes of both deployments.
ServeBeside(g, sp) ==
  \/ \E r \in Receipts : Record(r, sp, g) /\ Embedded(r)
  \/ \E r, t \in Receipts : Supersede(r, t, sp, g) /\ Embedded(r)
  \/ (\E r \in Receipts : Revoke(r, g)) /\ UNCHANGED <<vector, statistics, plan>>
  \/ RetireUntrusted(g) /\ UNCHANGED <<vector, statistics, plan>>
  \/ \E sc \in Scopes, done \in BOOLEAN : Consolidated(sc, sp, g, done)

MigrationNext ==
  \/ \E g \in GrantSets, sp \in Spaces : ServeBeside(g, sp)
  \/ Tick /\ UNCHANGED <<vector, statistics, plan>>
  \/ Discover
  \/ \E row \in plan : Migrate(row)
  \/ Break

MigrationSpec == MigrationInit /\ [][MigrationNext]_migrationVars

-----------------------------------------------------------------------------
(* Readiness: the counts _probe_readiness takes of the data *)

\* No head is left in another space than the configured one.
HeadsIn(sp) == \A h \in heads : space[h] = sp

\* Every ACTIVE rule is of that space and its support is current in it.
RulesIn(sp) ==
  \A m \in active :
    /\ m.space = sp
    /\ \A e \in m.support : e \in HeadsOf(m.scope) /\ space[e] = m.space

\* Every L2 row was written in that space.
StatisticsIn(sp) == \A sc \in Scopes : statistics[sc] \in {NoSpace, sp}

\* Mutant: the L2 rows are not counted.
ReadyByRules(sp) == HeadsIn(sp) /\ RulesIn(sp)

\* An instance configured for space sp reports 200, as far as the data decides.
Ready(sp) == HeadsIn(sp) /\ RulesIn(sp) /\ StatisticsIn(sp)

-----------------------------------------------------------------------------
(* Correctness *)

\* The embedding stored with a current head was computed from that episode, in
\* whatever order the job and the producers commit: the compare-and-set on the
\* episode and its space never puts the vector of a replaced head on its
\* successor.
EmbeddingIsOwn == \A h \in heads : vector[h] = h

\* When the probe of a deployment passes, its rules keep the promises that a
\* change of space can break: each rests on current heads of its space, and in a
\* scope that owes no consolidation none stands against fresh evidence.  A
\* worker of the other deployment may abstain on a contradiction it cannot
\* compare and still clear the obligation; what it then leaves behind keeps the
\* probe from passing.
ReadyIsSound ==
  \A sp \in Spaces : Ready(sp) => SupportIsCurrent /\ FreshContradictionRevokes

=============================================================================
