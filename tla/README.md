# DecisionVault: models, model checking and proofs

This directory holds a TLA+ model of the DecisionVault service (`src/decisionvault/`),
the TLC configurations that check it on small instances, and TLAPS proofs of what
matters most for every instance. Paths below are relative to the root of the
repository; `aws_lambda.py` and the like are files of `src/decisionvault/`.

    cd tla
    tlc -workers 2 -config GovernedMemory_core.cfg MCGovernedMemoryDeals.tla   # a run
    tlapm GovernedMemoryProofs.tla                                           # the proofs

`PROJECT.json` lists the runs with their modules, the properties each checks, the
source lines every definition stands for, one mutant of the code model per checked
property, the hazards, and the theorems.

## 1. The system

DecisionVault is an AWS Lambda function over a CockroachDB cluster. Agents ask it
what to do in a situation (`POST /decide`), have the signed decision carried out
(`POST /execute`), and report the outcome with the signed receipt (`POST /record`);
`POST /revoke` withdraws a report. Reports become *episodes*; agreeing episodes of
several producers are consolidated into *rules*; both steer later decisions. A
scheduled event (every 5 minutes, `PROJECT_STATUS.md:119`) works off what is left to
do. Any number of invocations run at once, each is killed after 30 s
(`docs/AWS_LAMBDA_DEPLOY.md:15`), and everything they share is in the database, in
GitHub or in Secrets Manager; only the copy of the secrets lives in the process.

| component | state | operations | what is hard | what makes it correct |
|---|---|---|---|---|
| **Governed memory store** `memory/cockroach.py`, `memory/consolidation.py`, `adaptive_memory.py`, `scripts/bootstrap.sql` | `decision_episodes`, `decision_memory_heads`, `decision_memory_revocations`, `decision_governed_memories` (+ support), `decision_strategy_effectiveness` | save (with or without supersession), revoke_current_head, retire_untrusted_heads, consolidate_scope | receipts arrive late and in any order; consolidation, retirement and recording commit in any order; a rule must fall with any head it rests on | heads are the newest non-withdrawn report; history never comes back; a rule rests on current heads only; one rule per slot; ended rules stay ended |
| **Consolidation outbox** `memory/outbox.py`, `aws_lambda.py:710-864` | `decision_memory_consolidation_outbox`; per invocation a claimed batch | enqueue (in the commit that moves a head), claim_scope, claim_due, build, mark_complete, mark_deferred | leases, generations, back-off, crashes in mid-batch, an inline and a scheduled path | no head change is forgotten; no two invocations hold one generation; everything is built in the end |
| **Outcome recording** `aws_lambda.py:1654-2044` | the episodes, one invocation's position in the handler | look up, age check, validate supersession, save, recover | check-then-act over four connections, retries, a lost commit acknowledgement | one episode and one answer per receipt |
| **Decide and execute** `aws_lambda.py:1472-1651`, `execution.py`, `execution_adapters.py` | signed snapshots and receipts (held by callers), files on GitHub | decide, sign, verify, re-decide, sandbox, look up / PUT / read back | memory moves between any two steps; a PUT is late, lost, or answered wrongly | an effect or a receipt is authorised by its snapshot; a receipt proves the effect |
| **Runtime secrets and grants** `runtime_secrets.py`, `agent/auth.py`, `aws_lambda.py:264-372` | per process: copy of the secret, its age, time of the last reconciliation | hydrate, authenticate, reconcile | stale copies in several processes, cold starts | a removed producer stops writing, and being heard, in bounded time |
| **Governed decision** `agent/engine.py`, `agent/memory_governance.py`, `agent/policy.py`, `adaptive_memory.py:876-966`, `memory/governed_query.py` | none: a function of one read | recall (approximate and exact), two resolvers, policy | approximate search, stale or contradicting evidence, two layers that may disagree | the answer does not depend on the search; it cites what stands; vetoes hold; disagreement stays visible |
| Scope deletion and orphan sweep `aws_lambda.py:900-1017` | all tables of a scope | two-phase delete, sweep | a crash between the phases, a consolidation between them | cleanup is final, debris goes, nothing else does |
| **Change of embedding space** `scripts/migrate_semantic_embedding_space.py`, `aws_lambda.py:1158-1424` | `embedding`, `embedding_space` of episodes, heads, rules and statistics; the rows the job has read | discover, migrate a row, readiness probe | the job, producers and workers of two deployments commit in any order; the job may break off | a head keeps its own vector; a deployment that reports ready serves sound rules |
| Telemetry, calibration, retention `memory_telemetry.py`, `aws_lambda.py:600-706` | append-only decisions and outcomes, calibration runs | append (best effort), evaluate, purge, insert a run | lost rows, two events that both find a run due, failures between the four connections | retention keeps up; a decision goes with its outcome; losses hide no more harm than the gates allow |
| Admission counters `rate_limit.py` | one row per principal, group and minute | check | charges that commit minutes late, clean-up by others | at most `limit` admitted per minute |
| The rest | embeddings, model advisors, in-memory store, logging, UI, benchmarks, auditor, schema migrations | | | |

Interactions: `/record` calls the store, whose transaction enqueues the scope; the
request then tries the consolidation inline and leaves it to the scheduled drain
otherwise. Every POST and the scheduled event first refresh the secrets and, when due,
retire the heads of producers without a grant, which enqueues their scopes too.
`/decide` reads heads and rules in one transaction; `/execute` decides again and
compares digests before it acts. `/record` accepts only receipts that `/execute` signed.
`/decide` and `/record` append telemetry after their own commit and swallow its failure;
the scheduled event drains, then sweeps, then calibrates, so a drain that raises also keeps
the sweep and the calibration from running. The re-embedding job is run by hand beside the service and calls
nothing of it; what it leaves undone shows in the readiness probe only.

## 2. Modules

| module | models | lines it stands for |
|---|---|---|
| `RuleLedger` | abstract: what the rule store promises its readers | the promise of `status` and the unique index |
| `ConsolidationContract` | abstract: what the outbox promises of statistics and rules | the purpose of the outbox, `cockroach.py` 560-586, `outbox.py` |
| `GovernedMemory` | the store and consolidation; refines `RuleLedger` and `ConsolidationContract` | `cockroach.py` 150-586, `consolidation.py`, `adaptive_memory.py` 560-870 |
| `ConsolidationOutbox` | outbox and its workers; refines `ConsolidationContract` | `outbox.py`, `aws_lambda.py` 710-864 |
| `OutcomeRecording` | `/record` step by step; refines `GovernedMemory` | `aws_lambda.py` 1654-2044 |
| `DecisionExecution` | `/decide`, `/execute`, both adapters | `aws_lambda.py` 1472-1651, `execution*.py` |
| `RuntimeSecurity` | secrets and grants per process | `runtime_secrets.py`, `agent/auth.py`, `aws_lambda.py` 264-372 |
| `GovernedDecision` | composes recall, resolvers and policy with `GovernedMemory` (EXTENDS it) | `memory_governance.py`, `policy.py`, `governed_query.py`, `adaptive_memory.py` 876-966 |
| `SpaceMigration` | composes the re-embedding job and the readiness probe with `GovernedMemory` (EXTENDS it) | `scripts/migrate_semantic_embedding_space.py`, `aws_lambda.py` 1158-1313, 1395-1424 |
| `TelemetryCalibration` | what the evaluator and its sampling audit conclude from a window: a pure function of a set of rows | `memory_telemetry.py` |
| `MemoryQuality` | telemetry rows, the throttle, the scheduled event connection by connection, the purge (EXTENDS `TelemetryCalibration`) | `memory_telemetry.py`, `aws_lambda.py` 576-665, 1489-1531, 1695-1725, 1928-1940, 2095-2140 |
| `Admission` | the admission counters and the charges in flight | `rate_limit.py` |
| `ScopeCleanup` | deletion of a demonstration's scope, the sweep, and what runs in between | `aws_lambda.py` 900-1017, 1791-1894, 2119-2130 |
| `MC*` | instances for TLC; `MCHousekeeping` puts `MemoryQuality`, `Admission` and `ScopeCleanup` into one run | |
| `*Proofs` | theorems | |

### GovernedMemory

Every operation of the store is one SERIALIZABLE transaction, tried again from its
beginning on SQLSTATE 40001 (`memory/retry.py`), so each is one action and what
interleaves is their order.

* A *receipt* of the model is an episode-to-be: scope, producer, strategy, rule,
  verdict and time of observation are signed, and the unique index on
  `execution_receipt_id` admits one episode per receipt. `Recorded` is
  `decision_episodes`; `heads` is `decision_memory_heads`; `space[r]` and
  `supersedes[r]` are columns of the episode. The verdict abstracts outcome,
  effectiveness and confidence to what the consolidator tells apart.
* `Record`, `Supersede`, `Revoke` and `RetireUntrusted` include, as the code does in
  the same transaction, the upsert of the head under the watermark of the history
  (`IsNewest`, `Upsert`), the revocation of unsupported rules and the enqueue.
* `Consolidate` is the whole of `consolidate_scope`: expiry first, then the governor's
  checks in their order (`Inadmissible`: space, superseded, trust, quorum, staleness;
  then `Contradicted`, `Qualifies`, `NotLate`), promotion, displacement with lineage and the L2
  projection. A worker may run it late or twice, and its `mark_complete` may or may not
  take effect (`done`).
* An operation is served by a process with a registry of producers `g` and an embedding
  space `sp` of its own: `Serve(g, sp)` for any of `GrantSets` and `Spaces`. So two
  deployments, and copies of the grants of any age, are part of every behaviour;
  `RuntimeSecurity` says which copies there can be. `judgedBy` is history: the registry
  and the space of the worker that consolidated a scope last.
* A rule identity is the tuple that `candidate_id` hashes. `active`, `superseded`,
  `revoked`, `expired` are the rows by status.
* `Tick` is the environment.

Two views of the state are refinement mappings: `Ledger` shows a reader's rules to
`RuleLedger`, `Contract` shows heads, statistics and outbox to `ConsolidationContract`.

### ConsolidationContract

A scope has a `state`, the state its latest consolidation `read`, and may be `owed` one.
A commit that changes the state of a scope leaves it owing; the debt ends only with a
consolidation of the state as it then is. `GovernedMemory` implements it with its heads,
`projection` and `outbox`, `ConsolidationOutbox` with its commit counters, `built` and
the rows that exist. So the abstract `outbox` set of the one is what the leases and
generations of the other provide.

### ConsolidationOutbox

`row[s]` is the outbox row with its generation, status, attempts and two clocks that
count down; `heads[s]` counts commits that moved a head of the scope (`Mutate`, with
the enqueue of the same transaction), `built[s]` is what the last consolidation read.
A worker is an invocation: `ClaimScope` (the inline path) or `ClaimDue` (the drain),
then per item `Build` or `BuildFails`, `Complete` or `CompleteFails` (the commit may have
happened), `Defer`; `Crash` also stands for an exception of `mark_deferred`, which
leaves the loop. `epoch` and `reused` are history: they tell when a deleted row's
successor reaches a generation that a live claim still holds, which the code cannot tell.

### OutcomeRecording

`call[w]` is an invocation of `_record` and its phase names what it has established:
`verified` (signature, scope, agent), `missing` (no episode found), `fresh` (age
checked), `valid` (supersession validated), `failed` (the save raised). Each step uses
a connection of its own in the code and is an action here. `Save`, `SaveUnseen` (the
acknowledgement is lost), `SaveRejected` and `SaveFails` are the outcomes of the
transaction. `answers` is the history of replies; `replay` marks an invocation that
began when the receipt already had an episode. A snapshot may be executed by several
agents; their receipts share an id, which is part of the model. A receipt carries its
time of issue, which `_record` stores as the time of observation, and `revocations` is the
table of withdrawn heads (`Withdraw`). `Memory` maps the tables to `GovernedMemory`: an
episode is its receipt, a superseded episode the receipt it was recorded from, and a
receipt may be recorded for `ReceiptTTL` plus the age of one invocation.

### DecisionExecution

`memory` is the state of the governed memory, identified with the digest of the
decision it leads to; any commit may change it between any two steps. `/decide` is
`Decide`, then `IssueSnapshot`; `/execute` is `Accept` (signature, scope, age),
`Redecide` (strategy and digest), then `SandboxExecute` or, with the GitHub adapter,
`LookUp`, `Put` and up to `Attempts` `Read`s. A PUT becomes an element of `inflight`
that GitHub may act on later, never, or after somebody else's; a file is visible to
every read only after `Propagate`. What a signature protects is a set that only the
signing actions extend.

### RuntimeSecurity

Per process: `env` (AGENT_AUTH_JSON), `secretAge` and `reconcileAge` (the ages of
`_SECRET_CACHE_AT` and `_SECURITY_RECONCILE_AT`) and the request it serves. `Arrive`
hydrates and reads the clock, `Reconcile` retires the heads the copy does not name
and sets the clock to the time read at arrival, `Record` and `Answer` end the request.
`Recycle` replaces a process; `BootUptimes` is what `time.monotonic()` may then show.
`head[a]` remembers for how long a producer had been removed when it wrote its head.

### GovernedDecision

Extends `GovernedMemory` by one action. `Decide` reads some set of neighbours (any
subset of the heads of the space up to the limit: the approximate index promises
nothing) merged with the exact coverage, and evaluates
`Policy(scope, space, recalled)`: `Resolve` is
`ConflictAwareMemoryResolver`, `ResolveRules` is `GovernedAdaptiveMemoryResolver`, `Policy` is
`OutcomeAwarePolicy.decide`, branch by branch. The request is fixed by the constants:
`Relevant` are the receipts above the similarity threshold, `Signal` the weight of a
vote before recency, `Strength` the effective confidence of a rule; the numbers are
integers in one unit (`Scaled`), the shape of the comparisons is the code's.
`MCGovernedDecision` has a generic retry and a fresh token, each reported on by two
producers with opposite verdicts, and an older report of a third producer in a situation
unlike the request's, which can make a rule, join one, be displaced or come too late.

### SpaceMigration

Extends `GovernedMemory` by what a change of the embedding space adds: `vector[r]` is
the episode the stored embedding of `r` was computed from, `statistics[s]` the space the
L2 rows of a scope were written in, `plan` the rows the job has read. `Discover` is the
job's one query, `Migrate(row)` one UPDATE with its compare-and-set on episode and space,
`Break` an error or `--limit`; every action of the store runs in between, saves and
consolidations in either space, as two deployments side by side make them. `Ready(sp)` is
what `_probe_readiness` counts: heads, rules with their support, and L2 rows of another
space. The order of the job's query is left open. Processes may differ in their registries,
and heads may be retired during a migration; there is one target: see section 4 for what
happens otherwise.

### TelemetryCalibration and MemoryQuality

`TelemetryCalibration` defines `Recommended(S)`, the profile a calibration run
recommends for a window `S` of rows, from the same gates as the code: labels, balance,
span, age of memory, stability; then retention and harm overall and per stratum; then the
order of preference. Percentages are compared by cross-multiplication, so nothing is
rounded. An outcome is one of what the evaluator tells apart.

In `MemoryQuality`, `Decide`, `Record` and `Replay` are the requests seen by the rows they
append: the row of a decision or of a first outcome may be lost, a replay of a recorded
receipt appends again at any age. A scheduled event is an invocation in four phases, one
per connection (`Start`: is a run due; `Purge`; `Evaluate`; `Insert`), and other
invocations, explicit calibrations (`StartExplicit`, which neither asks nor purges, as often
as anybody likes) or a failure (`Abort`) may come between any two. `age[s]` is the time since a snapshot was
issued, cut off where no retention tells times apart.

### Admission

A request reads its minute once (`Arrive`) and commits its charge later (`Commit`, at
most two minutes later): upsert and clean-up of old rows in one transaction, with a reply
that may be lost; `GiveUp` is a transaction that fails for good. `admitted` is history.

### ScopeCleanup

`phase[s]` is how far the demonstration that owns the scope has got: `open` (its `try`
block, or a scope in service, which never leaves it), `half` (the first transaction of
`_delete_scope` is through), `cleaned`, or `abandoned` (a transaction failed or the
invocation was killed). `rows[s]` names the derived tables that hold rows of the scope.
`Demonstrate`, `Retire`, `Claim`, `Build` and `Settle` are the operations of `GovernedMemory`
and `ConsolidationOutbox` seen by what they leave in those tables: `Build` writes anew the
statistics, adds candidates and rules, and finds nothing to write without heads. A claim
outlives the deletion of its scope. `CleanUp` is one transaction of `_delete_scope` at a
time, `Sweep` the whole of `_sweep_orphaned_adaptive_rows`.

## 3. Runs

All runs use the modules as they stand; a cfg gives constants their values, and in four
runs a view.

| run | question | instance | distinct states |
|---|---|---|---|
| `GovernedMemory_core` | do heads, history, rules and outbox agree after every order of commits; is anything left to consolidate in a scope that owes nothing; do the rules implement `RuleLedger`, heads, statistics and outbox `ConsolidationContract`? | 3 producers, 2 strategies; one of three environments, see below | 112 k |
| `GovernedMemory_switch` (violation) | does a late receipt stay history after a supersession into another strategy? | 1 producer, 3 receipts | ends at the violation |
| `ConsolidationOutbox_reuse` (violation) | is a newer enqueue never lost, as a test and a document say? | 1 scope, 2 workers, 3 commits, 1 fault | ends at the violation |
| `ConsolidationOutbox_work` | do rows, leases and generations implement `ConsolidationContract`? is a claim doubled, a change hidden behind a back-off? is every change built and the outbox drained? | 2 scopes in a batch, 2 workers, 2 commits, 1 fault | 62 k |
| `OutcomeRecording_recording` | one episode and one answer per receipt id? does the handler do to the store what the operations of `GovernedMemory` do? | 4 receipts of 3 snapshots and 2 agents, 2 invocations, 1 fault | 154 k |
| `DecisionExecution_effects` | is every effect and every receipt authorised and true? | 1 snapshot, 2 invocations, 3 memory states, both providers | 1.08 M |
| `RuntimeSecurity_revocation` | does a removed producer fall silent in time, and does none that is granted lose its head? | 2 processes, 1 producer, 2 changes, 1 fault | 174 k |
| `RuntimeSecurity_coldstart` (violation) | the first for a process on a host that just started | `BootUptimes` = 0..2 | ends at the violation |
| `GovernedDecision_answers` | what holds of every answer in every state of the memory; are rules unanimous, and does a contradiction end them? | 3 producers, 2 strategies, 5 receipts | 57 k |
| `SpaceMigration` | does a head ever carry another's vector, and does a passing probe mean sound rules? | 2 producers, 3 receipts, 2 spaces, 2 registries | 122 k |
| `Housekeeping` | does retention keep up, delete in pairs, and can it starve; can losses hide harm from the evaluator; is a limit kept; is a finished deletion final, a broken one swept, a living scope spared? | one of four environments, see below | 199 k |
| `Housekeeping_orphans` (violation) | are outcome rows bounded like decision rows? | the same | ends at the violation |

`MCGovernedMemoryDeals` chooses one of three environments, since their product is out of
reach and no property needs two of them: *one scope* (five receipts of three producers,
one registry, one space), *two scopes* of different quorum (three receipts, two registries,
two spaces), *two deployments* of one scope (three receipts, two spaces). The security
reconciler may hold either registry in all of them.

`MCHousekeeping` chooses one of four environments that share nothing: *retention* (one
snapshot, two invocations, two faults, any number of explicit calibrations), *evaluation* (four
snapshots in one window, every subset of them lost), *admission* (a principal with a
limit of 2 and one without, two callers, four minutes), *cleanup* (two scopes, two
workers).

**Why the bounds are enough.** A head or rule property relates at most two episodes of
a key, two rules of a slot, or an episode and the rule resting on it, so five receipts
of three producers let every clause be reached from several sides: a rule of two
producers, a third that displaces it or is too late, one that contradicts, one that
switches strategy. In the environment of two scopes a producer may be unknown to one
process and known to the next; in that of two deployments a late agreement, and a late
receipt from the other space, meet a rule that is displaced or taken by them. Receipts are
recorded up to one tick late, and the clock runs until the first rules have expired.
Two invocations are the smallest number that races; a second
commit finds the row of the first claimed, deferred, reused or gone, and a batch of two
scopes lets an invocation die between them. The receipts of `OutcomeRecording_recording` have
TTL 0 so that freshness can expire between any two steps, and a late duplicate, a
second agent's copy and two competing supersessions are all there. In `DecisionExecution`
time is long enough for a snapshot to expire in mid-execution and for a late creation to
follow it; a snapshot has one strategy there, and that the file a receipt proves has the
strategy of its snapshot is left to the proof. In `RuntimeSecurity` ages are cut off at the value from which they make no
difference, so time itself is unbounded. In `GovernedDecision_answers` every branch of the
policy and of both resolvers is reached. `FreshContradictionRevokes`
is checked there with one producer as quorum, so that rules rise and
fall often. In
`SpaceMigration` a receipt makes a rule, one contradicts it and one takes the head of its
key while the job holds the old row; a rule can still expire. In the retention
environment time passes the longest retention; two invocations overlap in every phase.
The evaluation environment has a profile that is recommended and one that a lost row
would make look harmless, under a policy small enough for four rows. A charge may commit
two minutes late, the most a row is kept, and the fourth minute cleans up. The cleanup
environment has no bound but its names: two workers so that one can hold a claim of the
deleted scope while the other settles it, two scopes so that a sweep meets a living and a
deleted one; producers of a scope act alike, and the safety part is proved for any number.

**Views and symmetry.** Two invocations, drawn ids and two receipts that differ in
nothing but their id are interchangeable; no liveness property is checked under
symmetry. The view of `MCOutcomeRecording` forgets right answers: no
action reads the answers, and what is right stays right because episodes never change.
The views of `MCGovernedDecision` and `MCSpaceMigration` forget
history that no guard and no property reads but for whether it is empty; they and that of
`MCGovernedMemoryDeals` forget who judged a scope while it owes a consolidation, which
the next settlement overwrites before a property reads it.

**Fairness.** `ConsolidationOutbox`: an invocation runs on unless it crashes, the
schedule keeps starting drains, time passes; faults are bounded, i.e. failures are
transient. Nothing is assumed of the inline path and of the commits. `RuntimeSecurity`: the
scheduled event keeps reaching *some* process, requests are served, time passes.
Without traffic nothing makes a process reconcile (`aws_lambda.py:339`), so the schedule,
which is part of the deployment, has to be assumed; strongly, because a process that is
serving cannot take it. `ScopeCleanup`: the scheduled sweep succeeds some time (weak, it is
always possible); the drain comes first in the same event, so this assumes that the drain
does not raise for ever. `MemoryQuality`: time passes, the `rate(5 minutes)` schedule
(`PROJECT_STATUS.md:119`) keeps starting an invocation when a run is due, and an
invocation that has started goes on unless it dies; faults are bounded, and here too the
drain before it does not raise for ever. That explicit calibrations cease is *not*
assumed: `EventuallyPurged` names the runs of theirs that close the throttle as the one
thing that can keep a row, and without that clause TLC finds the behaviour in which they
do. The other modules claim safety only.

Deadlock is checked in every run but the two of `Housekeeping`, whose admission and evaluation
environments end when their minutes and their run are over.

## 4. Disagreements between code and documents

1. `GovernedMemory_switch`: the watermark is per (scope, strategy, producer). A
   supersession into another strategy deletes the old strategy's head and leaves its
   watermark behind, so an older receipt of the old strategy that arrives late is a head
   again, contrary to the comment at `memory/cockroach.py:232-235`. `NoResurrection`
   is what does hold, and is proved.
2. `RuntimeSecurity_coldstart`: `_SECURITY_RECONCILE_AT = 0.0` means "never" but is
   compared with `time.monotonic()`, so a process on a freshly started host skips the
   first reconciliation (`docs/evidence/SECRETS_MANAGER_RUNTIME.md:85-91` promises it before
   every authenticated POST). `LatencyBounded` holds, and is proved, when the clock
   starts past the interval.
3. `Housekeeping_orphans`: the purge finds outcome rows through their decision rows. A
   decision row that was never stored (its insert is best effort), or a receipt presented
   again after the purge, leaves an outcome row nobody deletes, where
   `docs/evidence/MEMORY_TELEMETRY_RETENTION_BIAS_V3.md:15` bounds both and lines 30-32
   exclude orphans. `RetentionRidesThrottle` and `PurgeIsClean` hold, and are proved.
4. `ConsolidationOutbox_reuse`: a generation starts at 1 again after `mark_complete` deleted
   a row (`memory/outbox.py:33`). A worker that holds generation 1 of a row which another
   one overtook, built and deleted may complete the row that follows it, and with it an
   obligation it has not built; if the worker that has claimed it then dies, the change is
   owed by nobody until the next commit in the scope. `docs/evidence/GOVERNED_ADAPTIVE_MEMORY_V7.md:222`
   calls the obligation durable and generation-safe, and the test at
   `tests/test_consolidation_outbox.py:100` says by its name that a newer enqueue cannot be
   lost. Outside of exactly this case (`reused`) the outbox keeps `ConsolidationContract`,
   which is proved.

Met while modelling, and not checked by a run of its own:

* `agent/policy.py:144` returns `memory_conflict=False` for a disagreement the votes
  resolved, where `README.md:400-401` and `docs/evidence/MULTI_AGENT_MEMORY_GOVERNANCE.md:61-62`
  say it stays true. `Policy` models what the code returns; the governance trace does keep
  the disagreement (`DisagreementTraced`, proved).
* A promoted candidate is never judged again (`consolidation.py:165`), so an agreement
  whose very rule has ended is not promoted a second time although the same heads still
  stand: displaced by a rule that a third producer joined, say, who then revokes his
  report. `NothingOverlooked` carries that exception in `Judged`.
* When the second copy of a superseding request validates after the first one saved,
  it is refused with 409 although the receipt is recorded; a retry is then answered.
* A process that reconciles with an old copy of the grants retires the heads of a
  producer granted since.
* A contradiction is not heard while another episode of the group is past its age,
  because the governor abstains before it looks for contradiction
  (`FreshContradictionRevokes` carries that exception).
* A refuted generic retry recommends a fresh payment token (`memory_governance.py:95-106`)
  even where the token's own evidence is against it.
* The digest of a decision covers the number of candidates read, so an unrelated
  neighbour can make a snapshot stale; the cost is a new decision.
* The orphan sweep cannot tell a deleted scope from one in service whose last head was
  revoked; the rules' history of that scope goes with the debris. The comment at
  `aws_lambda.py:966-968` has only the row of an in-flight record in mind.
* A demonstration killed before its `finally` leaves its episodes and heads for good:
  nothing sweeps authoritative rows (`DebrisIsSwept` speaks of scopes without heads).
* `_delete_scope` leaves `decision_memory_revocations`, the append-only audit of revocations,
  alone. The model has no such table, and `CleanupIsFinal` speaks of all others.
* A contradiction that is consolidated by a process whose registry lacks one of its
  producers is abstained on and its obligation cleared; if the grant is there after all, the
  rule stands until the next commit in the scope. `FreshContradictionRevokes` carries that
  exception, by the registry in `judgedBy`.
* A save ends every rule of its scope that is of another space than the saving process
  (`cockroach.py:343-366`), but enqueues the scope only if its receipt is newer than
  the history of its key. So a late receipt that reaches a process of the other deployment
  ends the rules of the scope and owes nothing: they come back only with the next commit,
  and under another identity. `NothingOverlooked` carries that exception (`TakenFromAfar`).
* The re-embedding job enqueues no scope and touches no rule or statistics: after it, rules
  and L2 rows of the old space keep readiness at 503 until their scope is consolidated
  again or the rules end by themselves.
* A worker of the other deployment may consolidate a scope, abstain because its evidence
  spans spaces, and clear the obligation. `ReadyIsSound` shows that the probe catches what
  is left behind as long as heads migrate one way; heads migrated back could make it pass.
* A lookback longer than the raw retention is accepted by the settings (the purge compares
  its argument with the default lookback only); the model assumes `Lookback < Raw`.
* An explicit calibration advances the throttle without purging (`aws_lambda.py:2104-2112`),
  and nothing limits how often it is invoked. After the last one the schedule makes up
  for it within an interval and the time to its next event; explicit calibrations that keep
  coming within an interval of each other keep the purge from running at all
  (`EventuallyPurged`). `RetentionRidesThrottle` therefore speaks of scheduled runs.
* Rows written before a profile existed are skipped in the strata and counted as not kept
  in the total; the label gate does not notice a lost decision row, because
  it counts only what is stored.
* The gate `retained_harmful <= champion_harmful` can never fail; `success_retention` is
  rounded to six digits before profiles are ranked by it, which the model does not do.
* A drain that raises keeps the sweep and the calibration of the same event from running.
* `/demo` and `/governance-demo` count against the same admission row.
* `review_memory_calibration.py` reviews the newest run of any source.

## 5. Proofs

Everything below is proved by TLAPS for all constants that satisfy the named
assumptions of the modules (types, positive bounds, distinct names; `Timeout < Lease` for
the outbox, which `CONSOLIDATION_LEASE_SECONDS` and the Lambda's limit satisfy).

* **GovernedMemoryProofs.** `TypeCorrect`. `HeadInv` adds to the three head properties
  that heads and revocations are recorded: then a save under `IsNewest` keeps the
  watermark because `Upsert` replaces the only head of the key, and a withdrawn episode
  cannot return because only an unrecorded receipt enters the heads. From it
  `HeadWatermark`, `WithdrawnStaysHistory`, `SupersessionIsLinear` and, as an action
  property, `NoHeadResurrects`. `RuleInv` joins `SupportIsCurrent`, `OneActivePerSlot`,
  `Unanimous` and `EndedNeverActive`; none is inductive alone: that a promoted candidate is
  not in another status needs `EndedNeverActive`, that it is the only one of its slot
  needs that all evidence of the slot is its support. `RuleLineageIsLinear`.
  * *Refinements.* `StoreImplementsLedger` maps every step to `RuleLedger!Change` or a
    stutter; `StoreKeepsContract` maps every step to a `Commit` or a `Consolidate` of
    `ConsolidationContract`. `HeadChangesAreOwed` (in a scope that owes nothing the
    statistics are those of its heads) is the invariant a reader sees of it.
  * *Contradiction.* `PromotionsStand`: what was ever promoted rests on receipts that
    qualified. `Stranded`, for any registries and spaces: in a scope that owes nothing, a
    rule that its latest worker could have struck is of another space than that
    worker's. A consolidation keeps it because a worker of the rule's space strikes what is
    strikable (`StrikableIsStruck`) and promotes nothing that is opposed; every other
    commit either leaves the evidence of the scope alone or owes. With one space, which
    `ContradictionRevokes` assumes, there is no such rule; the theorem does not hold without
    the assumption, and `ReadinessIsSound` says what holds then.
  * *Settlement.* `NothingIsOverlooked`, for any registries and spaces: a consolidation
    leaves its scope settled whatever it found, i.e. one more like it would strike and
    promote nothing (`ConsolidationSettles`); a commit that moves a head of the scope
    owes; no other commit makes a candidate admissible or takes a rule it was late to, but
    a save from another space, and time only makes candidates inadmissible
    (`SettledStays`, `JudgedShrinks`). The expiry of a rule at one time and later compares
    its latest observation with the clock, so it needs that `Max` of the observations
    exists: it does because nothing recorded is observed after `now + FutureSkew`
    (`ObservedInTime`, `MaximumExists`).
* **ConsolidationOutboxProofs.** `OutboxInv`: a claim's epoch and generation never lie
  ahead of the row; a claim that matches the row is leased for at least `Lease` minus the
  age of its invocation; a job that is built and current has built the present heads.
  From it `OutboxKeepsContract`: `Complete` ends a debt only when the fence matched, hence
  when the job built what the scope now has, and every other step is a commit that owes, a
  consolidation that ends nothing, or a stutter. `ObligationIsKept` is the invariant behind it.
  Further `LeaseIsExclusive`; `ChangesAreDue` is an action property.
* **OutcomeRecordingProofs.** `RecordingInv` adds what each phase knows (`Sound`): a
  replaying call always finds its episode, a fresh call is at most its own age past the
  receipt's end. From it `AllRepliesAgree`, `ReplaysAreAnswered`, `RecordingIsTimely`,
  `SupersessionIsLinear`. `RecordingImplementsStore`: each step of the handler is a `Record`,
  `Supersede`, `Revoke` or `Tick` of `GovernedMemory!Spec`, or a stutter. `StoreInv` is what the
  mapping needs beyond `RecordingInv`: ids name one episode each, so "the episode that was
  replaced" is one; a revoked episode is no head; nobody holds a receipt from the future.
* **DecisionExecutionProofs.** `ExecutionInv`: a cleared call has seen the digest that
  was signed, and a call's age bounds how far the snapshot is past its end. From it
  `EffectsAreAuthorised`, `ReceiptsAreAuthorised`, `ReceiptsProveTheEffect`.
* **RuntimeSecurityProofs.** `WritesInv` bounds how long ago a producer a process still
  names was removed, by the age of the copy and of the request; `LatencyInv` does the
  same for heads by the age of the reconciliation. `WritesAreBounded` without further
  assumption, `RevocationIsBounded` under `BootUptimes = {ReconcileInterval}` (disagreement 2
  shows why), `GrantsAreHonoured` from the age of the copy a process may reconcile with.
* **GovernedDecisionProofs.** `DecisionSpec` implements `GovernedMemory!Spec`, so the
  invariants above hold of what is read. `ActiveHeads`: after the filter the heads that
  vote are those of the coverage, plus neutral ones that carry no vote; hence equal votes
  (`SameVotes`) and an equal resolution (`SameResolution`), which gives
  `CoverageAlwaysDecides`; `VetoAlwaysHolds` and `DisagreementAlwaysTraced` by the
  branches of the policy; `EvidenceAlwaysStands` from `HeadInv` and `SupportIsCurrent`.
* **SpaceMigrationProofs.** `StoreInv`: the invariants of `GovernedMemory` survive the job,
  because it moves only heads and only to `Target`, and `EmbeddingIsOwn`, because the
  UPDATE finds the episode that was read (`VectorsAreOwn`). `ReadyInv` adds
  `TargetIsOneWay` (the evidence of a rule in `Target` stays there, so the job makes no rule
  strikable that was not), `Stranded`, which all other steps keep as steps of
  `GovernedMemory`, and `StatisticsTell` (the L2 rows of a scope that owes nothing are in the
  space of its latest worker). From it `ReadinessIsSound`: a rule left standing against
  evidence was left by a worker of another space, and the probe counts the rows he wrote.
* **HousekeepingProofs**, in three parts. *Quality*: `RetentionInv` bounds the age of a row by the phase of
  every invocation that has yet to insert, which gives `RetentionBounded`; `PurgesAreClean`
  from `Lookback < Raw`; `LossBounded` by counting (`HiddenHarm`): what the memory knows
  and the evaluator does not is among the exposed rows without a label, and the label
  gate bounds those. *Admission*: `AdmissionInv` says that a row a charge in flight will count
  up is not cleaned up before it commits, so `admitted` never exceeds the count
  (`AdmissionHolds`). *Cleanup*: `CleanupInv` adds `L1StaysGone` to the types: after the
  first transaction the scope has no head, so nothing can be enqueued by a revocation nor be
  written by a consolidation, whenever its worker claimed the scope. From it
  `CleanupStaysFinal`, and `AuthoritativeRowsSurvive` as an action property: the second
  transaction runs only on a scope without heads.

Only model-checked: the liveness properties `EventuallyBuilt`, `OutboxDrains`,
`EventuallyRetired`, `EventuallyPurged` and `DebrisIsSwept`; liveness under fairness is out of
the prover's reach. The four violations are TLC counterexamples. Type invariants are
proved and, where the proof stands, not run again.

## 6. Not modelled, and why

* Embedding and model providers, similarity, JSON, HTTP parsing: data the properties do
  not tell apart; the advisor's text never enters a decision.
* Signatures and hashes are taken as unforgeable and injective.
* Rotation of signing keys: an operator's action, no code of `src/` performs it.
* Which process knows which grants when is the subject of `RuntimeSecurity`; in
  `GovernedMemory` an operation may be served with any of the registries.
* Clock skew between database and Lambda: one clock; skew delays a claim to the next event.
* Latencies inside an invocation are its age, up to its time limit.
* Readiness beyond the counts of another space: schema, privileges and configuration are
  facts of a deployment, and its answer is cached for seconds.
* `memory_quality.py` (an offline evaluation of labelled files), and the wording and
  statistics of the sampling audit beyond its gate.
* The order in which the re-embedding job takes its rows, and its `--limit`: any order, and
  it may break off anywhere.
* In-memory store, UI, what the demonstrations decide, benchmarks, auditor, schema
  migrations and the other operators' scripts: no state another component reads, or not
  part of the service.

## 7. Plan

Done, in this order: `RuleLedger` and `GovernedMemory` with proofs,
`ConsolidationOutbox`, `OutcomeRecording`, `DecisionExecution`, `RuntimeSecurity`,
`GovernedDecision`, `ScopeCleanup`, `TelemetryCalibration` and `MemoryQuality`, `Admission`,
`SpaceMigration`, each with its runs and theorems.

Then the refinements that tie the modules together: the store and the outbox to
`ConsolidationContract`, `/record` to the store, and what consolidation leaves
(`NothingOverlooked`).

Next:

1. `DecisionExecution` over `GovernedDecision`: the digest as a function of the answer, so
   that "still decided" is proved to mean that the cited evidence still stands.
2. `RuntimeSecurity` as a refinement of the recording and retiring actions of
   `GovernedMemory`, which bounds the age of the registries that `Serve` may find.
3. `SpaceMigration` with a migration that is rolled back, i.e. a second target.

The number of runs is kept small on purpose: components that share nothing share a run as
environments of it, as those of `GovernedMemory_core` and `Housekeeping` do.
