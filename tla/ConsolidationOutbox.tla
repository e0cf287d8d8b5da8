-------------------------- MODULE ConsolidationOutbox --------------------------
(***************************************************************************)
(* The durable outbox that carries every committed head change to the      *)
(* consolidation of its scope, and the Lambda invocations that work it off *)
(* in parallel: claim under a lease, consolidate, then complete or defer   *)
(* under the generation that was claimed.                                  *)
(*                                                                         *)
(* A commit of save, revoke_current_head or retire_untrusted_heads is a    *)
(* Mutate step: what it does to the heads is counted in heads[s] (see      *)
(* GovernedMemory), what it does to the outbox is modelled in full.        *)
(* Clocks count down: lease and wait are the seconds left until            *)
(* lease_until and next_attempt_at, so that time needs no bound.           *)
(***************************************************************************)
EXTENDS Integers, FiniteSets

CONSTANTS
  Scopes, Workers,
  NoRow, NoItem,
  BatchLimit,      \* CONSOLIDATION_RETRY_BATCH_SIZE
  Lease,           \* CONSOLIDATION_LEASE_SECONDS
  Timeout,         \* the Lambda's time limit
  BackoffCap,
  MaxMoves,        \* bound on head-moving commits per scope
  MaxFaults        \* bound on failed transactions and crashed invocations

ASSUME BoundsAssumption ==
  /\ BatchLimit \in Nat \ {0} /\ Timeout \in Nat \ {0} /\ Lease \in Nat
  /\ Timeout < Lease
  /\ BackoffCap \in Nat /\ MaxMoves \in Nat /\ MaxFaults \in Nat

\* A row of decision_memory_consolidation_outbox.
Row == [gen : Nat \ {0}, status : {"PENDING", "RUNNING"}, attempts : Nat,
        wait : Nat, lease : Nat]

\* A ConsolidationWorkItem; epoch identifies the row it was read from, which the
\* code does not record.
Item == [scope : Scopes, gen : Nat, attempts : Nat, epoch : Nat]

ASSUME NamesAssumption == NoRow \notin Row /\ NoItem \notin Item

VARIABLES
  row,       \* decision_memory_consolidation_outbox, by scope
  heads,     \* number of commits that moved a head of the scope
  built,     \* the value of heads the latest consolidation of the scope read
  claimed,   \* work items an invocation claimed and has not settled
  job,       \* the item it works on
  phase,     \* where it is in that item
  age,       \* seconds since the invocation started
  faults,
  epoch,     \* history: how many rows the scope has had
  reused     \* history: scopes in which a claim saw its generation come back

rowVars == <<row, heads, epoch, reused>>
workerVars == <<claimed, job, phase, age>>
vars == <<rowVars, built, workerVars, faults>>

-----------------------------------------------------------------------------
(* State formulae *)

HasRow(s) == row[s] # NoRow

Smaller(a, b) == IF a <= b THEN a ELSE b

\* min(3600, 2 ** min(n, 10)), for n >= 1
Backoff(n) ==
  Smaller(BackoffCap, <<2, 4, 8, 16, 32, 64, 128, 256, 512, 1024>>[Smaller(n, 10)])

\* Mutant: a RUNNING row is never claimed again.
DueIfPending(s) == HasRow(s) /\ row[s].wait = 0 /\ row[s].status = "PENDING"

\* Mutant: the lease is not consulted.
DueUnleased(s) == HasRow(s) /\ row[s].wait = 0

Due(s) ==
  /\ HasRow(s)
  /\ row[s].wait = 0
  /\ row[s].status = "PENDING" \/ row[s].lease = 0

Idle(w) == claimed[w] = {}

\* Mutant: the fence expects the row to have been released.
FencedReleased(i) ==
  HasRow(i.scope) /\ row[i.scope].gen = i.gen /\ row[i.scope].status = "PENDING"

\* mark_complete and mark_deferred touch only the row that is RUNNING under the
\* generation that was claimed.
Fenced(i) ==
  HasRow(i.scope) /\ row[i.scope].gen = i.gen /\ row[i.scope].status = "RUNNING"

-----------------------------------------------------------------------------

Init ==
  /\ row = [s \in Scopes |-> NoRow]
  /\ heads = [s \in Scopes |-> 0]
  /\ built = [s \in Scopes |-> 0]
  /\ claimed = [w \in Workers |-> {}]
  /\ job = [w \in Workers |-> NoItem]
  /\ phase = [w \in Workers |-> "ready"]
  /\ age = [w \in Workers |-> 0]
  /\ faults = 0
  /\ epoch = [s \in Scopes |-> 0]
  /\ reused = {}

NewRow == [gen |-> 1, status |-> "PENDING", attempts |-> 0, wait |-> 0, lease |-> 0]

Advanced(r) ==
  [gen |-> r.gen + 1, status |-> "PENDING", attempts |-> r.attempts,
   wait |-> 0, lease |-> 0]

\* Mutant: an existing row keeps its generation.
EnqueueSameGen(s) ==
  row' = [row EXCEPT ![s] =
    IF HasRow(s) THEN [@ EXCEPT !.status = "PENDING", !.wait = 0, !.lease = 0]
                 ELSE NewRow]

\* Mutant: an existing row keeps its backoff.
EnqueueBehindBackoff(s) ==
  row' = [row EXCEPT ![s] =
    IF HasRow(s) THEN [@ EXCEPT !.gen = @ + 1, !.status = "PENDING", !.lease = 0]
                 ELSE NewRow]

\* enqueue_consolidation: a new row starts at generation 1, an existing one is
\* advanced, made due at once and released; its attempt count stays.
Enqueue(s) ==
  row' = [row EXCEPT ![s] =
    IF HasRow(s) THEN Advanced(@) ELSE NewRow]

\* Does a live claim of an earlier row of s hold the generation s now gets?
Recurs(s) ==
  \E w \in Workers : \E i \in claimed[w] :
    i.scope = s /\ i.epoch # epoch'[s] /\ i.gen = row'[s].gen

\* A transaction that moves a head of s commits, with its enqueue.
Mutate(s) ==
  /\ heads[s] < MaxMoves
  /\ heads' = [heads EXCEPT ![s] = @ + 1]
  /\ Enqueue(s)
  /\ epoch' = IF HasRow(s) THEN epoch ELSE [epoch EXCEPT ![s] = @ + 1]
  /\ reused' = IF Recurs(s) THEN reused \cup {s} ELSE reused
  /\ UNCHANGED <<built, workerVars, faults>>

Leased(r) == [r EXCEPT !.status = "RUNNING", !.lease = Lease]

ItemOf(s) ==
  [scope |-> s, gen |-> row[s].gen, attempts |-> row[s].attempts, epoch |-> epoch[s]]

\* _claim_rows: every row of the batch becomes RUNNING under a fresh lease.
Claim(w, batch) ==
  /\ Idle(w)
  /\ row' = [s \in Scopes |->
       IF s \in batch THEN Leased(row[s]) ELSE row[s]]
  /\ claimed' = [claimed EXCEPT ![w] = {ItemOf(s) : s \in batch}]
  /\ age' = [age EXCEPT ![w] = 0]
  /\ UNCHANGED <<heads, epoch, reused, built, job, phase, faults>>

\* A request consolidates the scope it has just written: claim_scope.
ClaimScope(w, s) == Due(s) /\ Claim(w, {s})

\* The scheduled drain takes the rows that have been due longest: claim_due.
\* Every due row has wait 0, so the order among them is not determined.
ClaimDue(w, batch) ==
  /\ batch \subseteq {s \in Scopes : Due(s)}
  /\ batch # {}
  /\ Cardinality(batch) <= BatchLimit
  /\ \A s \in Scopes \ batch : Due(s) => Cardinality(batch) = BatchLimit
  /\ Claim(w, batch)

\* The consolidation transaction reads all heads of the scope and commits.
Build(w, i) ==
  /\ phase[w] = "ready" /\ i \in claimed[w]
  /\ built' = [built EXCEPT ![i.scope] = heads[i.scope]]
  /\ job' = [job EXCEPT ![w] = i]
  /\ phase' = [phase EXCEPT ![w] = "built"]
  /\ UNCHANGED <<rowVars, claimed, age, faults>>

BuildFails(w, i) ==
  /\ faults < MaxFaults
  /\ phase[w] = "ready" /\ i \in claimed[w]
  /\ job' = [job EXCEPT ![w] = i]
  /\ phase' = [phase EXCEPT ![w] = "failed"]
  /\ faults' = faults + 1
  /\ UNCHANGED <<rowVars, built, claimed, age>>

\* The item is settled and the loop goes on with the rest of the batch.
Settle(w) ==
  /\ claimed' = [claimed EXCEPT ![w] = @ \ {job[w]}]
  /\ job' = [job EXCEPT ![w] = NoItem]
  /\ phase' = [phase EXCEPT ![w] = "ready"]
  /\ UNCHANGED age

RowCompleted(i) == IF Fenced(i) THEN [row EXCEPT ![i.scope] = NoRow] ELSE row

\* mark_complete
Complete(w) ==
  /\ phase[w] = "built"
  /\ row' = RowCompleted(job[w])
  /\ Settle(w)
  /\ UNCHANGED <<heads, epoch, reused, built, faults>>

\* mark_complete raises; the commit may have taken effect or not.
CompleteFails(w) ==
  /\ faults < MaxFaults
  /\ phase[w] = "built"
  /\ row' \in {row, RowCompleted(job[w])}
  /\ phase' = [phase EXCEPT ![w] = "failed"]
  /\ faults' = faults + 1
  /\ UNCHANGED <<heads, epoch, reused, built, claimed, job, age>>

Released(r, n) ==
  [r EXCEPT !.status = "PENDING", !.attempts = n, !.wait = Backoff(n), !.lease = 0]

RowDeferred(i) ==
  IF Fenced(i) THEN [row EXCEPT ![i.scope] = Released(@, i.attempts + 1)] ELSE row

\* mark_deferred
Defer(w) ==
  /\ phase[w] = "failed"
  /\ row' = RowDeferred(job[w])
  /\ Settle(w)
  /\ UNCHANGED <<heads, epoch, reused, built, faults>>

\* The invocation is gone: a crash, the Lambda's time limit, or an exception of
\* mark_deferred, which nothing catches.  What it had claimed stays RUNNING.
Crash(w) ==
  /\ ~ Idle(w)
  /\ faults < MaxFaults
  /\ faults' = faults + 1
  /\ claimed' = [claimed EXCEPT ![w] = {}]
  /\ job' = [job EXCEPT ![w] = NoItem]
  /\ phase' = [phase EXCEPT ![w] = "ready"]
  /\ UNCHANGED <<rowVars, built, age>>

Elapsed(n) == IF n = 0 THEN 0 ELSE n - 1

Aged(r) == [r EXCEPT !.wait = Elapsed(r.wait), !.lease = Elapsed(r.lease)]

\* A second passes; an invocation at its time limit has to end first.
Tick ==
  /\ \A w \in Workers : ~ Idle(w) => age[w] < Timeout
  /\ age' = [w \in Workers |-> IF Idle(w) THEN age[w] ELSE age[w] + 1]
  /\ row' = [s \in Scopes |->
       IF HasRow(s) THEN Aged(row[s]) ELSE NoRow]
  /\ UNCHANGED <<heads, epoch, reused, built, claimed, job, phase, faults>>

Work(w) ==
  \/ \E i \in claimed[w] : Build(w, i)
  \/ Complete(w)
  \/ Defer(w)

Next ==
  \/ \E s \in Scopes : Mutate(s)
  \/ \E w \in Workers, s \in Scopes : ClaimScope(w, s)
  \/ \E w \in Workers, batch \in SUBSET Scopes : ClaimDue(w, batch)
  \/ \E w \in Workers : Work(w)
  \/ \E w \in Workers : \E i \in claimed[w] : BuildFails(w, i)
  \/ \E w \in Workers : CompleteFails(w)
  \/ \E w \in Workers : Crash(w)
  \/ Tick

Spec == Init /\ [][Next]_vars

\* The platform runs every invocation on, the schedule keeps starting drains, and
\* time passes.  MaxFaults is part of the assumption: failures are transient.
Fairness ==
  /\ \A w \in Workers : WF_vars(Work(w))
  /\ WF_vars(\E w \in Workers, batch \in SUBSET Scopes : ClaimDue(w, batch))
  /\ WF_vars(Tick)

FairSpec == Spec /\ Fairness

-----------------------------------------------------------------------------
(* Correctness *)

TypeOK ==
  /\ row \in [Scopes -> Row \cup {NoRow}]
  /\ \A s \in Scopes : HasRow(s) /\ row[s].status = "PENDING" => row[s].lease = 0
  /\ heads \in [Scopes -> Nat] /\ built \in [Scopes -> Nat]
  /\ claimed \in [Workers -> SUBSET Item]
  /\ job \in [Workers -> Item \cup {NoItem}]
  /\ phase \in [Workers -> {"ready", "built", "failed"}]
  /\ age \in [Workers -> 0..Timeout]
  /\ faults \in 0..MaxFaults
  /\ epoch \in [Scopes -> Nat] /\ reused \subseteq Scopes

\* docs/evidence/GOVERNED_ADAPTIVE_MEMORY_V7.md:222 and
\* tests/test_consolidation_outbox.py:100: a head change that no consolidation
\* has read yet has its row in the outbox, as far as the generation can carry it:
\* not in a scope where a live claim saw the generation it holds given to a later
\* row, because mark_complete deletes the row and its successor starts at 1 again.
ObligationKeptUnlessReused ==
  \A s \in Scopes \ reused : heads[s] # built[s] => HasRow(s)

\* Two live invocations never work on the same row under the same generation:
\* the lease outlasts the invocation, and a deferred or completed claim is
\* settled first.
ClaimExclusive ==
  \A v, w \in Workers : v # w =>
    \A i \in claimed[v], j \in claimed[w] :
      i.scope = j.scope /\ i.epoch = j.epoch /\ i.gen = j.gen => i.scope \in reused

\* docs/evidence/GOVERNED_ADAPTIVE_MEMORY_V7.md:222 and
\* tests/test_consolidation_outbox.py:100 without that exception: a head change that
\* no consolidation has read is owed by a row, or at least held by an invocation.
NewerEnqueueKept ==
  \A s \in Scopes : heads[s] # built[s] =>
    HasRow(s) \/ \E w \in Workers : \E i \in claimed[w] : i.scope = s

\* A head change commits with a row that is due at once: the backoff of earlier
\* failures never delays it, and no running consolidation hides it.
ChangeIsDue ==
  [][\A s \in Scopes : heads'[s] # heads[s] => Due(s)']_vars

\* Every head change reaches a consolidation, through any crash, failed
\* transaction or time-out, unless the scope's generation was reused.
EventuallyBuilt ==
  \A s \in Scopes : heads[s] # built[s] ~> (heads[s] = built[s] \/ s \in reused)

\* Every row is eventually worked off once commits and faults cease.
OutboxDrains == \A s \in Scopes : HasRow(s) ~> (~ HasRow(s) \/ s \in reused)

\* A scope owes a consolidation while it has a row.  A scope whose generation
\* recurred under a live claim is owed for good: its row may go too early.
Contract == INSTANCE ConsolidationContract WITH
  state <- heads, read <- built, owed <- {s \in Scopes : HasRow(s)} \cup reused

\* The table, the generation fence and the workers carry the obligation of each
\* commit to a consolidation that reads it, whatever is claimed twice, settled
\* late, retried or lost with its invocation.
ContractSpec == Contract!Spec

=============================================================================
