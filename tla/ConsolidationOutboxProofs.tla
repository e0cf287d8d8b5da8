----------------------- MODULE ConsolidationOutboxProofs -----------------------
(***************************************************************************)
(* What ConsolidationOutbox guarantees for any number of scopes, of        *)
(* invocations, of commits and of faults, and for any lease longer than    *)
(* the invocation's time limit.                                            *)
(***************************************************************************)
EXTENDS ConsolidationOutbox, TLAPS

-----------------------------------------------------------------------------
(* Types *)

\* What the table constrains each row to be.
RowsOK ==
  /\ row \in [Scopes -> Row \cup {NoRow}]
  /\ \A s \in Scopes : HasRow(s) /\ row[s].status = "PENDING" => row[s].lease = 0

\* What each invocation holds in memory.
WorkersOK ==
  /\ claimed \in [Workers -> SUBSET Item]
  /\ job \in [Workers -> Item \cup {NoItem}]
  /\ phase \in [Workers -> {"ready", "built", "failed"}]
  /\ \A w \in Workers : phase[w] # "ready" => job[w] \in claimed[w]

CountersOK ==
  /\ heads \in [Scopes -> Nat] /\ built \in [Scopes -> Nat]
  /\ age \in [Workers -> 0..Timeout]
  /\ faults \in 0..MaxFaults
  /\ epoch \in [Scopes -> Nat] /\ reused \subseteq Scopes

TypeInv == RowsOK /\ WorkersOK /\ CountersOK

LEMMA BackoffIsNat == \A n \in Nat \ {0} : Backoff(n) \in Nat
<1>1. ASSUME NEW n \in Nat \ {0} PROVE Smaller(n, 10) \in 1..10
  BY <1>1 DEF Smaller
<1>2. \A k \in 1..10 : <<2, 4, 8, 16, 32, 64, 128, 256, 512, 1024>>[k] \in Nat
  OBVIOUS
<1> QED
  BY <1>1, <1>2, BoundsAssumption DEF Backoff, Smaller

\* What each operation on a row makes of it.
LEMMA RowOperations ==
  ASSUME NEW r \in Row
  PROVE  /\ Advanced(r) \in Row /\ Advanced(r).lease = 0 /\ Advanced(r).wait = 0
         /\ Advanced(r).gen = r.gen + 1 /\ Advanced(r).status = "PENDING"
         /\ Leased(r) \in Row /\ Leased(r).status = "RUNNING" /\ Leased(r).gen = r.gen
         /\ Leased(r).lease = Lease
         /\ \A n \in Nat \ {0} : /\ Released(r, n) \in Row /\ Released(r, n).lease = 0
                                /\ Released(r, n).gen = r.gen
         /\ Aged(r) \in Row /\ Aged(r).status = r.status /\ Aged(r).gen = r.gen
         /\ r.lease = 0 => Aged(r).lease = 0
         /\ r.lease # 0 => Aged(r).lease = r.lease - 1
<1> USE DEF Row
<1>1. /\ Advanced(r) \in Row /\ Advanced(r).lease = 0 /\ Advanced(r).wait = 0
      /\ Advanced(r).gen = r.gen + 1 /\ Advanced(r).status = "PENDING"
  <2>1. r.gen + 1 \in Nat \ {0}
    OBVIOUS
  <2> QED
    BY <2>1 DEF Advanced
<1>2. /\ Leased(r) \in Row /\ Leased(r).status = "RUNNING" /\ Leased(r).gen = r.gen
      /\ Leased(r).lease = Lease
  BY BoundsAssumption DEF Leased
<1>3. ASSUME NEW n \in Nat \ {0}
      PROVE  Released(r, n) \in Row /\ Released(r, n).lease = 0 /\ Released(r, n).gen = r.gen
  BY <1>3, BackoffIsNat DEF Released
<1>4. /\ Aged(r) \in Row /\ Aged(r).status = r.status /\ Aged(r).gen = r.gen
      /\ r.lease = 0 => Aged(r).lease = 0
      /\ r.lease # 0 => Aged(r).lease = r.lease - 1
  <2>1. \A n \in Nat : Elapsed(n) \in Nat /\ Elapsed(n) = IF n = 0 THEN 0 ELSE n - 1
    BY DEF Elapsed
  <2>2. Elapsed(r.wait) \in Nat /\ Elapsed(r.lease) \in Nat
    BY <2>1
  <2>3. Aged(r) \in Row /\ Aged(r).status = r.status /\ Aged(r).gen = r.gen
        /\ Aged(r).lease = Elapsed(r.lease)
    BY <2>2 DEF Aged
  <2> QED
    BY <2>1, <2>3
<1> QED
  BY <1>1, <1>2, <1>3, <1>4

LEMMA NewRowType == NewRow \in Row /\ NewRow.lease = 0 /\ NewRow.gen = 1 /\ NewRow.wait = 0
  BY DEF NewRow, Row

LEMMA TypeStep == TypeInv /\ [Next]_vars => TypeInv'
<1> SUFFICES ASSUME TypeInv, [Next]_vars PROVE TypeInv'
  OBVIOUS
<1> USE NamesAssumption, BoundsAssumption DEF TypeInv
<1>1. ASSUME NEW s \in Scopes, Mutate(s) PROVE TypeInv'
  <2>1. row' = [row EXCEPT ![s] = IF HasRow(s) THEN Advanced(row[s]) ELSE NewRow]
    BY <1>1 DEF Mutate, Enqueue, RowsOK
  <2>2. HasRow(s) => row[s] \in Row
    BY DEF RowsOK, HasRow
  <2>3. RowsOK'
    BY <2>1, <2>2, RowOperations, NewRowType DEF RowsOK, HasRow
  <2>4. WorkersOK' /\ CountersOK'
    BY <1>1 DEF Mutate, WorkersOK, CountersOK, workerVars
  <2> QED
    BY <2>3, <2>4
<1>2. ASSUME NEW w \in Workers, NEW batch \in SUBSET {s \in Scopes : HasRow(s)},
             Claim(w, batch)
      PROVE  TypeInv'
  <2>1. \A s \in batch : row[s] \in Row
    BY DEF RowsOK, HasRow
  <2>2. RowsOK'
    BY <1>2, <2>1, RowOperations DEF Claim, RowsOK, HasRow
  <2>3. \A s \in batch : ItemOf(s) \in Item
    BY <2>1 DEF ItemOf, Item, Row, CountersOK
  <2>4. claimed' \in [Workers -> SUBSET Item]
    BY <1>2, <2>3 DEF Claim, WorkersOK
  <2>5. phase[w] = "ready"
    BY <1>2 DEF Claim, WorkersOK, Idle
  <2>6. WorkersOK'
    BY <1>2, <2>4, <2>5 DEF Claim, WorkersOK
  <2>7. CountersOK'
    BY <1>2 DEF Claim, CountersOK
  <2> QED
    BY <2>2, <2>6, <2>7
<1>3. ASSUME NEW w \in Workers, Settle(w), RowsOK',
             UNCHANGED <<heads, epoch, reused, built, faults>>
      PROVE  TypeInv'
  BY <1>3 DEF Settle, WorkersOK, CountersOK
<1>4. ASSUME NEW w \in Workers, NEW i \in claimed[w], Build(w, i) PROVE TypeInv'
  <2>1. i \in Item
    BY <1>4 DEF WorkersOK
  <2> QED
    BY <1>4, <2>1 DEF Build, RowsOK, WorkersOK, CountersOK, Item, rowVars, HasRow
<1>5. ASSUME NEW w \in Workers, NEW i \in claimed[w], BuildFails(w, i) PROVE TypeInv'
  <2>1. i \in Item
    BY <1>5 DEF WorkersOK
  <2> QED
    BY <1>5, <2>1 DEF BuildFails, RowsOK, WorkersOK, CountersOK, rowVars, HasRow
<1>6. ASSUME NEW i \in Item, row' \in {row, RowCompleted(i)} PROVE RowsOK'
  BY <1>6 DEF RowCompleted, RowsOK, HasRow
<1>7. ASSUME NEW w \in Workers, Complete(w) PROVE TypeInv'
  BY <1>3, <1>6, <1>7 DEF Complete, WorkersOK
<1>8. ASSUME NEW w \in Workers, CompleteFails(w) PROVE TypeInv'
  <2>1. RowsOK'
    BY <1>6, <1>8 DEF CompleteFails, WorkersOK
  <2> QED
    BY <1>8, <2>1 DEF CompleteFails, WorkersOK, CountersOK
<1>9. ASSUME NEW w \in Workers, Defer(w) PROVE TypeInv'
  <2>1. job[w] \in Item
    BY <1>9 DEF Defer, WorkersOK
  <2>2. job[w].attempts + 1 \in Nat \ {0} /\ job[w].scope \in Scopes
    BY <2>1 DEF Item
  <2>3. HasRow(job[w].scope) => row[job[w].scope] \in Row
    BY <2>2 DEF RowsOK, HasRow
  <2>4. RowsOK'
    BY <1>9, <2>2, <2>3, RowOperations DEF Defer, RowDeferred, RowsOK, HasRow, Fenced
  <2> QED
    BY <1>3, <1>9, <2>4 DEF Defer
<1>10. ASSUME NEW w \in Workers, Crash(w) PROVE TypeInv'
  BY <1>10 DEF Crash, RowsOK, WorkersOK, CountersOK, rowVars, HasRow
<1>11. CASE Tick
  <2>1. \A s \in Scopes : HasRow(s) => row[s] \in Row
    BY DEF RowsOK, HasRow
  <2>2. RowsOK'
    BY <1>11, <2>1, RowOperations DEF Tick, RowsOK, HasRow
  <2>3. age' \in [Workers -> 0..Timeout]
    BY <1>11 DEF Tick, CountersOK, WorkersOK
  <2> QED
    BY <1>11, <2>2, <2>3 DEF Tick, WorkersOK, CountersOK
<1>12. CASE UNCHANGED vars
  BY <1>12 DEF vars, rowVars, workerVars, RowsOK, WorkersOK, CountersOK, HasRow
<1> QED
  BY <1>1, <1>2, <1>4, <1>5, <1>7, <1>8, <1>9, <1>10, <1>11, <1>12
     DEF Next, Work, ClaimScope, ClaimDue, Due

LEMMA TypeInvariant == Spec => []TypeInv
<1>1. Init => TypeInv
  BY BoundsAssumption DEF Init, TypeInv, RowsOK, WorkersOK, CountersOK, HasRow
<1> QED
  BY <1>1, TypeStep, PTL DEF Spec

\* The table's column constraints and the types of the invocations' state.
THEOREM TypeCorrect == Spec => []TypeOK
<1>1. TypeInv => TypeOK
  BY DEF TypeInv, RowsOK, WorkersOK, CountersOK, TypeOK
<1> QED
  BY <1>1, TypeInvariant, PTL

-----------------------------------------------------------------------------
(* The inductive invariant of the obligation and of the lease *)

\* i was read from the row that s has now, and no commit has advanced it since.
SameGen(i) == HasRow(i.scope) /\ row[i.scope].gen = i.gen
Current(i) == SameGen(i) /\ i.epoch = epoch[i.scope]

\* An invocation claims a scope once.
OnePerScope ==
  \A w \in Workers : \A i, j \in claimed[w] : i.scope = j.scope => i = j

\* A claim never runs ahead of its row.
ClaimsPast ==
  \A w \in Workers : \A i \in claimed[w] :
    /\ i.epoch <= epoch[i.scope]
    /\ HasRow(i.scope) /\ i.epoch = epoch[i.scope] => i.gen <= row[i.scope].gen

\* The only way the fence can mistake a later row for the claimed one.
ReuseSeen ==
  \A w \in Workers : \A i \in claimed[w] :
    SameGen(i) /\ ~ Current(i) => i.scope \in reused

\* What the fence stands for: nothing moved since the consolidation read the heads.
BuiltIsFresh ==
  \A w \in Workers : \A i \in claimed[w] :
    phase[w] = "built" /\ job[w] = i /\ Current(i) => built[i.scope] = heads[i.scope]

\* A claim of the current generation is still covered by its lease.
LeaseHeld ==
  \A w \in Workers : \A i \in claimed[w] :
    Current(i) /\ i.scope \notin reused =>
      row[i.scope].status = "RUNNING" /\ row[i.scope].lease + age[w] >= Lease

OutboxInv ==
  /\ TypeInv
  /\ OnePerScope /\ ClaimsPast /\ ReuseSeen /\ BuiltIsFresh /\ LeaseHeld
  /\ ObligationKeptUnlessReused /\ ClaimExclusive

LEMMA ItemTypes ==
  ASSUME TypeInv, NEW w \in Workers, NEW i \in claimed[w]
  PROVE  /\ i \in Item /\ i.scope \in Scopes /\ i.gen \in Nat /\ i.epoch \in Nat
         /\ epoch[i.scope] \in Nat /\ heads[i.scope] \in Nat
         /\ HasRow(i.scope) => row[i.scope] \in Row /\ row[i.scope].gen \in Nat
  BY DEF TypeInv, WorkersOK, RowsOK, CountersOK, Item, Row, HasRow

\* A commit gives the row a generation no claim of this row has seen; a claim of
\* an earlier row that has is recorded in reused.
LEMMA MutateKeeps ==
  ASSUME OutboxInv, TypeInv', NEW s \in Scopes, Mutate(s)
  PROVE  OutboxInv'
<1> USE DEF OutboxInv
<1>1. /\ claimed' = claimed /\ job' = job /\ phase' = phase /\ age' = age /\ built' = built
      /\ heads' = [heads EXCEPT ![s] = @ + 1]
      /\ epoch' = IF HasRow(s) THEN epoch ELSE [epoch EXCEPT ![s] = @ + 1]
      /\ reused' = IF Recurs(s) THEN reused \cup {s} ELSE reused
  BY DEF Mutate, workerVars
<1>2. /\ row' = [row EXCEPT ![s] = IF HasRow(s) THEN Advanced(row[s]) ELSE NewRow]
      /\ HasRow(s)' /\ row'[s] \in Row /\ row'[s].gen \in Nat
      /\ HasRow(s) => row'[s].gen = row[s].gen + 1 /\ row[s].gen \in Nat
  <2>1. row' = [row EXCEPT ![s] = IF HasRow(s) THEN Advanced(row[s]) ELSE NewRow]
        /\ row'[s] = IF HasRow(s) THEN Advanced(row[s]) ELSE NewRow
    BY DEF Mutate, Enqueue, TypeInv, RowsOK
  <2>2. HasRow(s) => row[s] \in Row
    BY DEF TypeInv, RowsOK, HasRow
  <2>3. \A r \in Row : r.gen \in Nat /\ r # NoRow
    BY NamesAssumption DEF Row
  <2> QED
    BY <2>1, <2>2, <2>3, RowOperations, NewRowType DEF HasRow
<1>3. epoch[s] \in Nat /\ epoch'[s] = (IF HasRow(s) THEN epoch[s] ELSE epoch[s] + 1)
      /\ reused \subseteq reused'
  BY <1>1 DEF TypeInv, CountersOK
<1>4. ASSUME NEW q \in Scopes, q # s
      PROVE  row'[q] = row[q] /\ epoch'[q] = epoch[q] /\ heads'[q] = heads[q]
             /\ (HasRow(q)' <=> HasRow(q))
  BY <1>1, <1>2, <1>4 DEF TypeInv, CountersOK, RowsOK, HasRow
<1>5. ASSUME NEW w \in Workers, NEW i \in claimed[w]
      PROVE  /\ i.scope # s => (SameGen(i)' <=> SameGen(i)) /\ (Current(i)' <=> Current(i))
             /\ i.scope = s => ~ Current(i)'
  <2>1. i.scope \in Scopes /\ i.gen \in Nat /\ i.epoch \in Nat
    BY ItemTypes
  <2>2. CASE i.scope # s
    BY <1>4, <2>1, <2>2 DEF SameGen, Current
  <2>3. CASE i.scope = s
    <3>1. i.epoch <= epoch[s] /\ (HasRow(s) /\ i.epoch = epoch[s] => i.gen <= row[s].gen)
      BY <2>3 DEF ClaimsPast
    <3>2. CASE HasRow(s)
      BY <1>2, <1>3, <2>1, <2>3, <3>1, <3>2 DEF Current, SameGen
    <3>3. CASE ~ HasRow(s)
      BY <1>3, <2>1, <2>3, <3>1, <3>3 DEF Current
    <3> QED
      BY <3>2, <3>3
  <2> QED
    BY <2>2, <2>3
<1>6. OnePerScope'
  BY <1>1 DEF OnePerScope
<1>7. ClaimsPast'
  <2> SUFFICES ASSUME NEW w \in Workers, NEW i \in claimed[w]
               PROVE  /\ i.epoch <= epoch'[i.scope]
                      /\ HasRow(i.scope)' /\ i.epoch = epoch'[i.scope]
                           => i.gen <= row'[i.scope].gen
    BY <1>1 DEF ClaimsPast
  <2>1. i.scope \in Scopes /\ i.gen \in Nat /\ i.epoch \in Nat
    BY ItemTypes
  <2>2. i.epoch <= epoch[i.scope]
        /\ (HasRow(i.scope) /\ i.epoch = epoch[i.scope] => i.gen <= row[i.scope].gen)
    BY DEF ClaimsPast
  <2>3. CASE i.scope # s
    BY <1>4, <2>1, <2>2, <2>3
  <2>4. CASE i.scope = s
    BY <1>2, <1>3, <2>1, <2>2, <2>4
  <2> QED
    BY <2>3, <2>4
<1>8. ReuseSeen'
  <2> SUFFICES ASSUME NEW w \in Workers, NEW i \in claimed[w], SameGen(i)', ~ Current(i)'
               PROVE  i.scope \in reused'
    BY <1>1 DEF ReuseSeen
  <2>1. CASE i.scope # s
    BY <1>3, <1>5, <2>1 DEF ReuseSeen
  <2>2. CASE i.scope = s
    BY <1>1, <2>2 DEF Recurs, SameGen, Current
  <2> QED
    BY <2>1, <2>2
<1>9. BuiltIsFresh'
  <2> SUFFICES ASSUME NEW w \in Workers, NEW i \in claimed[w],
                      phase[w] = "built", job[w] = i, Current(i)'
               PROVE  built[i.scope] = heads'[i.scope]
    BY <1>1 DEF BuiltIsFresh
  <2>1. i.scope \in Scopes /\ i.scope # s
    BY <1>5, ItemTypes
  <2> QED
    BY <1>4, <1>5, <2>1 DEF BuiltIsFresh
<1>10. LeaseHeld'
  <2> SUFFICES ASSUME NEW w \in Workers, NEW i \in claimed[w], Current(i)', i.scope \notin reused'
               PROVE  row'[i.scope].status = "RUNNING" /\ row'[i.scope].lease + age[w] >= Lease
    BY <1>1 DEF LeaseHeld
  <2>1. i.scope \in Scopes /\ i.scope # s /\ i.scope \notin reused
    BY <1>3, <1>5, ItemTypes
  <2> QED
    BY <1>4, <1>5, <2>1 DEF LeaseHeld
<1>11. ObligationKeptUnlessReused'
  BY <1>1, <1>2, <1>3, <1>4 DEF ObligationKeptUnlessReused
<1>12. ClaimExclusive'
  BY <1>1, <1>3 DEF ClaimExclusive
<1> QED
  BY <1>6, <1>7, <1>8, <1>9, <1>10, <1>11, <1>12

\* A row that is due is not covered by the lease of any claim, so the claim of it
\* is exclusive.
LEMMA ClaimKeeps ==
  ASSUME OutboxInv, TypeInv', NEW w \in Workers, NEW batch \in SUBSET Scopes,
         \A s \in batch : Due(s), Claim(w, batch)
  PROVE  OutboxInv'
<1> USE DEF OutboxInv
<1>1. /\ heads' = heads /\ epoch' = epoch /\ reused' = reused /\ built' = built
      /\ job' = job /\ phase' = phase
      /\ claimed[w] = {} /\ claimed'[w] = {ItemOf(s) : s \in batch}
      /\ \A v \in Workers : v # w => claimed'[v] = claimed[v] /\ age'[v] = age[v]
      /\ age'[w] = 0
  BY DEF Claim, Idle, TypeInv, WorkersOK, CountersOK
<1>2. ASSUME NEW s \in Scopes
      PROVE  /\ (HasRow(s)' <=> HasRow(s)) /\ row'[s].gen = row[s].gen
             /\ s \notin batch => row'[s] = row[s]
             /\ s \in batch => /\ HasRow(s) /\ row'[s].status = "RUNNING"
                               /\ row'[s].lease = Lease
  <2>1. HasRow(s) => row[s] \in Row
    BY DEF TypeInv, RowsOK, HasRow
  <2>2. \A r \in Row : r # NoRow
    BY NamesAssumption
  <2> QED
    BY <2>1, <2>2, RowOperations DEF Claim, HasRow, Due
<1>3. ASSUME NEW i, i.scope \in Scopes
      PROVE  (SameGen(i)' <=> SameGen(i)) /\ (Current(i)' <=> Current(i))
  BY <1>1, <1>2, <1>3 DEF SameGen, Current
<1>4. ASSUME NEW s \in batch
      PROVE  /\ ItemOf(s).scope = s /\ ItemOf(s).gen = row[s].gen /\ ItemOf(s).epoch = epoch[s]
             /\ Current(ItemOf(s)) /\ HasRow(s) /\ row[s].gen \in Nat /\ epoch[s] \in Nat
  BY DEF ItemOf, Current, SameGen, Due, TypeInv, RowsOK, CountersOK, Row, HasRow
<1>5. \A v \in Workers : \A i \in claimed'[v] :
        i.scope \in Scopes /\ (v = w \/ i \in claimed[v])
  <2>1. \A v \in Workers : \A i \in claimed[v] : i.scope \in Scopes
    BY ItemTypes
  <2> QED
    BY <1>1, <1>4, <2>1
<1>6. OnePerScope'
  BY <1>1, <1>4 DEF OnePerScope
<1>7. ClaimsPast'
  <2> SUFFICES ASSUME NEW v \in Workers, NEW i \in claimed'[v]
               PROVE  /\ i.epoch <= epoch[i.scope]
                      /\ HasRow(i.scope)' /\ i.epoch = epoch[i.scope]
                           => i.gen <= row'[i.scope].gen
    BY <1>1 DEF ClaimsPast
  <2>1. CASE v = w
    BY <1>1, <1>2, <1>4, <2>1
  <2>2. CASE v # w
    BY <1>1, <1>2, <1>5, <2>2 DEF ClaimsPast
  <2> QED
    BY <2>1, <2>2
<1>8. ReuseSeen'
  <2> SUFFICES ASSUME NEW v \in Workers, NEW i \in claimed'[v], SameGen(i)', ~ Current(i)'
               PROVE  i.scope \in reused
    BY <1>1 DEF ReuseSeen
  <2>1. CASE v = w
    BY <1>1, <1>3, <1>4, <1>5, <2>1
  <2>2. CASE v # w
    BY <1>1, <1>3, <1>5, <2>2 DEF ReuseSeen
  <2> QED
    BY <2>1, <2>2
<1>9. BuiltIsFresh'
  <2> SUFFICES ASSUME NEW v \in Workers, NEW i \in claimed'[v],
                      phase[v] = "built", job[v] = i, Current(i)'
               PROVE  built[i.scope] = heads[i.scope]
    BY <1>1 DEF BuiltIsFresh
  <2>1. v # w
    BY <1>1 DEF TypeInv, WorkersOK
  <2> QED
    BY <1>1, <1>3, <1>5, <2>1 DEF BuiltIsFresh
<1>10. ASSUME NEW v \in Workers, v # w, NEW i \in claimed[v], i.scope \in batch,
              i.scope \notin reused
       PROVE  ~ Current(i)
  <2>1. Lease \in Nat /\ age[v] \in 0..Timeout /\ Timeout < Lease /\ Timeout \in Nat
    BY BoundsAssumption DEF TypeInv, CountersOK
  <2> QED
    BY <1>10, <2>1 DEF LeaseHeld, Due
<1>11. LeaseHeld'
  <2> SUFFICES ASSUME NEW v \in Workers, NEW i \in claimed'[v], Current(i)', i.scope \notin reused
               PROVE  row'[i.scope].status = "RUNNING" /\ row'[i.scope].lease + age'[v] >= Lease
    BY <1>1 DEF LeaseHeld
  <2>1. CASE v = w
    BY <1>1, <1>2, <1>4, <2>1, BoundsAssumption
  <2>2. CASE v # w
    BY <1>1, <1>2, <1>3, <1>5, <1>10, <2>2 DEF LeaseHeld
  <2> QED
    BY <2>1, <2>2
<1>12. ObligationKeptUnlessReused'
  BY <1>1, <1>2 DEF ObligationKeptUnlessReused
<1>13. ClaimExclusive'
  <2>1. ASSUME NEW v \in Workers, v # w, NEW i \in claimed[v], NEW j \in claimed'[w],
               i.scope = j.scope, i.epoch = j.epoch, i.gen = j.gen
        PROVE  i.scope \in reused
    <3>1. j.scope \in batch /\ Current(j)
      BY <1>1, <1>4
    <3>2. Current(i)
      BY <2>1, <3>1 DEF Current, SameGen
    <3> QED
      BY <1>10, <2>1, <3>1, <3>2
  <2> QED
    BY <1>1, <2>1 DEF ClaimExclusive
<1> QED
  BY <1>6, <1>7, <1>8, <1>9, <1>11, <1>12, <1>13

\* The consolidation transaction reads the heads as they are.
LEMMA BuildKeeps ==
  ASSUME OutboxInv, TypeInv', NEW w \in Workers, NEW i \in claimed[w], Build(w, i)
  PROVE  OutboxInv'
<1> USE DEF OutboxInv
<1>1. /\ UNCHANGED <<row, heads, epoch, reused, claimed, age>>
      /\ built' = [built EXCEPT ![i.scope] = heads[i.scope]]
      /\ job' = [job EXCEPT ![w] = i] /\ phase' = [phase EXCEPT ![w] = "built"]
  BY DEF Build, rowVars
<1>2. i.scope \in Scopes /\ built'[i.scope] = heads[i.scope]
      /\ \A q \in Scopes : q # i.scope => built'[q] = built[q]
  BY <1>1, ItemTypes DEF TypeInv, CountersOK
<1>3. OnePerScope' /\ ClaimsPast' /\ ReuseSeen' /\ LeaseHeld' /\ ClaimExclusive'
  BY <1>1 DEF OnePerScope, ClaimsPast, ReuseSeen, LeaseHeld, ClaimExclusive,
              Current, SameGen, HasRow
<1>4. BuiltIsFresh'
  <2> SUFFICES ASSUME NEW v \in Workers, NEW j \in claimed[v],
                      phase'[v] = "built", job'[v] = j, Current(j)
               PROVE  built'[j.scope] = heads[j.scope]
    BY <1>1 DEF BuiltIsFresh, Current, SameGen, HasRow
  <2>1. j.scope \in Scopes
    BY ItemTypes
  <2>2. CASE v = w
    BY <1>1, <1>2, <2>2 DEF TypeInv, WorkersOK
  <2>3. CASE v # w
    BY <1>1, <1>2, <2>1, <2>3 DEF BuiltIsFresh, TypeInv, WorkersOK
  <2> QED
    BY <2>2, <2>3
<1>5. ObligationKeptUnlessReused'
  BY <1>1, <1>2 DEF ObligationKeptUnlessReused, HasRow
<1> QED
  BY <1>3, <1>4, <1>5

\* The three outcomes a settlement may have for the table: nothing, the row
\* deleted after a consolidation, the row released.
Unaltered == row' = row
Completed == \E w \in Workers : phase[w] = "built" /\ row' = RowCompleted(job[w])
Deferred ==
  \E w \in Workers : \E i \in claimed[w] :
    row' = RowDeferred(i) /\ claimed' = [claimed EXCEPT ![w] = @ \ {i}]

\* A settlement, a failure or a crash only gives up claims, and what it does to a
\* row is fenced by a claim.
LEMMA SettlementKeeps ==
  ASSUME OutboxInv, TypeInv',
         UNCHANGED <<heads, epoch, reused, built, age>>,
         \A v \in Workers : claimed'[v] \subseteq claimed[v],
         \A v \in Workers : phase'[v] = "built" => phase[v] = "built" /\ job'[v] = job[v],
         Unaltered \/ Completed \/ Deferred
  PROVE  OutboxInv'
<1> USE DEF OutboxInv
<1>1. ASSUME NEW s \in Scopes, HasRow(s)'
      PROVE  HasRow(s) /\ row'[s].gen = row[s].gen
  <2>1. HasRow(s) => row[s] \in Row
    BY DEF TypeInv, RowsOK, HasRow
  <2>2. CASE Unaltered
    BY <1>1, <2>2 DEF Unaltered, HasRow
  <2>3. CASE Completed
    BY <1>1, <2>3 DEF Completed, RowCompleted, Fenced, HasRow, TypeInv, RowsOK
  <2>4. CASE Deferred
    <3>1. PICK w \in Workers : \E i \in claimed[w] : row' = RowDeferred(i)
      BY <2>4 DEF Deferred
    <3>2. PICK i \in claimed[w] : row' = RowDeferred(i)
      BY <3>1
    <3>3. i.scope \in Scopes /\ i.attempts + 1 \in Nat \ {0}
      BY ItemTypes DEF Item
    <3>4. HasRow(i.scope) => row[i.scope] \in Row
      BY <3>3 DEF TypeInv, RowsOK, HasRow
    <3> QED
      BY <1>1, <2>1, <3>2, <3>3, <3>4, RowOperations
         DEF RowDeferred, Fenced, HasRow, TypeInv, RowsOK
  <2> QED
    BY <2>2, <2>3, <2>4
<1>2. ASSUME NEW i, i.scope \in Scopes
      PROVE  (SameGen(i)' => SameGen(i)) /\ (Current(i)' => Current(i))
             /\ (SameGen(i)' /\ ~ Current(i)' => ~ Current(i))
  BY <1>1, <1>2 DEF SameGen, Current
<1>3. \A v \in Workers : \A i \in claimed'[v] : i \in claimed[v] /\ i.scope \in Scopes
  BY ItemTypes
<1>4. OnePerScope' /\ ClaimExclusive'
  BY <1>3 DEF OnePerScope, ClaimExclusive
<1>5. ClaimsPast'
  BY <1>1, <1>3 DEF ClaimsPast
<1>6. ReuseSeen'
  <2> SUFFICES ASSUME NEW v \in Workers, NEW i \in claimed'[v], SameGen(i)', ~ Current(i)'
               PROVE  i.scope \in reused
    BY DEF ReuseSeen
  <2> QED
    BY <1>2, <1>3 DEF ReuseSeen
<1>7. BuiltIsFresh'
  <2> SUFFICES ASSUME NEW v \in Workers, NEW i \in claimed'[v],
                      phase'[v] = "built", job'[v] = i, Current(i)'
               PROVE  built[i.scope] = heads[i.scope]
    BY DEF BuiltIsFresh
  <2> QED
    BY <1>2, <1>3 DEF BuiltIsFresh
<1>8. LeaseHeld'
  <2> SUFFICES ASSUME NEW v \in Workers, NEW i \in claimed'[v], Current(i)', i.scope \notin reused
               PROVE  row'[i.scope].status = "RUNNING" /\ row'[i.scope].lease + age[v] >= Lease
    BY DEF LeaseHeld
  <2>1. i \in claimed[v] /\ i.scope \in Scopes /\ Current(i) /\ HasRow(i.scope)'
    BY <1>2, <1>3 DEF Current, SameGen
  <2>2. row[i.scope].status = "RUNNING" /\ row[i.scope].lease + age[v] >= Lease
    BY <2>1 DEF LeaseHeld
  <2>3. row'[i.scope] = row[i.scope]
    <3>1. CASE Unaltered
      BY <3>1 DEF Unaltered
    <3>2. CASE Completed
      BY <2>1, <3>2 DEF Completed, RowCompleted, HasRow, TypeInv, RowsOK
    <3>3. CASE Deferred
      <4>1. PICK w \in Workers : \E j \in claimed[w] :
              row' = RowDeferred(j) /\ claimed' = [claimed EXCEPT ![w] = @ \ {j}]
        BY <3>3 DEF Deferred
      <4>2. PICK j \in claimed[w] :
              row' = RowDeferred(j) /\ claimed' = [claimed EXCEPT ![w] = @ \ {j}]
        BY <4>1
      <4>3. SUFFICES ASSUME j.scope = i.scope, Fenced(j) PROVE FALSE
        BY <2>1, <4>2, ItemTypes DEF RowDeferred, TypeInv, RowsOK
      <4>4. SameGen(j) /\ SameGen(i) /\ i.epoch = epoch[i.scope]
        BY <2>1, <4>3 DEF Fenced, SameGen, Current
      <4>5. Current(j)
        BY <4>3, <4>4 DEF ReuseSeen
      <4>6. CASE v = w
        <5>1. i = j
          BY <2>1, <4>3, <4>6 DEF OnePerScope
        <5>2. claimed'[w] = claimed[w] \ {j}
          <6>1. claimed \in [Workers -> SUBSET Item]
            BY DEF TypeInv, WorkersOK
          <6> QED
            BY <4>2, <6>1
        <5> QED
          BY <4>6, <5>1, <5>2
      <4>7. CASE v # w
        <5>1. i.gen = j.gen /\ i.epoch = j.epoch
          BY <4>3, <4>4, <4>5 DEF Current, SameGen
        <5>2. i \in claimed[v] /\ i.scope = j.scope
          BY <2>1, <4>3
        <5> QED
          BY <4>7, <5>1, <5>2 DEF ClaimExclusive
      <4> QED
        BY <4>6, <4>7
    <3> QED
      BY <3>1, <3>2, <3>3
  <2> QED
    BY <2>2, <2>3
<1>9. ObligationKeptUnlessReused'
  <2> SUFFICES ASSUME NEW s \in Scopes, s \notin reused, HasRow(s), ~ HasRow(s)'
               PROVE  heads[s] = built[s]
    BY DEF ObligationKeptUnlessReused
  <2>1. row[s] \in Row
    BY DEF HasRow, TypeInv, RowsOK
  <2>2. CASE Unaltered
    BY <2>2 DEF Unaltered, HasRow
  <2>3. CASE Completed
    <3>1. PICK w \in Workers : phase[w] = "built" /\ row' = RowCompleted(job[w])
      BY <2>3 DEF Completed
    <3>2. job[w] \in claimed[w]
      BY <3>1 DEF TypeInv, WorkersOK
    <3>3. job[w].scope = s /\ SameGen(job[w])
      BY <3>1 DEF RowCompleted, Fenced, SameGen, HasRow, TypeInv, RowsOK
    <3>4. Current(job[w])
      BY <3>2, <3>3 DEF ReuseSeen
    <3> QED
      BY <3>1, <3>2, <3>3, <3>4 DEF BuiltIsFresh
  <2>4. CASE Deferred
    <3>1. PICK w \in Workers : \E i \in claimed[w] : row' = RowDeferred(i)
      BY <2>4 DEF Deferred
    <3>2. PICK i \in claimed[w] : row' = RowDeferred(i)
      BY <3>1
    <3>3. i.scope \in Scopes /\ i.attempts + 1 \in Nat \ {0}
      BY ItemTypes DEF Item
    <3>4. \A r \in Row : r # NoRow
      BY NamesAssumption
    <3> QED
      BY <2>1, <3>2, <3>3, <3>4, RowOperations
         DEF RowDeferred, HasRow, TypeInv, RowsOK
  <2> QED
    BY <2>2, <2>3, <2>4
<1> QED
  BY <1>4, <1>5, <1>6, <1>7, <1>8, <1>9

\* Time runs as fast for an invocation as for the lease it was given.
LEMMA TickKeeps ==
  ASSUME OutboxInv, TypeInv', Tick
  PROVE  OutboxInv'
<1> USE DEF OutboxInv
<1>1. UNCHANGED <<heads, epoch, reused, built, claimed, job, phase>>
  BY DEF Tick
<1>2. ASSUME NEW s \in Scopes
      PROVE  /\ (HasRow(s)' <=> HasRow(s))
             /\ HasRow(s) => /\ row'[s].gen = row[s].gen /\ row'[s].status = row[s].status
                             /\ row[s].lease \in Nat
                             /\ row[s].lease # 0 => row'[s].lease = row[s].lease - 1
  <2>1. HasRow(s) => row[s] \in Row
    BY DEF TypeInv, RowsOK, HasRow
  <2>2. \A r \in Row : r # NoRow /\ r.lease \in Nat
    BY NamesAssumption DEF Row
  <2> QED
    BY <2>1, <2>2, RowOperations DEF Tick, HasRow
<1>3. ASSUME NEW i, i.scope \in Scopes
      PROVE  (SameGen(i)' <=> SameGen(i)) /\ (Current(i)' <=> Current(i))
  BY <1>1, <1>2, <1>3 DEF SameGen, Current
<1>4. \A v \in Workers : \A i \in claimed[v] : i.scope \in Scopes
  BY ItemTypes
<1>5. OnePerScope' /\ ClaimExclusive'
  BY <1>1 DEF OnePerScope, ClaimExclusive
<1>6. ClaimsPast'
  BY <1>1, <1>2, <1>4 DEF ClaimsPast
<1>7. ReuseSeen'
  <2> SUFFICES ASSUME NEW v \in Workers, NEW i \in claimed[v], SameGen(i)', ~ Current(i)'
               PROVE  i.scope \in reused
    BY <1>1 DEF ReuseSeen
  <2> QED
    BY <1>3, <1>4 DEF ReuseSeen
<1>8. BuiltIsFresh'
  <2> SUFFICES ASSUME NEW v \in Workers, NEW i \in claimed[v],
                      phase[v] = "built", job[v] = i, Current(i)'
               PROVE  built[i.scope] = heads[i.scope]
    BY <1>1 DEF BuiltIsFresh
  <2> QED
    BY <1>3, <1>4 DEF BuiltIsFresh
<1>9. LeaseHeld'
  <2> SUFFICES ASSUME NEW v \in Workers, NEW i \in claimed[v], Current(i)', i.scope \notin reused
               PROVE  row'[i.scope].status = "RUNNING" /\ row'[i.scope].lease + age'[v] >= Lease
    BY <1>1 DEF LeaseHeld
  <2>1. row[i.scope].status = "RUNNING" /\ row[i.scope].lease + age[v] >= Lease
        /\ HasRow(i.scope)
    BY <1>3, <1>4 DEF LeaseHeld, Current, SameGen
  <2>2. age[v] \in Nat /\ age[v] < Timeout /\ age'[v] = age[v] + 1
    BY BoundsAssumption DEF Tick, Idle, TypeInv, CountersOK
  <2> QED
    BY <1>2, <1>4, <2>1, <2>2, BoundsAssumption
<1>10. ObligationKeptUnlessReused'
  BY <1>1, <1>2 DEF ObligationKeptUnlessReused
<1> QED
  BY <1>5, <1>6, <1>7, <1>8, <1>9, <1>10

LEMMA OutboxStep == OutboxInv /\ [Next]_vars /\ TypeInv' => OutboxInv'
<1> SUFFICES ASSUME OutboxInv, [Next]_vars, TypeInv' PROVE OutboxInv'
  OBVIOUS
<1>1. ASSUME NEW s \in Scopes, Mutate(s) PROVE OutboxInv'
  BY <1>1, MutateKeeps
<1>2. ASSUME NEW w \in Workers, NEW s \in Scopes, ClaimScope(w, s) PROVE OutboxInv'
  BY <1>2, ClaimKeeps DEF ClaimScope
<1>3. ASSUME NEW w \in Workers, NEW batch \in SUBSET Scopes, ClaimDue(w, batch) PROVE OutboxInv'
  BY <1>3, ClaimKeeps DEF ClaimDue
<1>4. ASSUME NEW w \in Workers, NEW i \in claimed[w], Build(w, i) PROVE OutboxInv'
  BY <1>4, BuildKeeps
<1> DEFINE GivesUp ==
      /\ UNCHANGED <<heads, epoch, reused, built, age>>
      /\ \A v \in Workers : claimed'[v] \subseteq claimed[v]
      /\ \A v \in Workers : phase'[v] = "built" => phase[v] = "built" /\ job'[v] = job[v]
<1>5. ASSUME NEW w \in Workers, NEW i \in claimed[w], BuildFails(w, i) PROVE OutboxInv'
  <2>1. GivesUp /\ Unaltered
    BY <1>5 DEF BuildFails, rowVars, Unaltered, OutboxInv, TypeInv, WorkersOK
  <2> QED
    BY <2>1, SettlementKeeps
<1>6. ASSUME NEW w \in Workers, Settle(w), UNCHANGED <<heads, epoch, reused, built, faults>>
      PROVE  GivesUp
  BY <1>6 DEF Settle, OutboxInv, TypeInv, WorkersOK
<1>7. ASSUME NEW w \in Workers, Complete(w) PROVE OutboxInv'
  <2>1. GivesUp /\ Completed
    BY <1>6, <1>7 DEF Complete, Completed
  <2> QED
    BY <2>1, SettlementKeeps
<1>8. ASSUME NEW w \in Workers, Defer(w) PROVE OutboxInv'
  <2>1. GivesUp
    BY <1>6, <1>8 DEF Defer
  <2>2. job[w] \in claimed[w]
    BY <1>8 DEF Defer, OutboxInv, TypeInv, WorkersOK
  <2>3. Deferred
    BY <1>8, <2>2 DEF Defer, Settle, Deferred
  <2> QED
    BY <2>1, <2>3, SettlementKeeps
<1>9. ASSUME NEW w \in Workers, CompleteFails(w) PROVE OutboxInv'
  <2>1. GivesUp
    BY <1>9 DEF CompleteFails, OutboxInv, TypeInv, WorkersOK
  <2>2. Unaltered \/ Completed
    BY <1>9 DEF CompleteFails, Unaltered, Completed
  <2> QED
    BY <2>1, <2>2, SettlementKeeps
<1>10. ASSUME NEW w \in Workers, Crash(w) PROVE OutboxInv'
  <2>1. GivesUp /\ Unaltered
    BY <1>10 DEF Crash, rowVars, Unaltered, OutboxInv, TypeInv, WorkersOK
  <2> QED
    BY <2>1, SettlementKeeps
<1>11. CASE Tick
  BY <1>11, TickKeeps
<1>12. CASE UNCHANGED vars
  <2>1. GivesUp /\ Unaltered
    BY <1>12 DEF vars, rowVars, workerVars, Unaltered
  <2> QED
    BY <2>1, SettlementKeeps
<1> QED
  BY <1>1, <1>2, <1>3, <1>4, <1>5, <1>7, <1>8, <1>9, <1>10, <1>11, <1>12 DEF Next, Work

LEMMA OutboxInvariant == Spec => []OutboxInv
<1>1. Init => TypeInv
  BY BoundsAssumption DEF Init, TypeInv, RowsOK, WorkersOK, CountersOK, HasRow
<1>2. Init => OutboxInv
  BY <1>1 DEF Init, OutboxInv, OnePerScope, ClaimsPast, ReuseSeen, BuiltIsFresh, LeaseHeld,
              ObligationKeptUnlessReused, ClaimExclusive
<1> QED
  BY <1>2, OutboxStep, TypeInvariant, PTL DEF Spec

-----------------------------------------------------------------------------
(* The theorems *)

\* No interleaving of commits, claims, retries, late settlements, crashes and lease
\* expiries loses a head change, short of a generation given out twice.
THEOREM ObligationIsKept == Spec => []ObligationKeptUnlessReused
<1>1. OutboxInv => ObligationKeptUnlessReused
  BY DEF OutboxInv
<1> QED
  BY <1>1, OutboxInvariant, PTL

\* No two live invocations hold one row under one generation.
THEOREM LeaseIsExclusive == Spec => []ClaimExclusive
<1>1. OutboxInv => ClaimExclusive
  BY DEF OutboxInv
<1> QED
  BY <1>1, OutboxInvariant, PTL

\* Every commit that moves a head leaves its scope claimable at once.
THEOREM ChangesAreDue == Spec => ChangeIsDue
<1> DEFINE Claimable == \A s \in Scopes : heads'[s] # heads[s] => Due(s)'
<1>1. TypeInv /\ [Next]_vars => Claimable
  <2> SUFFICES ASSUME TypeInv, [Next]_vars PROVE Claimable
    OBVIOUS
  <2>1. ASSUME NEW s \in Scopes, Mutate(s) PROVE Claimable
    <3>1. \A q \in Scopes : heads'[q] # heads[q] => q = s
      BY <2>1 DEF Mutate, TypeInv, CountersOK
    <3>2. row'[s] = IF HasRow(s) THEN Advanced(row[s]) ELSE NewRow
      BY <2>1 DEF Mutate, Enqueue, TypeInv, RowsOK
    <3>3. HasRow(s) => row[s] \in Row
      BY DEF TypeInv, RowsOK, HasRow
    <3>4. NewRow.status = "PENDING"
      BY DEF NewRow
    <3>5. Due(s)'
      BY <3>2, <3>3, <3>4, RowOperations, NewRowType, NamesAssumption DEF Due, HasRow
    <3> QED
      BY <3>1, <3>5
  <2>2. CASE UNCHANGED heads
    BY <2>2
  <2> QED
    BY <2>1, <2>2 DEF Next, Work, ClaimScope, ClaimDue, Claim, Build, BuildFails, Complete,
       CompleteFails, Defer, Crash, Tick, vars, rowVars
<1>2. TypeInv /\ [Next]_vars => [Claimable]_vars
  BY <1>1
<1> QED
  BY <1>2, TypeInvariant, PTL DEF Spec, ChangeIsDue

-----------------------------------------------------------------------------
(* The contract of consolidation *)

\* A step that neither moves a head nor consolidates nor takes a row away.
RowsStay == UNCHANGED <<heads, built, reused>> /\ \A s \in Scopes : HasRow(s)' <=> HasRow(s)

\* A row goes only by the fenced completion of a consolidation that read the heads
\* as they still are, or in a scope whose generation recurred.
LEMMA CompletionDischarges ==
  ASSUME OutboxInv, NEW w \in Workers, phase[w] = "built",
         row' \in {row, RowCompleted(job[w])}, UNCHANGED <<heads, built, reused>>
  PROVE  Contract!Next \/ UNCHANGED Contract!contractVars
<1> DEFINE s == job[w].scope
<1>1. job[w] \in claimed[w] /\ s \in Scopes
  <2>1. job[w] \in claimed[w]
    BY DEF OutboxInv, TypeInv, WorkersOK
  <2> QED
    BY <2>1, ItemTypes DEF OutboxInv
<1>2. CASE row' = row
  BY <1>2 DEF Contract!contractVars, HasRow
<1>3. CASE row' # row
  <2>1. Fenced(job[w]) /\ row' = [row EXCEPT ![s] = NoRow]
    BY <1>3 DEF RowCompleted
  <2>2. \A q \in Scopes : HasRow(q)' <=> HasRow(q) /\ q # s
    BY <1>1, <2>1 DEF HasRow, OutboxInv, TypeInv, RowsOK
  <2>3. CASE s \in reused
    BY <2>2, <2>3 DEF Contract!contractVars
  <2>4. CASE s \notin reused
    <3>1. Current(job[w])
      BY <1>1, <2>1, <2>4 DEF OutboxInv, ReuseSeen, SameGen, Fenced
    <3>2. built[s] = heads[s]
      BY <1>1, <3>1 DEF OutboxInv, BuiltIsFresh
    <3>3. built' = [built EXCEPT ![s] = heads[s]]
      BY <3>2 DEF OutboxInv, TypeInv, CountersOK
    <3>4. {q \in Scopes : HasRow(q)}' \cup reused'
            = ({q \in Scopes : HasRow(q)} \cup reused) \ {s}
      BY <2>2, <2>4
    <3>5. Contract!Consolidate(s)
      BY <3>3, <3>4 DEF Contract!Consolidate
    <3> QED
      BY <1>1, <3>5 DEF Contract!Next
  <2> QED
    BY <2>3, <2>4
<1> QED
  BY <1>2, <1>3

LEMMA ContractStep ==
  ASSUME OutboxInv, [Next]_vars
  PROVE  [Contract!Next]_(Contract!contractVars)
<1> SUFFICES Contract!Next \/ UNCHANGED Contract!contractVars
  OBVIOUS
<1>1. RowsStay => UNCHANGED Contract!contractVars
  BY DEF RowsStay, Contract!contractVars
<1>2. \A s \in Scopes : HasRow(s) => row[s] \in Row
  BY DEF OutboxInv, TypeInv, RowsOK, HasRow
<1>3. \A r \in Row : r # NoRow
  BY NamesAssumption
<1>4. ASSUME NEW s \in Scopes, Mutate(s) PROVE Contract!Commit
  <2>1. /\ built' = built /\ heads' = [heads EXCEPT ![s] = @ + 1] /\ reused \subseteq reused'
        /\ row' = [row EXCEPT ![s] = IF HasRow(s) THEN Advanced(@) ELSE NewRow]
    BY <1>4 DEF Mutate, Enqueue
  <2>2. row'[s] = IF HasRow(s) THEN Advanced(row[s]) ELSE NewRow
    BY <2>1 DEF OutboxInv, TypeInv, RowsOK
  <2>3. HasRow(s)'
    BY <1>2, <1>3, <2>2, RowOperations, NewRowType DEF HasRow
  <2>4. \A q \in Scopes : q # s => heads'[q] = heads[q] /\ row'[q] = row[q]
    BY <2>1 DEF OutboxInv, TypeInv, CountersOK, RowsOK
  <2> QED
    BY <2>1, <2>3, <2>4 DEF Contract!Commit, HasRow
<1>5. ASSUME NEW w \in Workers, NEW batch \in SUBSET Scopes, \A s \in batch : Due(s),
             Claim(w, batch)
      PROVE  RowsStay
  BY <1>2, <1>3, <1>5, RowOperations DEF Claim, Due, RowsStay, HasRow
<1>6. ASSUME NEW w \in Workers, NEW i \in claimed[w], Build(w, i)
      PROVE  Contract!Consolidate(i.scope) /\ i.scope \in Scopes
  BY <1>6, ItemTypes DEF Build, rowVars, HasRow, Contract!Consolidate, OutboxInv
<1>7. ASSUME NEW w \in Workers, NEW i \in claimed[w], BuildFails(w, i) PROVE RowsStay
  BY <1>7 DEF BuildFails, rowVars, RowsStay, HasRow
<1>8. ASSUME NEW w \in Workers, Complete(w) \/ CompleteFails(w)
      PROVE  Contract!Next \/ UNCHANGED Contract!contractVars
  BY <1>8, CompletionDischarges DEF Complete, CompleteFails
<1>9. ASSUME NEW w \in Workers, Defer(w) PROVE RowsStay
  <2>1. job[w] \in claimed[w]
    BY <1>9 DEF Defer, OutboxInv, TypeInv, WorkersOK
  <2>2. job[w].scope \in Scopes /\ job[w].attempts + 1 \in Nat \ {0}
    BY <2>1, ItemTypes DEF OutboxInv, Item
  <2> QED
    BY <1>2, <1>3, <1>9, <2>2, RowOperations
       DEF Defer, RowDeferred, Fenced, RowsStay, HasRow, OutboxInv, TypeInv, RowsOK
<1>10. ASSUME NEW w \in Workers, Crash(w) PROVE RowsStay
  BY <1>10 DEF Crash, rowVars, RowsStay, HasRow
<1>11. CASE Tick
  <2>1. RowsStay
    BY <1>2, <1>3, <1>11, RowOperations DEF Tick, RowsStay, HasRow
  <2> QED
    BY <1>1, <2>1
<1>12. CASE UNCHANGED vars
  BY <1>12 DEF vars, rowVars, HasRow, Contract!contractVars
<1> QED
  BY <1>1, <1>4, <1>5, <1>6, <1>7, <1>8, <1>9, <1>10, <1>11, <1>12
     DEF Next, Work, ClaimScope, ClaimDue, Contract!Next

\* The outbox and its workers keep the contract that GovernedMemory assumes of
\* them, except in a scope whose generation was given out twice.
THEOREM OutboxKeepsContract == Spec => ContractSpec
<1>1. Init => Contract!Init
  BY DEF Init, HasRow, Contract!Init
<1> QED
  BY <1>1, ContractStep, OutboxInvariant, PTL DEF Spec, ContractSpec, Contract!Spec

=============================================================================
