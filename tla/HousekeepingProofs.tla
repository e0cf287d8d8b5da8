------------------------- MODULE HousekeepingProofs -------------------------
(***************************************************************************)
(* Proofs about MemoryQuality, Admission and ScopeCleanup.                 *)
(***************************************************************************)
EXTENDS MemoryQuality, Admission, ScopeCleanup, FiniteSetTheorems, TLAPS

-----------------------------------------------------------------------------
\* Telemetry.

LEMMA RecommendedType ==
  ASSUME NEW S, NEW p \in Recommended(S)
  PROVE  p \in Profiles \cup {NoProfile}
  BY DEF Recommended

LEMMA OlderType ==
  ASSUME NEW t \in Undecided..Horizon
  PROVE  /\ Older(t) \in Undecided..Horizon
         /\ t \in 0..Horizon => Older(t) \in 0..Horizon
         /\ Older(t) = Undecided <=> t = Undecided
         /\ Older(t) <= t + 1
  BY RetentionAssumption DEF Older, Undecided, Horizon

\* The state of MemoryQuality keeps its type.
THEOREM QualityTypeCorrect == Spec => []TypeOK
<1>1. Init => TypeOK
  BY RetentionAssumption
     DEF Init, TypeOK, Tasks, Idle, Kinds, Undecided, Horizon
<1>2. TypeOK /\ [Next]_vars => TypeOK'
  <2> SUFFICES ASSUME TypeOK, [Next]_vars PROVE TypeOK'
    OBVIOUS
  <2> USE DEF TypeOK, Tasks
  <2>1. ASSUME NEW s \in Snapshots, Decide(s) PROVE TypeOK'
    <3>1. age' \in [Snapshots -> Undecided..Horizon]
      BY <2>1, RetentionAssumption DEF Decide, Undecided, Horizon
    <3>2. decisions' \subseteq Snapshots /\ faults' \in 0..MaxFaults
      BY <2>1, RetentionAssumption DEF Decide, Appended, Fail
    <3> QED
      BY <2>1, <3>1, <3>2 DEF Decide
  <2>2. ASSUME NEW s \in Snapshots, Record(s) PROVE TypeOK'
    <3>1. outcomes' \subseteq Snapshots /\ recorded' \subseteq Snapshots /\ faults' \in 0..MaxFaults
      BY <2>2, RetentionAssumption DEF Record, Appended, Fail
    <3> QED
      BY <2>2, <3>1 DEF Record
  <2>3. ASSUME NEW s \in Snapshots, Replay(s) PROVE TypeOK'
    BY <2>3 DEF Replay
  <2>4. ASSUME NEW w \in Invocations, Start(w) PROVE TypeOK'
    BY <2>4 DEF Start, Move
  <2>5. ASSUME NEW w \in Invocations, StartExplicit(w) PROVE TypeOK'
    <3>1. invocation' = [invocation EXCEPT ![w] =
            [phase |-> "evaluate", kind |-> "explicit", elapsed |-> 0, advice |-> NoProfile]]
      BY <2>5, Zenon DEF StartExplicit, Called
    <3>2. 0 \in 0..Timeout
      BY RetentionAssumption
    <3>3. invocation' \in [Invocations -> Tasks]
      BY <3>1, <3>2 DEF Kinds
    <3> QED
      BY <2>5, <3>3 DEF StartExplicit
  <2>6. ASSUME NEW w \in Invocations, Purge(w) PROVE TypeOK'
    <3>1. decisions' \subseteq Snapshots /\ outcomes' \subseteq Snapshots
      BY <2>6 DEF Purge, PurgeRows
    <3>2. newest' \in Runs \cup {NoRun}
      BY <2>6 DEF Purge
    <3> QED
      BY <2>6, <3>1, <3>2 DEF Purge, Move
  <2>7. ASSUME NEW w \in Invocations, Evaluate(w) PROVE TypeOK'
    <3>1. PICK p \in Recommended(Window(outcomes)) :
            invocation' = [invocation EXCEPT ![w].phase = "insert", ![w].advice = p]
      BY <2>7 DEF Evaluate
    <3>2. p \in Profiles \cup {NoProfile}
      BY RecommendedType
    <3>3. invocation' \in [Invocations -> Tasks]
      BY <3>1, <3>2
    <3> QED
      BY <2>7, <3>3 DEF Evaluate
  <2>8. ASSUME NEW w \in Invocations, Insert(w) PROVE TypeOK'
    <3>1. 0 \in 0..Horizon /\ 0 \in 0..Timeout
      BY RetentionAssumption DEF Horizon
    <3>2. newest' \in Runs
      BY <2>8, <3>1 DEF Insert, Runs
    <3>3. invocation' \in [Invocations -> Tasks]
      BY <2>8, <3>1 DEF Insert, Idle, Kinds
    <3> QED
      BY <2>8, <3>2, <3>3 DEF Insert
  <2>9. ASSUME NEW w \in Invocations, Abort(w) PROVE TypeOK'
    BY <2>9, RetentionAssumption DEF Abort, Fail, Idle, Kinds
  <2>10. CASE Tick
    <3>1. age' \in [Snapshots -> Undecided..Horizon]
      BY <2>10, OlderType DEF Tick
    <3>2. newest' \in Runs \cup {NoRun}
      <4>1. CASE newest = NoRun
        BY <2>10, <4>1 DEF Tick
      <4>2. CASE newest # NoRun
        <5>1. newest \in Runs /\ newest' = [newest EXCEPT !.age = Older(newest.age)]
          BY <2>10, <4>2 DEF Tick
        <5>2. Older(newest.age) \in 0..Horizon
          BY <5>1, OlderType, RetentionAssumption DEF Runs, Undecided, Horizon
        <5> QED
          BY <5>1, <5>2 DEF Runs
      <4> QED
        BY <4>1, <4>2
    <3>3. invocation' \in [Invocations -> Tasks]
      <4> SUFFICES ASSUME NEW w \in Invocations
                   PROVE  invocation'[w] \in Tasks
        BY <2>10 DEF Tick
      <4>1. CASE Busy(w)
        BY <2>10, <4>1, RetentionAssumption DEF Tick
      <4>2. CASE ~Busy(w)
        BY <2>10, <4>2 DEF Tick
      <4> QED
        BY <4>1, <4>2
    <3> QED
      BY <2>10, <3>1, <3>2, <3>3 DEF Tick
  <2>11. CASE UNCHANGED vars
    BY <2>11 DEF vars
  <2> QED
    BY <2>1, <2>2, <2>3, <2>4, <2>5, <2>6, <2>7, <2>8, <2>9, <2>10, <2>11 DEF Next, Work
<1> QED
  BY <1>1, <1>2, PTL DEF Spec

-----------------------------------------------------------------------------
\* Between its purge and its insert a scheduled invocation leaves no decision
\* row older than the retention by more than the time it has taken.
PurgedBy(w) ==
  invocation[w].kind = "scheduled" /\ invocation[w].phase \in {"evaluate", "insert"} =>
    \A s \in decisions : age[s] <= Raw + invocation[w].elapsed

RetentionInv ==
  /\ TypeOK
  /\ \A s \in decisions \cup recorded : age[s] # Undecided
  /\ \A w \in Invocations : PurgedBy(w)
  /\ RetentionRidesThrottle

LEMMA RetentionInductive == RetentionInv /\ [Next]_vars /\ TypeOK' => RetentionInv'
<1> SUFFICES ASSUME RetentionInv, [Next]_vars, TypeOK' PROVE RetentionInv'
  OBVIOUS
<1> USE DEF RetentionInv, Tasks
<1>t. Raw \in Nat /\ Timeout \in Nat /\ Undecided = -1
  BY RetentionAssumption DEF Undecided
<1>1. ASSUME NEW s \in Snapshots, Decide(s) PROVE RetentionInv'
  <2>1. \A x \in decisions' : x \in decisions \/ (x = s /\ age'[x] = 0)
    BY <1>1 DEF Decide, TypeOK
  <2>2. \A x \in decisions \cup recorded : x # s /\ age'[x] = age[x]
    BY <1>1 DEF Decide, TypeOK
  <2>3. \A w \in Invocations : PurgedBy(w)'
    BY <1>1, <1>t, <2>1, <2>2 DEF PurgedBy, Decide, TypeOK
  <2>4. RetentionRidesThrottle'
    BY <1>1, <1>t, <2>1, <2>2 DEF RetentionRidesThrottle, Decide, TypeOK, Runs
  <2> QED
    BY <1>1, <1>t, <2>1, <2>2, <2>3, <2>4 DEF Decide
<1>2. ASSUME NEW s \in Snapshots, Record(s) PROVE RetentionInv'
  BY <1>2, <1>t DEF Record, PurgedBy, RetentionRidesThrottle
<1>3. ASSUME NEW s \in Snapshots, Replay(s) PROVE RetentionInv'
  BY <1>3 DEF Replay, PurgedBy, RetentionRidesThrottle
<1>4. ASSUME NEW w \in Invocations, Start(w) PROVE RetentionInv'
  BY <1>4 DEF Start, Move, PurgedBy, RetentionRidesThrottle, TypeOK
<1>5. ASSUME NEW w \in Invocations, StartExplicit(w) PROVE RetentionInv'
  BY <1>5 DEF StartExplicit, Called, PurgedBy, RetentionRidesThrottle, TypeOK
<1>6. ASSUME NEW w \in Invocations, Purge(w) PROVE RetentionInv'
  <2>1. decisions' \subseteq decisions /\ \A s \in decisions' : age'[s] <= Raw
    <3>1. \A s \in decisions' : s \in Snapshots /\ ~(age[s] > Raw)
      BY <1>6 DEF Purge, PurgeRows, Expired, TypeOK
    <3> QED
      BY <1>6, <1>t, <3>1 DEF Purge, PurgeRows, TypeOK
  <2>2. \A v \in Invocations : PurgedBy(v)'
    BY <1>6, <1>t, <2>1 DEF Purge, Move, PurgedBy, TypeOK
  <2>3. RetentionRidesThrottle'
    BY <1>6, <2>1 DEF Purge, RetentionRidesThrottle
  <2> QED
    BY <1>6, <2>1, <2>2, <2>3 DEF Purge
<1>7. ASSUME NEW w \in Invocations, Evaluate(w) PROVE RetentionInv'
  BY <1>7 DEF Evaluate, PurgedBy, RetentionRidesThrottle, TypeOK
<1>8. ASSUME NEW w \in Invocations, Insert(w) PROVE RetentionInv'
  <2>1. \A v \in Invocations : PurgedBy(v)'
    BY <1>8 DEF Insert, Idle, PurgedBy, TypeOK
  <2>2. RetentionRidesThrottle'
    <3> SUFFICES ASSUME newest'.kind = "scheduled", NEW s \in decisions'
                 PROVE  age'[s] <= Raw + newest'.age + Timeout
      BY DEF RetentionRidesThrottle
    <3>1. newest'.age = 0 /\ invocation[w].kind = "scheduled" /\ s \in decisions /\ age'[s] = age[s]
      BY <1>8 DEF Insert
    <3>2. age[s] <= Raw + invocation[w].elapsed
      BY <1>8, <3>1 DEF Insert, PurgedBy
    <3>3. age[s] \in Int /\ invocation[w].elapsed \in 0..Timeout
      BY <3>1 DEF TypeOK
    <3> QED
      BY <1>t, <3>1, <3>2, <3>3
  <2> QED
    BY <1>8, <2>1, <2>2 DEF Insert
<1>9. ASSUME NEW w \in Invocations, Abort(w) PROVE RetentionInv'
  BY <1>9 DEF Abort, Idle, PurgedBy, RetentionRidesThrottle, TypeOK
<1>10. CASE Tick
  <2>1. \A s \in Snapshots : age'[s] = Older(age[s]) /\ age[s] \in Undecided..Horizon
    BY <1>10 DEF Tick, TypeOK
  <2>2. \A s \in decisions' \cup recorded' : age'[s] # Undecided
    BY <1>10, <2>1, OlderType DEF Tick, TypeOK
  <2>3. ASSUME NEW w \in Invocations PROVE PurgedBy(w)'
    <3> SUFFICES ASSUME invocation'[w].kind = "scheduled",
                        invocation'[w].phase \in {"evaluate", "insert"},
                        NEW s \in decisions'
                 PROVE  age'[s] <= Raw + invocation'[w].elapsed
      BY DEF PurgedBy
    <3>1. s \in decisions /\ s \in Snapshots
      BY <1>10 DEF Tick, TypeOK
    <3>2. /\ invocation[w].kind = "scheduled" /\ invocation[w].phase \in {"evaluate", "insert"}
          /\ invocation'[w].elapsed = invocation[w].elapsed + 1
      BY <1>10 DEF Tick, Busy, TypeOK
    <3>3. age[s] <= Raw + invocation[w].elapsed
      BY <3>1, <3>2 DEF PurgedBy
    <3>4. age'[s] <= age[s] + 1
      BY <2>1, <3>1, OlderType
    <3>5. age[s] \in Int /\ age'[s] \in Int /\ invocation[w].elapsed \in Int
      BY <3>1 DEF TypeOK
    <3> QED
      BY <1>t, <3>2, <3>3, <3>4, <3>5
  <2>4. RetentionRidesThrottle'
    <3> SUFFICES ASSUME newest' # NoRun, newest'.kind = "scheduled", NEW s \in decisions'
                 PROVE  age'[s] <= Raw + newest'.age + Timeout
      BY DEF RetentionRidesThrottle
    <3>1. newest \in Runs /\ newest # NoRun /\ newest.kind = "scheduled"
      BY <1>10 DEF Tick, TypeOK, Runs
    <3>2. newest'.age = Older(newest.age) /\ newest.age \in 0..Horizon
      BY <1>10, <3>1 DEF Tick, Runs
    <3>3. s \in decisions /\ s \in Snapshots /\ age[s] <= Raw + newest.age + Timeout
      BY <1>10, <3>1 DEF Tick, TypeOK, RetentionRidesThrottle
    <3>4. age'[s] <= age[s] + 1 /\ age'[s] \in Undecided..Horizon
      BY <2>1, <3>3, OlderType
    <3>5. CASE newest.age < Horizon
      <4>1. newest'.age = newest.age + 1
        BY <3>2, <3>5, RetentionAssumption DEF Older, Horizon
      <4> QED
        BY <1>t, <2>1, <3>2, <3>3, <3>4, <4>1, RetentionAssumption DEF Horizon
    <3>6. CASE newest.age = Horizon
      <4>1. newest'.age = Horizon
        BY <3>2, <3>6, RetentionAssumption DEF Older, Horizon
      <4> QED
        BY <1>t, <3>4, <4>1, RetentionAssumption DEF Horizon
    <3> QED
      BY <3>2, <3>5, <3>6, RetentionAssumption DEF Horizon
  <2> QED
    BY <2>2, <2>3, <2>4
<1>11. CASE UNCHANGED vars
  BY <1>11 DEF vars, PurgedBy, RetentionRidesThrottle
<1> QED
  BY <1>1, <1>2, <1>3, <1>4, <1>5, <1>6, <1>7, <1>8, <1>9, <1>10, <1>11 DEF Next, Work

\* Retention runs before the write that advances the throttle, so raw decision
\* rows are bounded by the age of the newest scheduled run.
THEOREM RetentionBounded == Spec => []RetentionRidesThrottle
<1>1. Init => RetentionInv
  <2>1. Init => TypeOK
    BY RetentionAssumption
       DEF Init, TypeOK, Tasks, Idle, Kinds, Undecided, Horizon
  <2> QED
    BY <2>1 DEF Init, RetentionInv, PurgedBy, Idle, RetentionRidesThrottle
<1>2. Spec => []TypeOK
  BY QualityTypeCorrect
<1>3. RetentionInv => RetentionRidesThrottle
  BY DEF RetentionInv
<1> QED
  BY <1>1, <1>2, <1>3, RetentionInductive, PTL DEF Spec

\* A step that deletes telemetry deletes expired rows only, outside the window
\* of the evaluator, a decision and its outcome together.
THEOREM PurgesAreClean == Spec => PurgeIsClean
<1> DEFINE Clean == \A s \in Snapshots :
                      /\ s \in decisions \ decisions' =>
                           age[s] > Raw /\ age[s] > Lookback /\ s \notin outcomes'
                      /\ s \in outcomes \ outcomes' => s \in decisions \ decisions'
<1>1. TypeOK /\ [Next]_vars => [Clean]_vars
  <2> SUFFICES ASSUME TypeOK, [Next]_vars PROVE Clean
    OBVIOUS
  <2>1. ASSUME NEW w \in Invocations, Purge(w) PROVE Clean
    BY <2>1, RetentionAssumption DEF Purge, PurgeRows, Expired, TypeOK, Undecided, Horizon
  <2>2. CASE decisions \subseteq decisions' /\ outcomes \subseteq outcomes'
    BY <2>2
  <2>3. (\E w \in Invocations : Purge(w)) \/ (decisions \subseteq decisions' /\ outcomes \subseteq outcomes')
    BY DEF Next, Work, vars, Decide, Record, Replay, Start, StartExplicit, Evaluate, Insert,
           Abort, Tick
  <2> QED
    BY <2>1, <2>2, <2>3
<1> QED
  BY <1>1, QualityTypeCorrect, PTL DEF Spec, PurgeIsClean

-----------------------------------------------------------------------------
\* What lost labels can hide.

LEMMA WindowFinite ==
  ASSUME TypeOK, NEW labels
  PROVE  IsFiniteSet(Window(labels))
<1> DEFINE W == {x \in decisions : age[x] <= Lookback}
           f == [s \in W |-> Row(s, labels)]
<1>1. IsFiniteSet(W)
  <2>1. W \in SUBSET Snapshots
    BY DEF TypeOK
  <2> QED
    BY <2>1, SnapshotsAssumption, FS_Subset
<1>2. f \in Surjection(W, Window(labels))
  BY DEF Window, Surjection
<1> QED
  BY <1>1, <1>2, FS_Surjection

\* A failure the memory knows of is either labelled in the telemetry or is one
\* of the exposed decisions without a label.
LEMMA HiddenHarm ==
  ASSUME TypeOK, outcomes \subseteq recorded, NEW p
  PROVE  LET truth == Observed(Window(recorded))
             known == Observed(Window(outcomes))
             shown == Exposed(Window(outcomes))
         IN Having(Kept(truth, p), "harmful")
              <= Having(Kept(known, p), "harmful") + Cardinality(shown) - Cardinality(known)
<1> DEFINE known == Observed(Window(outcomes))
           shown == Exposed(Window(outcomes))
           T == {r \in Kept(Observed(Window(recorded)), p) : r.verdict = "harmful"}
           K == {r \in Kept(known, p) : r.verdict = "harmful"}
           U == shown \ known
           f == [r \in T |-> Row(r.id, outcomes)]
<1>1. IsFiniteSet(shown) /\ known \in SUBSET shown /\ K \in SUBSET known
  <2>1. shown \in SUBSET Window(outcomes)
    BY DEF Exposed
  <2> QED
    BY <2>1, WindowFinite, FS_Subset DEF Observed, Exposed, Kept
<1>2. IsFiniteSet(known) /\ IsFiniteSet(K) /\ IsFiniteSet(U)
  BY <1>1, FS_Subset, FS_Difference
<1>3. f \in Injection(T, K \cup U)
  <2>1. ASSUME NEW r \in T
        PROVE  /\ r = Row(r.id, recorded) /\ r.id \in decisions /\ age[r.id] <= Lookback
               /\ r.exposed /\ r.verdict = "harmful" /\ r.shadow[p] = "same"
    <3>1. r \in Window(recorded) /\ r.exposed /\ r.verdict = "harmful" /\ r.shadow[p] = "same"
      BY <2>1 DEF Observed, Exposed, Kept
    <3>2. PICK s \in decisions : age[s] <= Lookback /\ r = Row(s, recorded)
      BY <3>1 DEF Window
    <3>3. r.id = s
      BY <3>2 DEF Row
    <3> QED
      BY <3>1, <3>2, <3>3
  <2>2. ASSUME NEW r \in T PROVE f[r] \in K \cup U /\ f[r].id = r.id
    <3> DEFINE q == Row(r.id, outcomes)
    <3>1. q \in Window(outcomes) /\ q.exposed /\ q.shadow[p] = "same" /\ q.id = r.id
      <4>1. q \in Window(outcomes)
        BY <2>1 DEF Window
      <4>2. q.exposed = r.exposed /\ q.shadow = r.shadow /\ q.id = r.id
        <5> DEFINE c == Row(r.id, recorded)
        <5>1. q.exposed = c.exposed /\ q.shadow = c.shadow /\ q.id = r.id
          BY DEF Row
        <5> QED
          BY <5>1, <2>1
      <4> QED
        BY <4>1, <4>2, <2>1
    <3>2. q.verdict \in {r.verdict, "none"}
      BY <2>1 DEF Row
    <3>3. q \in shown
      BY <3>1 DEF Exposed
    <3>4. CASE q.verdict = "none"
      BY <3>1, <3>3, <3>4 DEF Observed, Labelled
    <3>5. CASE q.verdict = r.verdict
      BY <2>1, <3>1, <3>3, <3>5 DEF Observed, Labelled, Kept
    <3> QED
      BY <3>1, <3>2, <3>4, <3>5
  <2>3. ASSUME NEW r \in T, NEW q \in T, f[r] = f[q] PROVE r = q
    <3>1. r.id = q.id
      BY <2>2, <2>3
    <3> QED
      BY <2>1, <3>1
  <2> QED
    BY <2>2, <2>3 DEF Injection, IsInjective
<1>4. Cardinality(T) <= Cardinality(K \cup U)
  <2>1. IsFiniteSet(K \cup U)
    BY <1>2, FS_Union
  <2> QED
    BY <1>3, <2>1, FS_Injection
<1>5. Cardinality(K \cup U) <= Cardinality(K) + Cardinality(U)
  <2>1. IsFiniteSet(K \cap U)
    BY <1>2, FS_Intersection
  <2>2. /\ Cardinality(K \cap U) \in Nat /\ Cardinality(K) \in Nat /\ Cardinality(U) \in Nat
        /\ Cardinality(K \cup U) = Cardinality(K) + Cardinality(U) - Cardinality(K \cap U)
    BY <1>2, <2>1, FS_Union, FS_CardinalityType
  <2> QED
    BY <2>2
<1>6. Cardinality(U) = Cardinality(shown) - Cardinality(known)
  <2>1. shown \cap known = known
    BY <1>1
  <2> QED
    BY <1>1, <2>1, FS_Difference
<1>7. IsFiniteSet(T) /\ IsFiniteSet(K \cup U)
  BY <1>2, <1>3, FS_Union, FS_Injection
<1>8. {Cardinality(T), Cardinality(K), Cardinality(U), Cardinality(K \cup U),
       Cardinality(shown), Cardinality(known)} \subseteq Nat
  BY <1>1, <1>2, <1>7, FS_CardinalityType
<1> QED
  <2>1. Cardinality(T) <= Cardinality(K) + Cardinality(shown) - Cardinality(known)
    BY <1>4, <1>5, <1>6, <1>8
  <2> QED
    BY <2>1 DEF Having

\* An invocation has no advice before it has evaluated, and every stored label
\* is the one the memory recorded.
AdviceInv ==
  /\ TypeOK
  /\ outcomes \subseteq recorded
  /\ \A w \in Invocations : invocation[w].phase # "insert" => invocation[w].advice = NoProfile

LEMMA AdviceInductive == AdviceInv /\ [Next]_vars /\ TypeOK' => AdviceInv'
<1> SUFFICES ASSUME AdviceInv, [Next]_vars, TypeOK'
             PROVE  /\ (outcomes \subseteq recorded)'
                    /\ \A w \in Invocations :
                         invocation'[w].phase # "insert" => invocation'[w].advice = NoProfile
  BY DEF AdviceInv
<1> USE DEF AdviceInv, TypeOK, Tasks
<1>1. CASE UNCHANGED vars
  BY <1>1 DEF vars
<1>2. ASSUME NEW s \in Snapshots, Decide(s) \/ Record(s) \/ Replay(s)
      PROVE  /\ (outcomes \subseteq recorded)' /\ UNCHANGED invocation
  BY <1>2 DEF Decide, Record, Replay
<1>3. ASSUME NEW v \in Invocations, Start(v) \/ Purge(v)
      PROVE  /\ (outcomes \subseteq recorded)'
             /\ \A w \in Invocations : invocation'[w].advice = NoProfile \/ invocation'[w].phase = "insert"
  <2>1. invocation[v].advice = NoProfile
    BY <1>3 DEF Start, Purge
  <2>2. \A w \in Invocations : invocation'[w].advice = invocation[w].advice
                               /\ (w # v => invocation'[w].phase = invocation[w].phase)
    BY <1>3 DEF Start, Purge, Move
  <2> QED
    BY <1>3, <2>1, <2>2 DEF Start, Purge, PurgeRows
<1>4. ASSUME NEW v \in Invocations, StartExplicit(v) \/ Insert(v) \/ Abort(v)
      PROVE  /\ (outcomes \subseteq recorded)'
             /\ \A w \in Invocations : invocation'[w].phase # "insert" => invocation'[w].advice = NoProfile
  BY <1>4 DEF StartExplicit, Insert, Abort, Called, Idle
<1>5. ASSUME NEW v \in Invocations, Evaluate(v)
      PROVE  /\ (outcomes \subseteq recorded)'
             /\ \A w \in Invocations : invocation'[w].phase # "insert" => invocation'[w].advice = NoProfile
  <2>1. invocation'[v].phase = "insert" /\ \A w \in Invocations \ {v} : invocation'[w] = invocation[w]
    BY <1>5 DEF Evaluate
  <2> QED
    BY <1>5, <2>1 DEF Evaluate
<1>6. CASE Tick
  <2>1. \A w \in Invocations : invocation'[w].advice = invocation[w].advice
                               /\ invocation'[w].phase = invocation[w].phase
    BY <1>6 DEF Tick
  <2> QED
    BY <1>6, <2>1 DEF Tick
<1> QED
  BY <1>1, <1>2, <1>3, <1>4, <1>5, <1>6 DEF Next, Work

LEMMA AdviceIsBounded ==
  ASSUME AdviceInv, NEW w \in Invocations, NEW p \in Profiles,
         p \in Recommended(Window(outcomes))
  PROVE  100 * Having(Kept(Observed(Window(recorded)), p), "harmful")
           <= Policy.harm * Cardinality(Kept(Observed(Window(outcomes)), p))
              + (100 - Policy.coverage) * Cardinality(Exposed(Window(outcomes)))
<1> DEFINE known == Observed(Window(outcomes))
           shown == Exposed(Window(outcomes))
           t == Having(Kept(Observed(Window(recorded)), p), "harmful")
           h == Having(Kept(known, p), "harmful")
           k == Cardinality(Kept(known, p))
           e == Cardinality(shown)
           o == Cardinality(known)
<1>1. Eligible(Window(outcomes), p)
  BY PolicyAssumption DEF Recommended, NoProfile
<1>2. 100 * h <= Policy.harm * k
  BY <1>1 DEF Eligible, Harmless, AtMost
<1>3. 100 * o >= Policy.coverage * e
  BY <1>1 DEF Eligible, SamplingGate, LabelCoverage, AtLeast
<1>4. t <= h + e - o
  BY HiddenHarm DEF AdviceInv
<1>5. t \in Nat /\ h \in Nat /\ k \in Nat /\ e \in Nat /\ o \in Nat
  <2>1. IsFiniteSet(Window(outcomes)) /\ IsFiniteSet(Window(recorded))
    BY WindowFinite DEF AdviceInv
  <2>2. /\ {r \in Kept(Observed(Window(recorded)), p) : r.verdict = "harmful"} \in SUBSET Window(recorded)
        /\ {r \in Kept(known, p) : r.verdict = "harmful"} \in SUBSET Window(outcomes)
        /\ Kept(known, p) \in SUBSET Window(outcomes)
        /\ shown \in SUBSET Window(outcomes) /\ known \in SUBSET Window(outcomes)
    BY DEF Kept, Observed, Exposed
  <2> QED
    BY <2>1, <2>2, FS_Subset, FS_CardinalityType DEF Having
<1> HIDE DEF t, h, k, e, o
<1>6. Policy.coverage \in Int /\ Policy.harm \in Int
  BY PolicyAssumption
<1>7. (100 - Policy.coverage) * e = 100 * e - Policy.coverage * e
  BY <1>5, <1>6
<1>8. Policy.harm * k \in Int /\ Policy.coverage * e \in Int
  BY <1>5, <1>6
<1>9. 100 * t <= Policy.harm * k + (100 - Policy.coverage) * e
  BY <1>2, <1>3, <1>4, <1>5, <1>7, <1>8
<1> QED
  BY <1>9 DEF t, h, k, e, o

\* Lost labels cannot hide more harm from a recommendation than the label gate
\* lets go unlabelled.
THEOREM LossBounded == Spec => LossIsBounded
<1> DEFINE Bounded ==
      \A w \in Invocations :
        LET p == invocation'[w].advice
            known == Observed(Window(outcomes))
        IN invocation[w].phase = "evaluate" /\ p \in Profiles =>
             100 * Having(Kept(Observed(Window(recorded)), p), "harmful")
               <= Policy.harm * Cardinality(Kept(known, p))
                  + (100 - Policy.coverage) * Cardinality(Exposed(Window(outcomes)))
<1>1. Init => AdviceInv
  <2>1. Init => TypeOK
    BY RetentionAssumption DEF Init, TypeOK, Tasks, Idle, Kinds, Undecided, Horizon
  <2> QED
    BY <2>1 DEF Init, AdviceInv, Idle
<1>2. AdviceInv /\ [Next]_vars => [Bounded]_vars
  <2> SUFFICES ASSUME AdviceInv, [Next]_vars, NEW w \in Invocations, NEW p \in Profiles,
                      p = invocation'[w].advice, invocation[w].phase = "evaluate"
               PROVE  p \in Recommended(Window(outcomes))
    BY AdviceIsBounded
  <2>1. invocation[w].advice = NoProfile /\ p # NoProfile
    BY PolicyAssumption DEF AdviceInv, NoProfile
  <2>2. PICK v \in Invocations : Evaluate(v) /\ v = w
    <3> USE <2>1 DEF AdviceInv, TypeOK, Tasks
    <3>1. ~ UNCHANGED vars /\ ~ (\E s \in Snapshots : Decide(s) \/ Record(s) \/ Replay(s))
      BY DEF vars, Decide, Record, Replay
    <3>2. ~ Tick
      BY DEF Tick, Busy
    <3>3. ASSUME NEW u \in Invocations PROVE ~ (Start(u) \/ Purge(u))
      BY DEF Start, Purge, Move
    <3>4. ASSUME NEW u \in Invocations PROVE ~ (Insert(u) \/ StartExplicit(u) \/ Abort(u))
      BY DEF Insert, StartExplicit, Abort, Called, Idle
    <3>5. ASSUME NEW u \in Invocations, Evaluate(u) PROVE u = w
      BY <3>5 DEF Evaluate
    <3> QED
      BY <3>1, <3>2, <3>3, <3>4, <3>5 DEF Next, Work
  <2> QED
    BY <2>1, <2>2 DEF Evaluate, AdviceInv, TypeOK, Tasks
<1> QED
  BY <1>1, <1>2, AdviceInductive, QualityTypeCorrect, PTL DEF Spec, LossIsBounded

-----------------------------------------------------------------------------
\* Admission.

\* A charge in flight is for one of the last minutes, and the rows of these
\* minutes count at least what was admitted on them.
AdmissionInv ==
  /\ AdmissionTypeOK
  /\ \A c \in Callers : call[c] # NoCall => minute <= call[c].bucket + 2 /\ call[c].bucket <= minute
  /\ \A k \in Principals, b \in Buckets : minute - 2 <= b =>
       /\ admitted[k][b] > 0 => Current(k, b) # {}
       /\ \A x \in Current(k, b) : admitted[k][b] <= x.count
  /\ AdmittedWithinLimit

LEMMA CommitKeepsAdmission ==
  ASSUME AdmissionInv, NEW c \in Callers, Commit(c)
  PROVE  AdmissionInv'
<1> USE DEF AdmissionInv
<1>0. MaxLag \in 0..2 /\ MaxMinute \in Nat
  BY AdmissionAssumption
<1>a. PICK k \in Principals, b \in Buckets : call[c] = [principal |-> k, bucket |-> b]
  BY DEF Commit, AdmissionTypeOK, Charges
<1>1. minute <= b + 2 /\ b <= minute /\ minute' = minute
  BY <1>a DEF Commit
<1>2. minute \in Int /\ b \in Int /\ admitted[k][b] \in Nat
  BY <1>0, <1>1 DEF AdmissionTypeOK, Buckets
<1>b. PICK n \in Nat : n = NextCount(k, b) /\ admitted[k][b] + 1 <= n
  <2>1. CASE Current(k, b) = {}
    BY <1>1, <1>2, <2>1 DEF NextCount
  <2>2. CASE Current(k, b) # {}
    <3> DEFINE x == CHOOSE y \in Current(k, b) : TRUE
    <3>1. x \in Current(k, b)
      BY <2>2
    <3>2. x.count \in Nat
      BY <3>1 DEF Current, AdmissionTypeOK, Counters
    <3>3. admitted[k][b] <= x.count
      BY <1>1, <1>2, <3>1
    <3>4. NextCount(k, b) = x.count + 1
      BY <2>2 DEF NextCount
    <3> HIDE DEF x
    <3>5. NextCount(k, b) \in Nat /\ admitted[k][b] + 1 <= NextCount(k, b)
      BY <1>2, <3>2, <3>3, <3>4
    <3> QED
      BY <3>5
  <2> QED
    BY <2>1, <2>2
<1> DEFINE row == [principal |-> k, bucket |-> b, count |-> n]
<1>4. counters' = (counters \ (Outdated(k, b) \cup Current(k, b))) \cup {row}
  BY <1>a, <1>b DEF Commit, Charge
<1>5. \/ n <= Limit[k] /\ admitted' = [admitted EXCEPT ![k][b] = @ + 1]
      \/ admitted' = admitted
  BY <1>a, <1>b DEF Commit
<1>6. AdmissionTypeOK'
  <2>1. counters' \subseteq Counters
    BY <1>4 DEF AdmissionTypeOK, Counters
  <2>2. admitted' \in [Principals -> [Buckets -> Nat]]
    BY <1>1, <1>2, <1>5 DEF AdmissionTypeOK
  <2> QED
    BY <1>1, <2>1, <2>2 DEF Commit, AdmissionTypeOK
<1>7. \A d \in Callers : call'[d] # NoCall =>
        minute' <= call'[d].bucket + 2 /\ call'[d].bucket <= minute'
  BY <1>1 DEF Commit, AdmissionTypeOK
<1>8. ASSUME NEW j \in Principals, NEW a \in Buckets, minute - 2 <= a
      PROVE  /\ admitted'[j][a] > 0 => Current(j, a)' # {}
             /\ \A x \in Current(j, a)' : admitted'[j][a] <= x.count
  <2>1. CASE j = k /\ a = b
    <3>1. Current(k, b)' = {row}
      BY <1>4 DEF Current
    <3>2. admitted'[k][b] <= n
      BY <1>1, <1>2, <1>b, <1>5 DEF AdmissionTypeOK
    <3> QED
      BY <2>1, <3>1, <3>2
  <2>2. CASE j # k \/ a # b
    <3>1. admitted'[j][a] = admitted[j][a]
      BY <1>1, <1>5, <2>2 DEF AdmissionTypeOK
    <3>2. ASSUME NEW x \in Current(j, a) PROVE x \notin Outdated(k, b)
      BY <1>1, <1>2, <1>8, <1>0 DEF Outdated, Current, Buckets
    <3>3. \A x : x \in Current(j, a)' <=> x \in Current(j, a)
      BY <1>4, <2>2, <3>2 DEF Current
    <3> QED
      BY <1>8, <3>1, <3>3
  <2> QED
    BY <2>1, <2>2
<1>9. AdmittedWithinLimit'
  <2> SUFFICES ASSUME NEW j \in Principals, NEW a \in Buckets, Limited(j)
               PROVE  admitted'[j][a] <= Limit[j]
    BY DEF AdmittedWithinLimit, Limited
  <2>1. CASE j = k /\ a = b
    <3>1. Limit[k] \in Int
      BY <1>1, AdmissionAssumption
    <3>2. admitted[k][b] <= Limit[k]
      BY <2>1 DEF AdmittedWithinLimit
    <3> QED
      BY <1>1, <1>2, <1>b, <1>5, <2>1, <3>1, <3>2 DEF AdmissionTypeOK
  <2>2. CASE j # k \/ a # b
    BY <1>1, <1>5, <2>2 DEF AdmissionTypeOK, AdmittedWithinLimit
  <2> QED
    BY <2>1, <2>2
<1> QED
  BY <1>1, <1>6, <1>7, <1>8, <1>9

\* However charges and clean-ups of different minutes interleave, nobody is
\* admitted more often than the limit in the minute a request is charged to.
THEOREM AdmissionHolds == AdmissionSpec => []AdmittedWithinLimit
<1>1. AdmissionInit => AdmissionInv
  <2> SUFFICES ASSUME AdmissionInit PROVE AdmissionInv
    OBVIOUS
  <2>1. AdmissionTypeOK
    BY AdmissionAssumption DEF AdmissionInit, AdmissionTypeOK, Buckets
  <2>2. \A k \in Principals, b \in Buckets : admitted[k][b] = 0
    BY DEF AdmissionInit
  <2>3. AdmittedWithinLimit
    BY <2>2, AdmissionAssumption DEF AdmittedWithinLimit, Limited
  <2> QED
    BY <2>1, <2>2, <2>3 DEF AdmissionInit, AdmissionInv, Current
<1>2. AdmissionInv /\ [AdmissionNext]_admissionVars => AdmissionInv'
  <2> SUFFICES ASSUME AdmissionInv, [AdmissionNext]_admissionVars PROVE AdmissionInv'
    OBVIOUS
  <2>0. MaxLag \in 0..2 /\ MaxMinute \in Nat /\ minute \in Int
    BY AdmissionAssumption DEF AdmissionInv, AdmissionTypeOK, Buckets
  <2>1. ASSUME NEW c \in Callers, NEW k \in Principals, Arrive(c, k) PROVE AdmissionInv'
    <3>1. /\ call' \in [Callers -> Charges \cup {NoCall}]
          /\ \A d \in Callers : call'[d] = call[d] \/ call'[d].bucket = minute
      BY <2>1 DEF Arrive, AdmissionInv, AdmissionTypeOK, Charges
    <3> QED
      BY <2>0, <2>1, <3>1
         DEF Arrive, AdmissionInv, AdmissionTypeOK, AdmittedWithinLimit, Limited, Current
  <2>2. ASSUME NEW c \in Callers, Commit(c) PROVE AdmissionInv'
    BY <2>2, CommitKeepsAdmission
  <2>3. ASSUME NEW c \in Callers, GiveUp(c) PROVE AdmissionInv'
    BY <2>3 DEF GiveUp, AdmissionInv, AdmissionTypeOK, AdmittedWithinLimit, Limited, Current
  <2>4. CASE Minute
    <3>1. \A b \in Buckets : b \in Int /\ (minute' - 2 <= b => minute - 2 <= b)
      BY <2>0, <2>4 DEF Minute, Buckets
    <3>2. \A c \in Callers : call'[c] # NoCall =>
            minute' <= call'[c].bucket + 2 /\ call'[c].bucket <= minute'
      <4> SUFFICES ASSUME NEW c \in Callers, call[c] # NoCall
                   PROVE  minute' <= call[c].bucket + 2 /\ call[c].bucket <= minute'
        BY <2>4 DEF Minute
      <4>1. call[c].bucket \in Int
        BY <3>1 DEF AdmissionInv, AdmissionTypeOK, Charges
      <4> QED
        BY <2>0, <2>4, <4>1 DEF Minute, AdmissionInv
    <3> QED
      BY <2>0, <2>4, <3>1, <3>2
         DEF Minute, AdmissionInv, AdmissionTypeOK, AdmittedWithinLimit, Limited, Current, Buckets
  <2>5. CASE UNCHANGED admissionVars
    BY <2>5 DEF admissionVars, AdmissionInv, AdmissionTypeOK, AdmittedWithinLimit, Limited, Current
  <2> QED
    BY <2>1, <2>2, <2>3, <2>4, <2>5 DEF AdmissionNext
<1>3. AdmissionInv => AdmittedWithinLimit
  BY DEF AdmissionInv
<1> QED
  BY <1>1, <1>2, <1>3, PTL DEF AdmissionSpec

-----------------------------------------------------------------------------
\* Scope deletion and the sweep, for any scopes, producers and workers.

\* Once the first transaction is through, the scope has no authoritative row.
L1StaysGone ==
  \A s \in Scopes : phase[s] \in {"half", "cleaned"} => episodes[s] = {} /\ heads[s] = {}

CleanupInv == CleanupTypeOK /\ L1StaysGone /\ CleanupIsFinal

LEMMA InitiallyInvariant == CleanupInit => CleanupInv
  BY DEF CleanupInit, CleanupInv, CleanupTypeOK, L1StaysGone, CleanupIsFinal, Derived, Audited

-----------------------------------------------------------------------------

\* A demonstration that is over records nothing, so what is gone stays gone.
LEMMA RecordKeeps ==
  ASSUME CleanupInv, NEW s \in Scopes, NEW p \in Producers, Demonstrate(s, p)
  PROVE  CleanupInv'
<1> USE DEF CleanupInv, Demonstrate
<1>1. CleanupTypeOK'
  BY DEF CleanupTypeOK, Derived
<1>2. L1StaysGone' /\ CleanupIsFinal'
  BY DEF CleanupTypeOK, L1StaysGone, CleanupIsFinal
<1> QED
  BY <1>1, <1>2

\* Retirement enqueues only scopes that had a head.
LEMMA RetireKeeps ==
  ASSUME CleanupInv, NEW p \in Producers, Retire(p)
  PROVE  CleanupInv'
<1> USE DEF CleanupInv, Retire
<1>1. CleanupTypeOK'
  BY DEF CleanupTypeOK, Derived
<1>2. L1StaysGone' /\ CleanupIsFinal'
  BY DEF CleanupTypeOK, L1StaysGone, CleanupIsFinal
<1> QED
  BY <1>1, <1>2

\* Without heads a consolidation writes nothing.
LEMMA DrainKeeps ==
  ASSUME CleanupInv, NEW w \in Workers,
         Build(w) \/ Settle(w) \/ \E s \in Scopes : Claim(w, s)
  PROVE  CleanupInv'
<1> USE DEF CleanupInv
<1>1. CASE \E s \in Scopes : Claim(w, s)
  BY <1>1 DEF Claim, l1Vars, CleanupTypeOK, L1StaysGone, CleanupIsFinal
<1>2. CASE Build(w)
  <2>1. claimed[w] \in Scopes
    BY <1>2 DEF Build, CleanupTypeOK
  <2>2. PICK written \in Writes(claimed[w]) :
          rows' = [rows EXCEPT ![claimed[w]] = (@ \ {"effectiveness"}) \cup written]
    BY <1>2 DEF Build
  <2>3. written \subseteq Derived
    BY <2>2 DEF Writes, Derived, Audited
  <2>4. heads[claimed[w]] = {} => written = {}
    BY <2>2 DEF Writes
  <2>5. CleanupTypeOK'
    BY <1>2, <2>1, <2>2, <2>3 DEF Build, l1Vars, CleanupTypeOK
  <2>6. L1StaysGone' /\ CleanupIsFinal'
    BY <1>2, <2>1, <2>2, <2>4 DEF Build, l1Vars, CleanupTypeOK, L1StaysGone, CleanupIsFinal
  <2> QED
    BY <2>5, <2>6
<1>3. CASE Settle(w)
  BY <1>3 DEF Settle, l1Vars, CleanupTypeOK, L1StaysGone, CleanupIsFinal
<1> QED
  BY <1>1, <1>2, <1>3

\* The second transaction starts from a scope whose authoritative rows are gone.
LEMMA DeletionKeeps ==
  ASSUME CleanupInv, NEW s \in Scopes, CleanUp(s) \/ Abandon(s)
  PROVE  CleanupInv'
<1> USE DEF CleanupInv, Goto
<1>1. CASE phase[s] = "open" /\ DeleteL1(s) /\ Goto(s, "half") /\ UNCHANGED claimed
  BY <1>1 DEF DeleteL1, CleanupTypeOK, L1StaysGone, CleanupIsFinal
<1>2. CASE phase[s] = "half" /\ DeleteDerived(s) /\ Goto(s, "cleaned") /\ UNCHANGED claimed
  BY <1>2 DEF DeleteDerived, l1Vars, CleanupTypeOK, L1StaysGone, CleanupIsFinal
<1>3. CASE Abandon(s)
  BY <1>3 DEF Abandon, l1Vars, CleanupTypeOK, L1StaysGone, CleanupIsFinal
<1> QED
  BY <1>1, <1>2, <1>3 DEF CleanUp

LEMMA SweepKeeps ==
  ASSUME CleanupInv, Sweep
  PROVE  CleanupInv'
  BY DEF CleanupInv, Sweep, Orphaned, l1Vars, CleanupTypeOK, L1StaysGone, CleanupIsFinal

LEMMA StepsKeepInvariant == CleanupInv /\ [CleanupNext]_cleanupVars => CleanupInv'
<1> SUFFICES ASSUME CleanupInv, [CleanupNext]_cleanupVars PROVE CleanupInv'
  OBVIOUS
<1>1. CASE UNCHANGED cleanupVars
  BY <1>1 DEF cleanupVars, l1Vars, CleanupInv, CleanupTypeOK, L1StaysGone, CleanupIsFinal
<1>2. CASE CleanupNext
  BY <1>2, RecordKeeps, RetireKeeps, DrainKeeps, DeletionKeeps, SweepKeeps DEF CleanupNext
<1> QED
  BY <1>1, <1>2

LEMMA Invariance == CleanupSpec => []CleanupInv
  BY InitiallyInvariant, StepsKeepInvariant, PTL DEF CleanupSpec

-----------------------------------------------------------------------------

\* A completed deletion leaves nothing, and nothing comes back, whatever workers
\* and reconcilers do in between (aws_lambda.py 900-953).
THEOREM CleanupStaysFinal == CleanupSpec => []CleanupIsFinal
  BY Invariance, PTL DEF CleanupInv

\* No transaction takes the rules, their support or the candidates of a scope that
\* has a head (aws_lambda.py 900-1017).
THEOREM AuthoritativeRowsSurvive == CleanupSpec => AuthoritativeSurvive
<1>1. CleanupInv /\ [CleanupNext]_cleanupVars =>
        [\A s \in Scopes : heads[s] # {} => rows[s] \cap Audited \subseteq rows'[s]]_cleanupVars
  <2> SUFFICES ASSUME CleanupInv, CleanupNext, NEW s \in Scopes, heads[s] # {}
               PROVE  rows[s] \cap Audited \subseteq rows'[s]
    BY DEF cleanupVars
  <2> USE DEF CleanupInv, CleanupTypeOK
  <2>1. CASE \E t \in Scopes, p \in Producers : Demonstrate(t, p)
    BY <2>1 DEF Demonstrate
  <2>2. CASE \E p \in Producers : Retire(p)
    BY <2>2 DEF Retire
  <2>3. ASSUME NEW w \in Workers, Build(w) PROVE rows[s] \cap Audited \subseteq rows'[s]
    BY <2>3 DEF Build, Audited
  <2>4. ASSUME NEW w \in Workers, Settle(w) PROVE rows[s] \cap Audited \subseteq rows'[s]
    BY <2>4 DEF Settle, Audited
  <2>5. ASSUME NEW t \in Scopes, CleanUp(t) PROVE rows[s] \cap Audited \subseteq rows'[s]
    BY <2>5 DEF CleanUp, DeleteL1, DeleteDerived, L1StaysGone
  <2>6. CASE Sweep
    BY <2>6 DEF Sweep, Orphaned
  <2>7. CASE \/ \E w \in Workers, t \in Scopes : Claim(w, t)
             \/ \E t \in Scopes : Abandon(t)
    BY <2>7 DEF Claim, Abandon
  <2> QED
    BY <2>1, <2>2, <2>3, <2>4, <2>5, <2>6, <2>7 DEF CleanupNext
<1> QED
  BY <1>1, Invariance, PTL DEF CleanupSpec, AuthoritativeSurvive

=============================================================================
