---------------------------- MODULE MemoryQuality ----------------------------
(***************************************************************************)
(* Telemetry of memory quality: the rows that /decide and /record append   *)
(* on a best-effort basis, and the scheduled event that, at most once per  *)
(* interval, purges what is past its retention and appends a calibration   *)
(* run (src/decisionvault/memory_telemetry.py, aws_lambda.py).             *)
(*                                                                         *)
(* A scheduled invocation works through four connections: is a run due,    *)
(* purge, load and evaluate, insert.  Others run between any two of them,  *)
(* and the invocation may die after any of them.                           *)
(***************************************************************************)
EXTENDS TelemetryCalibration

CONSTANTS
  Snapshots,   \* signed decision snapshots: the keys of both raw tables
  Features,    \* what a snapshot's decision row and receipt say, but for the time,
               \* with the answers of the profiles
  Invocations, \* invocations the scheduler may have running
  Lookback,    \* window of the evaluator
  Raw,         \* retention of raw rows
  Aggregate,   \* retention of calibration runs
  Interval,    \* least time between scheduled runs
  ReceiptLife, \* time from a decision to the last fresh receipt of it
  Timeout,     \* longest invocation
  NoRun,
  MaxFaults    \* bound: writes that fail and invocations that die

ASSUME RetentionAssumption ==
  /\ {Lookback, Raw, Aggregate, Interval, ReceiptLife, Timeout, MaxFaults} \subseteq Nat
  /\ Lookback < Raw
  /\ Raw < Aggregate
  /\ Interval > 0

ASSUME SnapshotsAssumption == IsFiniteSet(Snapshots)

ASSUME NoRunAssumption ==
  NoRun \notin [age : Nat, kind : {"scheduled", "explicit"}, advice : Profiles \cup {NoProfile}]

VARIABLES
  age,         \* snapshot -> time since it was issued, Undecided before
  recorded,    \* snapshots whose receipt is an episode of the memory
  decisions,   \* decision_memory_quality_decisions
  outcomes,    \* decision_memory_quality_outcomes
  newest,      \* the newest of decision_memory_quality_calibration_runs
  invocation,  \* invocation -> what a scheduled event is at
  faults

vars == <<age, recorded, decisions, outcomes, newest, invocation, faults>>

Undecided == -1
\* Nothing distinguishes times beyond the longest retention.
Horizon == Aggregate + 1
Older(t) == IF t \in 0..(Horizon - 1) THEN t + 1 ELSE t

Kinds == {"scheduled", "explicit"}
Runs == [age : 0..Horizon, kind : Kinds, advice : Profiles \cup {NoProfile}]
Tasks == [phase : {"idle", "purge", "evaluate", "insert"}, kind : Kinds,
          elapsed : 0..Timeout, advice : Profiles \cup {NoProfile}]
Idle == [phase |-> "idle", kind |-> "scheduled", elapsed |-> 0, advice |-> NoProfile]

TypeOK ==
  /\ age \in [Snapshots -> Undecided..Horizon]
  /\ recorded \subseteq Snapshots
  /\ decisions \subseteq Snapshots
  /\ outcomes \subseteq Snapshots
  /\ newest \in Runs \cup {NoRun}
  /\ invocation \in [Invocations -> Tasks]
  /\ faults \in 0..MaxFaults

Init ==
  /\ age = [s \in Snapshots |-> Undecided]
  /\ recorded = {} /\ decisions = {} /\ outcomes = {}
  /\ newest = NoRun
  /\ invocation = [w \in Invocations |-> Idle]
  /\ faults = 0

-----------------------------------------------------------------------------
\* The requests that append telemetry.  A failed insert is swallowed.

Fail == faults < MaxFaults /\ faults' = faults + 1
Appended(stored) == IF stored THEN UNCHANGED faults ELSE Fail

\* /decide signs a snapshot and appends its decision row.
Decide(s) ==
  /\ age[s] = Undecided
  /\ age' = [age EXCEPT ![s] = 0]
  /\ \E stored \in BOOLEAN :
       /\ decisions' = IF stored THEN decisions \cup {s} ELSE decisions
       /\ Appended(stored)
  /\ UNCHANGED <<recorded, outcomes, newest, invocation>>

\* /record saves the episode of a fresh receipt and appends its outcome row.
Record(s) ==
  /\ age[s] \in 0..ReceiptLife
  /\ s \notin recorded
  /\ recorded' = recorded \cup {s}
  /\ \E stored \in BOOLEAN :
       /\ outcomes' = IF stored THEN outcomes \cup {s} ELSE outcomes
       /\ Appended(stored)
  /\ UNCHANGED <<age, decisions, newest, invocation>>

\* /record of a receipt already recorded, however old: the outcome row is
\* appended again, unless its snapshot has one.
Replay(s) ==
  /\ s \in recorded
  /\ outcomes' = outcomes \cup {s}
  /\ UNCHANGED <<age, recorded, decisions, newest, invocation, faults>>

-----------------------------------------------------------------------------
\* The scheduled event.

Move(w, phase) ==
  invocation' = [invocation EXCEPT ![w].phase = phase]

\* Mutant: the throttle never opens again.
DueOnce == newest = NoRun

Due == newest # NoRun => newest.age >= Interval

\* The event finds that a run is due.
Start(w) ==
  /\ invocation[w].phase = "idle"
  /\ Due
  /\ Move(w, "purge")
  /\ UNCHANGED <<age, recorded, decisions, outcomes, newest, faults>>

Called == [phase |-> "evaluate", kind |-> "explicit", elapsed |-> 0, advice |-> NoProfile]

\* The task memory-quality-calibration neither asks whether one is due nor purges,
\* and nothing limits how often it is invoked.
StartExplicit(w) ==
  /\ invocation[w].phase = "idle"
  /\ invocation' = [invocation EXCEPT ![w] = Called]
  /\ UNCHANGED <<age, recorded, decisions, outcomes, newest, faults>>

Expired == {s \in decisions : age[s] > Raw}

\* Mutant: the decision rows go first, and the outcome rows no longer find them.
PurgeDecisionsFirst ==
  /\ outcomes' = outcomes
  /\ decisions' = decisions \ Expired

\* Outcome rows go by the time of their decision row, before it is deleted.
PurgeRows ==
  /\ outcomes' = outcomes \ Expired
  /\ decisions' = decisions \ Expired

\* Mutant: a failed retention does not stop the run.
PurgeOrGoOn(w) ==
  /\ invocation[w].phase = "purge"
  /\ PurgeRows \/ UNCHANGED <<outcomes, decisions>>
  /\ Move(w, "evaluate")
  /\ UNCHANGED <<age, recorded, newest, faults>>

Purge(w) ==
  /\ invocation[w].phase = "purge"
  /\ PurgeRows
  /\ newest' = IF newest # NoRun /\ newest.age > Aggregate THEN NoRun ELSE newest
  /\ Move(w, "evaluate")
  /\ UNCHANGED <<age, recorded, faults>>

\* A row joins a decision with the outcome stored for it, if there is one.
Row(s, labels) ==
  [id |-> s, age |-> age[s],
   scope |-> Features[s].scope, strategy |-> Features[s].strategy,
   exposed |-> Features[s].exposed, memory |-> MemoryBucket(Features[s].memoryAge),
   shadow |-> [p \in Profiles |-> Reply(Features[s].strategy, Features[s].answers[p])],
   verdict |-> IF s \in labels THEN Features[s].verdict ELSE "none"]

Window(labels) == {Row(s, labels) : s \in {x \in decisions : age[x] <= Lookback}}

Evaluate(w) ==
  /\ invocation[w].phase = "evaluate"
  /\ \E p \in Recommended(Window(outcomes)) :
       invocation' = [invocation EXCEPT ![w].phase = "insert", ![w].advice = p]
  /\ UNCHANGED <<age, recorded, decisions, outcomes, newest, faults>>

Insert(w) ==
  /\ invocation[w].phase = "insert"
  /\ newest' = [age |-> 0, kind |-> invocation[w].kind, advice |-> invocation[w].advice]
  /\ invocation' = [invocation EXCEPT ![w] = Idle]
  /\ UNCHANGED <<age, recorded, decisions, outcomes, faults>>

\* A connection fails or the invocation dies; what it committed stays.
Abort(w) ==
  /\ invocation[w].phase # "idle"
  /\ Fail
  /\ invocation' = [invocation EXCEPT ![w] = Idle]
  /\ UNCHANGED <<age, recorded, decisions, outcomes, newest>>

Busy(w) == invocation[w].phase # "idle"

Tick ==
  /\ \A w \in Invocations : Busy(w) => invocation[w].elapsed < Timeout
  /\ age' = [s \in Snapshots |-> Older(age[s])]
  /\ newest' = IF newest = NoRun THEN NoRun ELSE [newest EXCEPT !.age = Older(@)]
  /\ invocation' = [w \in Invocations |->
                      IF Busy(w) THEN [invocation[w] EXCEPT !.elapsed = @ + 1]
                                 ELSE invocation[w]]
  /\ UNCHANGED <<recorded, decisions, outcomes, faults>>

Work(w) == Start(w) \/ Purge(w) \/ Evaluate(w) \/ Insert(w)

Next ==
  \/ \E s \in Snapshots : Decide(s) \/ Record(s) \/ Replay(s)
  \/ \E w \in Invocations : Work(w) \/ StartExplicit(w) \/ Abort(w)
  \/ Tick

Spec == Init /\ [][Next]_vars

\* Time passes, the rule fires every few minutes, and an invocation that has
\* started goes on until it ends or dies.
Fairness == WF_vars(Tick) /\ \A w \in Invocations : WF_vars(Work(w))

FairSpec == Spec /\ Fairness

-----------------------------------------------------------------------------
\* aws_lambda.py:640-651: retention runs before the run that advances the
\* throttle.  So once a scheduled run is the newest, no decision row is older
\* than the retention plus the age of that run and the time of one invocation.
RetentionRidesThrottle ==
  newest # NoRun /\ newest.kind = "scheduled" =>
    \A s \in decisions : age[s] <= Raw + newest.age + Timeout

\* memory_telemetry.py:1124-1146: whatever deletes telemetry deletes an expired
\* decision row together with its outcome row, and nothing the evaluator's
\* window still covers.
PurgeIsClean ==
  [][\A s \in Snapshots :
       /\ s \in decisions \ decisions' =>
            age[s] > Raw /\ age[s] > Lookback /\ s \notin outcomes'
       /\ s \in outcomes \ outcomes' => s \in decisions \ decisions']_vars

\* The throttle is closed by a run nobody scheduled.
WithheldExplicitly == newest # NoRun /\ newest.kind = "explicit" /\ ~ Due

\* docs/evidence/MEMORY_TELEMETRY_RETENTION_BIAS_V3.md:33-35: a failure of the
\* retention is retried by the schedule, so an expired decision row is deleted
\* in the end, whatever overlaps or fails on the way.  Only explicit calibrations
\* can keep it for good, and only if their runs close the throttle again and again.
EventuallyPurged ==
  \A s \in Snapshots :
    (s \in decisions /\ age[s] > Raw) ~> (s \notin decisions \/ WithheldExplicitly)

\* memory_telemetry.py:517-520 and 610: lost outcome rows cannot hide more harm than
\* the label gate tolerates.  Counted by what the memory recorded, the harm a
\* recommended profile would have kept is within the limit on harm plus the
\* share of decisions that may go unlabelled.
LossIsBounded ==
  [][\A w \in Invocations :
       LET p == invocation'[w].advice
           known == Observed(Window(outcomes))
       IN invocation[w].phase = "evaluate" /\ p \in Profiles =>
            100 * Having(Kept(Observed(Window(recorded)), p), "harmful")
              <= Policy.harm * Cardinality(Kept(known, p))
                 + (100 - Policy.coverage) * Cardinality(Exposed(Window(outcomes)))]_vars

\* docs/evidence/MEMORY_TELEMETRY_RETENTION_BIAS_V3.md:15 bounds raw outcome
\* rows like the decision rows, and line 31 says none is orphaned.
OutcomesAreBounded ==
  newest # NoRun /\ newest.kind = "scheduled" =>
    \A s \in outcomes : age[s] <= Raw + newest.age + Timeout

=============================================================================
