---------------------------- MODULE MCHousekeeping ----------------------------
(***************************************************************************)
(* Four environments in one run: the retention of telemetry, the evaluator *)
(* of a full window, the admission counters, and the deletion and sweep of *)
(* scopes.  They share nothing, and a behaviour stays in the one it starts *)
(* in.                                                                     *)
(***************************************************************************)
EXTENDS MemoryQuality, Admission, ScopeCleanup

CONSTANTS s1, s2, s3, s4, w1, w2, agent, demo

Decision(scope, strategy, days, verdict, answers) ==
  [scope |-> scope, strategy |-> strategy, exposed |-> TRUE, memoryAge |-> days,
   verdict |-> verdict, answers |-> answers]

\* Where the champion failed, the first profile would have abstained once, the
\* second twice, and once it would have taken another strategy.
SampleFeatures ==
  [s \in Snapshots |->
     CASE s = s1 -> Decision("TEAM", "refresh", 3, "success", <<"refresh", "refresh">>)
       [] s = s2 -> Decision("PRIVATE", "generic", 40, "harmful", <<"abstain", "abstain">>)
       [] s = s3 -> Decision("TEAM", "refresh", 40, "harmful", <<"refresh", "abstain">>)
       [] s = s4 -> Decision("PRIVATE", "generic", 3, "harmful", <<"generic", "refresh">>)]

SmallPolicy ==
  [samples |-> 2, coverage |-> 66, labelVariation |-> 30, levels |-> 2,
   dominance |-> 70, stratum |-> 1, span |-> 1, recent |-> 0, segment |-> 1,
   drift |-> 100, buckets |-> 2, aged |-> 1, retention |-> 95, harm |-> 20]

SmallLimits == [k \in Principals |-> IF k = agent THEN 2 ELSE 0]

Environments == {"retention", "evaluation", "admission", "cleanup"}

VARIABLE environment

HousekeepingInit ==
  environment \in Environments /\ Init /\ AdmissionInit /\ CleanupInit

\* Bounds: one snapshot where time goes on; where the evaluator runs, one window
\* and one invocation; one charge more than a limit admits.
Retained ==
  /\ environment = "retention"
  /\ \A s \in Snapshots : s # s1 => age'[s] = Undecided
Evaluated ==
  /\ environment = "evaluation"
  /\ \A s \in Snapshots : age'[s] <= Lookback
  /\ invocation'[w2] = Idle
  /\ invocation'[w1] # Idle => \A s \in Snapshots : age'[s] # Undecided
  /\ newest' = NoRun /\ invocation'[w1].kind = "scheduled"
Admitted ==
  /\ environment = "admission"
  /\ \A x \in counters' : x.count <= Limit[x.principal] + 1

HousekeepingNext ==
  /\ UNCHANGED environment
  /\ \/ Next /\ (Retained \/ Evaluated) /\ UNCHANGED <<admissionVars, cleanupVars>>
     \/ AdmissionNext /\ Admitted /\ UNCHANGED <<vars, cleanupVars>>
     \/ environment = "cleanup" /\ CleanupNext /\ UNCHANGED <<vars, admissionVars>>

allVars == <<environment, vars, admissionVars, cleanupVars>>

\* The fairness of FairSpec and FairCleanupSpec, asked only in their environments.
HousekeepingSpec ==
  /\ HousekeepingInit /\ [][HousekeepingNext]_allVars
  /\ WF_vars(environment = "retention" /\ Tick)
  /\ \A w \in Invocations : WF_vars(environment = "retention" /\ Work(w))
  /\ WF_cleanupVars(environment = "cleanup" /\ Sweep)

=============================================================================
