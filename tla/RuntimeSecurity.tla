--------------------------- MODULE RuntimeSecurity ---------------------------
(***************************************************************************)
(* How a change of the agent grants reaches the warm processes and the     *)
(* memory.                                                                 *)
(*                                                                         *)
(* Every process keeps its own copy of the secret and refreshes it when it *)
(* is older than SECRET_REFRESH_SECONDS, at the start of a request.  It    *)
(* also deletes the heads of producers its copy does not name, when it has *)
(* not done so for SECURITY_RECONCILE_SECONDS.  Several processes run at   *)
(* once, each with its own copy and its own clock of the last              *)
(* reconciliation; a process serves one request at a time.                 *)
(*                                                                         *)
(* Times are ages, counted up to the value from which they make no         *)
(* difference.                                                             *)
(***************************************************************************)
EXTENDS Integers, FiniteSets

CONSTANTS
  Producers,          \* agents whose grants come and go
  Schedule,           \* the scheduled event, which no agent sends
  Processes,          \* warm Lambda processes
  NoRequest, NoHead,
  SecretTTL,          \* SECRET_REFRESH_SECONDS
  ReconcileInterval,  \* SECURITY_RECONCILE_SECONDS
  Timeout,            \* the Lambda's time limit
  BootUptimes,        \* what time.monotonic() may show when a process starts
  MaxChanges,         \* bound on the changes of the secret
  MaxFaults           \* bound on failures and process ends

ASSUME NumbersAssumption ==
  /\ SecretTTL \in Nat \ {0} /\ ReconcileInterval \in Nat \ {0}
  /\ Timeout \in Nat /\ MaxChanges \in Nat /\ MaxFaults \in Nat
  /\ BootUptimes # {} /\ BootUptimes \subseteq 0..ReconcileInterval

\* How long after its removal a producer may still write, and still be heard: a
\* request starts with a copy of the secret at most SecretTTL - 1 old, and with a
\* reconciliation at most ReconcileInterval - 1 old.
WriteLatency == SecretTTL - 1 + Timeout
Latency == WriteLatency + ReconcileInterval - 1 + Timeout

Requests ==
  [sender : Producers \cup {Schedule}, phase : {"due", "secured"}, age : 0..Timeout]

ASSUME NamesAssumption ==
  Schedule \notin Producers /\ NoRequest \notin Requests /\ NoHead \notin Nat

VARIABLES
  granted,       \* the producers the secret in Secrets Manager names
  removed,       \* per producer: time since it was last named, up to Latency + 1
  named,         \* per producer: for how long it has been named, up to
                 \* WriteLatency + 1
  env,           \* per process: the producers of AGENT_AUTH_JSON
  secretAge,     \* per process: time since _SECRET_CACHE_AT
  reconcileAge,  \* per process: time since _SECURITY_RECONCILE_AT
  request,       \* per process: the request it serves
  head,          \* per producer: NoHead, or how long it had been removed when it
                 \* recorded the head
  changes, faults

processVars == <<env, secretAge, reconcileAge, request>>
secretVars == <<granted, removed, named, changes>>
vars == <<secretVars, processVars, head, faults>>

UpTo(age, cap) == IF age < cap THEN age ELSE cap
Older(age, cap) == UpTo(age + 1, cap)

-----------------------------------------------------------------------------

Init ==
  /\ granted \in SUBSET Producers
  /\ removed = [a \in Producers |-> IF a \in granted THEN 0 ELSE Latency + 1]
  /\ named = [a \in Producers |-> IF a \in granted THEN WriteLatency + 1 ELSE 0]
  /\ env = [p \in Processes |-> {}]
  /\ secretAge = [p \in Processes |-> SecretTTL]
  /\ reconcileAge \in [Processes -> BootUptimes]
  /\ request = [p \in Processes |-> NoRequest]
  /\ head \in [Producers -> {NoHead, 0}]
  /\ \A a \in Producers : head[a] = 0 => a \in granted
  /\ changes = 0 /\ faults = 0

End(p) == request' = [request EXCEPT ![p] = NoRequest]

Serving(p, phase) == request[p] # NoRequest /\ request[p].phase = phase

-----------------------------------------------------------------------------
(* _refresh_runtime_security_state *)

Stale(p) == secretAge[p] >= SecretTTL

\* Mutant: os.environ.setdefault keeps the value the process has.
HydratedByDefault(p) ==
  IF Stale(p)
    THEN /\ env' = IF env[p] = {} THEN [env EXCEPT ![p] = granted] ELSE env
         /\ secretAge' = [secretAge EXCEPT ![p] = 0]
    ELSE UNCHANGED <<env, secretAge>>

\* _load_runtime_secrets_locked, and every value of it into the environment.
Hydrated(p) ==
  IF Stale(p)
    THEN /\ env' = [env EXCEPT ![p] = granted]
         /\ secretAge' = [secretAge EXCEPT ![p] = 0]
    ELSE UNCHANGED <<env, secretAge>>

\* GET /health/ready refreshes the secret and reconciles nothing.
Probe(p) ==
  /\ request[p] = NoRequest
  /\ Stale(p) /\ Hydrated(p)
  /\ UNCHANGED <<secretVars, reconcileAge, request, head, faults>>

ReconcileDue(p) == reconcileAge[p] >= ReconcileInterval

\* A POST or the scheduled event arrives; the clock of the reconciliation is read
\* right after the secret is hydrated.
Arrive(p, a) ==
  /\ request[p] = NoRequest
  /\ Hydrated(p)
  /\ request' = [request EXCEPT ![p] =
       [sender |-> a, phase |-> IF ReconcileDue(p) THEN "due" ELSE "secured", age |-> 0]]
  /\ UNCHANGED <<secretVars, reconcileAge, head, faults>>

\* retire_untrusted_heads, in one transaction.
Retire(p) == head' = [a \in Producers |-> IF a \in env[p] THEN head[a] ELSE NoHead]

\* The clock is set to the time read at the arrival.
Reconcile(p) ==
  /\ Serving(p, "due")
  /\ Retire(p)
  /\ reconcileAge' = [reconcileAge EXCEPT ![p] =
       UpTo(request[p].age, ReconcileInterval)]
  /\ request' = [request EXCEPT ![p].phase = "secured"]
  /\ UNCHANGED <<secretVars, env, secretAge, faults>>

-----------------------------------------------------------------------------
(* The request itself *)

\* authenticate_agent, and the commit of the agent's outcome.
Record(p) ==
  /\ Serving(p, "secured")
  /\ request[p].sender \in env[p]
  /\ head' = [head EXCEPT ![request[p].sender] = removed[request[p].sender]]
  /\ End(p)
  /\ UNCHANGED <<secretVars, env, secretAge, reconcileAge, faults>>

\* A decision, a replay, a refusal or the end of the scheduled event.
Answer(p) ==
  /\ Serving(p, "secured")
  /\ End(p)
  /\ UNCHANGED <<secretVars, env, secretAge, reconcileAge, head, faults>>

\* Mutant: a reconciliation that failed counts as done.
FailCounted(p) ==
  /\ faults < MaxFaults /\ faults' = faults + 1
  /\ request[p] # NoRequest
  /\ reconcileAge' = IF Serving(p, "due") THEN [reconcileAge EXCEPT ![p] = 0]
                                        ELSE reconcileAge
  /\ End(p)
  /\ UNCHANGED <<secretVars, env, secretAge, head>>

\* Secrets Manager or the database fails: the caller gets a 500.
Fail(p) ==
  /\ faults < MaxFaults /\ faults' = faults + 1
  /\ request[p] # NoRequest
  /\ End(p)
  /\ UNCHANGED <<secretVars, env, secretAge, reconcileAge, head>>

\* Mutant: a cold process takes its environment for one it has just loaded.
RecycleHydrated(p, u) ==
  /\ faults < MaxFaults /\ faults' = faults + 1
  /\ env' = [env EXCEPT ![p] = {}]
  /\ secretAge' = [secretAge EXCEPT ![p] = 0]
  /\ reconcileAge' = [reconcileAge EXCEPT ![p] = u]
  /\ End(p)
  /\ UNCHANGED <<secretVars, head>>

\* A process ends and a cold one takes its place: nothing is cached, and
\* _SECURITY_RECONCILE_AT = 0.0 is the time the host started.
Recycle(p, u) ==
  /\ faults < MaxFaults /\ faults' = faults + 1
  /\ env' = [env EXCEPT ![p] = {}]
  /\ secretAge' = [secretAge EXCEPT ![p] = SecretTTL]
  /\ reconcileAge' = [reconcileAge EXCEPT ![p] = u]
  /\ End(p)
  /\ UNCHANGED <<secretVars, head>>

-----------------------------------------------------------------------------
(* Environment *)

\* The operator publishes another secret.
ChangeGrants(a) ==
  /\ changes < MaxChanges /\ changes' = changes + 1
  /\ granted' = IF a \in granted THEN granted \ {a} ELSE granted \cup {a}
  /\ removed' = [removed EXCEPT ![a] = 0]
  /\ named' = [named EXCEPT ![a] = 0]
  /\ UNCHANGED <<processVars, head, faults>>

\* A second passes; a request at its time limit has to end first.
Tick ==
  /\ \A p \in Processes : request[p] # NoRequest => request[p].age < Timeout
  /\ removed' = [a \in Producers |->
       IF a \in granted THEN 0 ELSE Older(removed[a], Latency + 1)]
  /\ named' = [a \in Producers |->
       IF a \in granted THEN Older(named[a], WriteLatency + 1) ELSE 0]
  /\ secretAge' = [p \in Processes |-> Older(secretAge[p], SecretTTL)]
  /\ reconcileAge' = [p \in Processes |-> Older(reconcileAge[p], ReconcileInterval)]
  /\ request' = [p \in Processes |->
       IF request[p] = NoRequest THEN NoRequest ELSE [request[p] EXCEPT !.age = @ + 1]]
  /\ UNCHANGED <<granted, changes, env, head, faults>>

Next ==
  \/ \E p \in Processes : Probe(p)
  \/ \E p \in Processes, a \in Producers \cup {Schedule} : Arrive(p, a)
  \/ \E p \in Processes : Reconcile(p)
  \/ \E p \in Processes : Record(p)
  \/ \E p \in Processes : Answer(p)
  \/ \E p \in Processes : Fail(p)
  \/ \E p \in Processes, u \in BootUptimes : Recycle(p, u)
  \/ \E a \in Producers : ChangeGrants(a)
  \/ Tick

Spec == Init /\ [][Next]_vars

\* The scheduled event keeps reaching some process, requests are served, and time
\* passes; the agents' requests, probes, changes, failures and recycling owe nothing.
Fairness ==
  /\ SF_vars(Tick)
  /\ SF_vars(\E p \in Processes : Arrive(p, Schedule))
  /\ \A p \in Processes : WF_vars(Reconcile(p)) /\ WF_vars(Answer(p))

FairSpec == Spec /\ Fairness

-----------------------------------------------------------------------------
(* Correctness *)

TypeOK ==
  /\ granted \subseteq Producers
  /\ removed \in [Producers -> 0..(Latency + 1)]
  /\ named \in [Producers -> 0..(WriteLatency + 1)]
  /\ env \in [Processes -> SUBSET Producers]
  /\ secretAge \in [Processes -> 0..SecretTTL]
  /\ reconcileAge \in [Processes -> 0..ReconcileInterval]
  /\ request \in [Processes -> Requests \cup {NoRequest}]
  /\ head \in [Producers -> {NoHead} \cup 0..(Latency + 1)]
  /\ changes \in 0..MaxChanges /\ faults \in 0..MaxFaults

\* docs/AWS_LAMBDA_DEPLOY.md:39-40: a removed producer writes no memory any more once
\* every copy of the secret that names it is out of date and its requests are over.
WritesEnd == \A a \in Producers : head[a] # NoHead => head[a] <= WriteLatency

\* docs/evidence/SECRETS_MANAGER_RUNTIME.md:86-92: the heads of a removed producer are
\* gone, from every process that gets to read the memory, within a bounded time.
LatencyBounded ==
  \A p \in Processes : Serving(p, "secured") =>
    \A a \in Producers : head[a] # NoHead => removed[a] <= Latency

\* aws_lambda.py:353: a process may reconcile with a copy of the secret that is out of
\* date. It costs no producer its head that the secret has named for as long as such a
\* copy can be in use, however processes, removals and grants interleave.
GrantHonoured ==
  [][\A a \in Producers : head[a] # NoHead /\ head'[a] = NoHead =>
       named[a] <= WriteLatency]_vars

\* The heads of a producer that stays removed are gone for good some day, whoever
\* goes on sending requests.
EventuallyRetired ==
  \A a \in Producers : <>[](a \notin granted) => <>[](head[a] = NoHead)

=============================================================================
