------------------------ MODULE RuntimeSecurityProofs ------------------------
(***************************************************************************)
(* Proofs about RuntimeSecurity for any producers, processes and times.    *)
(***************************************************************************)
EXTENDS RuntimeSecurity, TLAPS

\* A copy of the secret that is not out of date names nobody removed for longer
\* than the copy is old; a request uses a copy that was not out of date when it
\* arrived.
CopiesFresh ==
  /\ \A a \in granted : removed[a] = 0
  /\ \A p \in Processes : \A a \in env[p] :
       /\ secretAge[p] < SecretTTL => removed[a] <= secretAge[p]
       /\ request[p] # NoRequest => removed[a] <= SecretTTL - 1 + request[p].age

WritesInv == TypeOK /\ CopiesFresh /\ WritesEnd

\* Since a reconciliation of p, removed producers can only have written while a copy
\* of the secret still named them.
HeadsFresh ==
  \A p \in Processes : \A a \in Producers : head[a] # NoHead =>
    /\ reconcileAge[p] < ReconcileInterval => removed[a] <= WriteLatency + reconcileAge[p]
    /\ Serving(p, "secured") =>
         removed[a] <= WriteLatency + ReconcileInterval - 1 + request[p].age

LEMMA NumberFacts ==
  /\ WriteLatency \in Nat /\ Latency \in Nat
  /\ WriteLatency = SecretTTL - 1 + Timeout
  /\ Latency = WriteLatency + ReconcileInterval - 1 + Timeout
  /\ SecretTTL \in Nat /\ SecretTTL >= 1
  /\ ReconcileInterval \in Nat /\ ReconcileInterval >= 1
  /\ Timeout \in Nat /\ MaxChanges \in Nat /\ MaxFaults \in Nat
  /\ \A u \in BootUptimes : u \in 0..ReconcileInterval
BY NumbersAssumption DEF WriteLatency, Latency

\* What is known of a request that is being served.
LEMMA RequestFacts ==
  ASSUME TypeOK, NEW p \in Processes, request[p] # NoRequest
  PROVE  /\ request[p] \in Requests /\ request[p].age \in 0..Timeout
         /\ request[p].sender \in Producers \cup {Schedule}
BY DEF TypeOK, Requests

LEMMA TypesStay ==
  ASSUME TypeOK, [Next]_vars
  PROVE  TypeOK'
<1> USE NumberFacts
<1>1. ASSUME NEW p \in Processes, Hydrated(p)
      PROVE  /\ env' \in [Processes -> SUBSET Producers]
             /\ secretAge' \in [Processes -> 0..SecretTTL]
  BY <1>1 DEF Hydrated, TypeOK
<1>2. ASSUME NEW p \in Processes, End(p)
      PROVE  request' \in [Processes -> Requests \cup {NoRequest}]
  BY <1>2 DEF End, TypeOK
<1>3. ASSUME NEW p \in Processes, Probe(p) PROVE TypeOK'
  BY <1>1, <1>3 DEF Probe, TypeOK, secretVars
<1>4. ASSUME NEW p \in Processes, NEW a \in Producers \cup {Schedule}, Arrive(p, a)
      PROVE  TypeOK'
  <2>1. [sender |-> a, phase |-> IF ReconcileDue(p) THEN "due" ELSE "secured", age |-> 0]
          \in Requests
    BY DEF Requests
  <2>2. request' \in [Processes -> Requests \cup {NoRequest}]
    BY <1>4, <2>1 DEF Arrive, TypeOK
  <2> QED
    BY <1>1, <1>4, <2>2 DEF Arrive, TypeOK, secretVars
<1>5. ASSUME NEW p \in Processes, Reconcile(p) PROVE TypeOK'
  <2>1. request[p] \in Requests /\ request[p].age \in 0..Timeout
    BY <1>5, RequestFacts DEF Reconcile, Serving
  <2>2. request' \in [Processes -> Requests \cup {NoRequest}]
    <3>1. [request[p] EXCEPT !.phase = "secured"] \in Requests
      BY <2>1 DEF Requests
    <3> QED
      BY <1>5, <3>1 DEF Reconcile, TypeOK
  <2>3. head' \in [Producers -> {NoHead} \cup 0..(Latency + 1)]
    BY <1>5 DEF Reconcile, Retire, TypeOK
  <2>4. reconcileAge' \in [Processes -> 0..ReconcileInterval]
    BY <1>5, <2>1 DEF Reconcile, TypeOK, UpTo
  <2> QED
    BY <1>5, <2>2, <2>3, <2>4 DEF Reconcile, TypeOK, secretVars
<1>6. ASSUME NEW p \in Processes, Record(p) PROVE TypeOK'
  <2>1. head' \in [Producers -> {NoHead} \cup 0..(Latency + 1)]
    BY <1>6 DEF Record, TypeOK
  <2> QED
    BY <1>2, <1>6, <2>1 DEF Record, TypeOK, secretVars
<1>7. ASSUME NEW p \in Processes, Answer(p) \/ Fail(p) PROVE TypeOK'
  <2>1. faults' \in 0..MaxFaults
    BY <1>7 DEF Answer, Fail, TypeOK
  <2> QED
    BY <1>2, <1>7, <2>1 DEF Answer, Fail, TypeOK, secretVars
<1>8. ASSUME NEW p \in Processes, NEW u \in BootUptimes, Recycle(p, u) PROVE TypeOK'
  BY <1>2, <1>8 DEF Recycle, TypeOK, secretVars
<1>9. ASSUME NEW a \in Producers, ChangeGrants(a) PROVE TypeOK'
  BY <1>9 DEF ChangeGrants, TypeOK, processVars
<1>10. ASSUME Tick PROVE TypeOK'
  <2>1. ASSUME NEW p \in Processes, request[p] # NoRequest
        PROVE  [request[p] EXCEPT !.age = @ + 1] \in Requests
    <3>1. request[p].age + 1 \in 0..Timeout
      BY <1>10, <2>1, RequestFacts DEF Tick
    <3> QED
      BY <2>1, <3>1, RequestFacts DEF Requests
  <2>2. request' \in [Processes -> Requests \cup {NoRequest}]
    BY <1>10, <2>1 DEF Tick
  <2>3. removed' \in [Producers -> 0..(Latency + 1)]
    BY <1>10 DEF Tick, TypeOK, Older, UpTo
  <2>4. /\ secretAge' \in [Processes -> 0..SecretTTL]
        /\ reconcileAge' \in [Processes -> 0..ReconcileInterval]
    BY <1>10 DEF Tick, TypeOK, Older, UpTo
  <2>5. named' \in [Producers -> 0..(WriteLatency + 1)]
    BY <1>10 DEF Tick, TypeOK, Older, UpTo
  <2> QED
    BY <1>10, <2>2, <2>3, <2>4, <2>5 DEF Tick, TypeOK
<1>11. CASE UNCHANGED vars
  BY <1>11 DEF vars, secretVars, processVars, TypeOK
<1> QED
  BY <1>3, <1>4, <1>5, <1>6, <1>7, <1>8, <1>9, <1>10, <1>11 DEF Next

-----------------------------------------------------------------------------
(* Copies of the secret, and who may write *)

LEMMA CopiesStayFresh ==
  ASSUME WritesInv, [Next]_vars
  PROVE  CopiesFresh'
<1> USE NumberFacts DEF WritesInv
<1>0. TypeOK'
  BY TypesStay
<1>1. ASSUME NEW a \in granted PROVE removed[a] = 0 /\ a \in Producers
  BY DEF CopiesFresh, TypeOK
<1>2. ASSUME NEW p \in Processes, NEW q \in Processes, NEW a \in env[q],
             secretVars' = secretVars, env'[q] = env[q], secretAge'[q] = secretAge[q],
             request'[q] \in {request[q], NoRequest}
      PROVE  /\ secretAge'[q] < SecretTTL => removed'[a] <= secretAge'[q]
             /\ request'[q] # NoRequest => removed'[a] <= SecretTTL - 1 + request'[q].age
  BY <1>2 DEF CopiesFresh, secretVars
<1>3. ASSUME NEW p \in Processes, Hydrated(p), secretVars' = secretVars, NEW a \in env'[p]
      PROVE  /\ secretAge'[p] < SecretTTL => removed'[a] <= secretAge'[p]
             /\ removed'[a] <= SecretTTL - 1
             /\ removed'[a] \in Nat
  <2>1. CASE Stale(p)
    <3>1. a \in granted /\ secretAge'[p] = 0 /\ removed'[a] = 0
      BY <1>1, <1>3, <2>1 DEF Hydrated, TypeOK, secretVars
    <3> QED
      BY <3>1
  <2>2. CASE ~ Stale(p)
    <3>1. a \in env[p] /\ secretAge'[p] = secretAge[p] /\ removed' = removed
      BY <1>3, <2>2 DEF Hydrated, secretVars
    <3>2. secretAge[p] \in Nat /\ secretAge[p] < SecretTTL /\ removed[a] \in Nat
      BY <2>2, <3>1 DEF Stale, TypeOK
    <3>3. removed[a] <= secretAge[p]
      BY <3>1, <3>2 DEF CopiesFresh
    <3> QED
      BY <3>1, <3>2, <3>3
  <2> QED
    BY <2>1, <2>2
<1>4. ASSUME NEW p \in Processes, Hydrated(p) PROVE
         \A q \in Processes \ {p} : env'[q] = env[q] /\ secretAge'[q] = secretAge[q]
  BY <1>4 DEF Hydrated, TypeOK
<1>5. ASSUME NEW p \in Processes, Probe(p) PROVE CopiesFresh'
  <2>1. request' = request /\ secretVars' = secretVars /\ request[p] = NoRequest
    BY <1>5 DEF Probe
  <2>2. ASSUME NEW q \in Processes, NEW a \in env'[q]
        PROVE  /\ secretAge'[q] < SecretTTL => removed'[a] <= secretAge'[q]
               /\ request'[q] # NoRequest => removed'[a] <= SecretTTL - 1 + request'[q].age
    <3>1. CASE q = p
      BY <1>3, <1>5, <2>1, <2>2, <3>1 DEF Probe
    <3>2. CASE q # p
      BY <1>2, <1>4, <1>5, <2>1, <2>2, <3>2 DEF Probe
    <3> QED
      BY <3>1, <3>2
  <2> QED
    BY <1>1, <2>1, <2>2 DEF CopiesFresh, secretVars
<1>6. ASSUME NEW p \in Processes, NEW b \in Producers \cup {Schedule}, Arrive(p, b)
      PROVE  CopiesFresh'
  <2>1. /\ secretVars' = secretVars /\ Hydrated(p)
        /\ \A q \in Processes \ {p} : request'[q] = request[q]
        /\ request'[p].age = 0
    BY <1>6 DEF Arrive, TypeOK
  <2>2. ASSUME NEW q \in Processes, NEW a \in env'[q]
        PROVE  /\ secretAge'[q] < SecretTTL => removed'[a] <= secretAge'[q]
               /\ request'[q] # NoRequest => removed'[a] <= SecretTTL - 1 + request'[q].age
    <3>1. CASE q = p
      BY <1>3, <2>1, <2>2, <3>1
    <3>2. CASE q # p
      BY <1>2, <1>4, <2>1, <2>2, <3>2
    <3> QED
      BY <3>1, <3>2
  <2> QED
    BY <1>1, <2>1, <2>2 DEF CopiesFresh, secretVars
<1>7. ASSUME NEW p \in Processes, Reconcile(p) PROVE CopiesFresh'
  <2>1. /\ secretVars' = secretVars /\ env' = env /\ secretAge' = secretAge
        /\ \A q \in Processes \ {p} : request'[q] = request[q]
        /\ request[p] # NoRequest /\ request'[p].age = request[p].age
    BY <1>7, RequestFacts DEF Reconcile, Serving, TypeOK, Requests
  <2>2. ASSUME NEW q \in Processes, NEW a \in env[q]
        PROVE  /\ secretAge'[q] < SecretTTL => removed'[a] <= secretAge'[q]
               /\ request'[q] # NoRequest => removed'[a] <= SecretTTL - 1 + request'[q].age
    BY <2>1, <2>2 DEF CopiesFresh, secretVars
  <2> QED
    BY <1>1, <2>1, <2>2 DEF CopiesFresh, secretVars
<1>8. ASSUME NEW p \in Processes, End(p), secretVars' = secretVars,
             env' = env, secretAge' = secretAge
      PROVE  CopiesFresh'
  BY <1>1, <1>8 DEF CopiesFresh, secretVars, End, TypeOK
<1>9. ASSUME NEW p \in Processes, NEW u \in BootUptimes, Recycle(p, u)
      PROVE  CopiesFresh'
  <2>1. /\ secretVars' = secretVars /\ env'[p] = {}
        /\ \A q \in Processes \ {p} :
             /\ env'[q] = env[q] /\ secretAge'[q] = secretAge[q] /\ request'[q] = request[q]
    BY <1>9 DEF Recycle, End, TypeOK
  <2>2. ASSUME NEW q \in Processes, NEW a \in env'[q]
        PROVE  /\ secretAge'[q] < SecretTTL => removed'[a] <= secretAge'[q]
               /\ request'[q] # NoRequest => removed'[a] <= SecretTTL - 1 + request'[q].age
    <3>1. q # p /\ a \in env[q]
      BY <2>1, <2>2
    <3> QED
      BY <1>2, <2>1, <3>1
  <2> QED
    BY <1>1, <2>1, <2>2 DEF CopiesFresh, secretVars
<1>10. ASSUME NEW b \in Producers, ChangeGrants(b) PROVE CopiesFresh'
  <2>1. env' = env /\ secretAge' = secretAge /\ request' = request
    BY <1>10 DEF ChangeGrants, processVars
  <2>2. removed' \in [Producers -> Int] /\ removed'[b] = 0
        /\ \A a \in Producers \ {b} : removed'[a] = removed[a]
    BY <1>10 DEF ChangeGrants, TypeOK
  <2>3. \A a \in granted' : removed'[a] = 0
    BY <1>1, <1>10, <2>2 DEF ChangeGrants
  <2>4. ASSUME NEW q \in Processes, NEW a \in env[q]
        PROVE  /\ secretAge[q] < SecretTTL => removed'[a] <= secretAge[q]
               /\ request[q] # NoRequest => removed'[a] <= SecretTTL - 1 + request[q].age
    <3>1. a \in Producers /\ secretAge[q] \in Nat
      BY <2>4 DEF TypeOK
    <3>2. CASE a = b
      BY <2>2, <3>1, <3>2, RequestFacts
    <3>3. CASE a # b
      BY <2>2, <2>4, <3>1, <3>3 DEF CopiesFresh
    <3> QED
      BY <3>2, <3>3
  <2> QED
    BY <2>1, <2>3, <2>4 DEF CopiesFresh
<1>11. ASSUME Tick PROVE CopiesFresh'
  <2>1. env' = env /\ granted' = granted
    BY <1>11 DEF Tick
  <2>2. ASSUME NEW a \in Producers
        PROVE  /\ removed[a] \in Nat /\ removed'[a] \in Nat /\ removed'[a] <= removed[a] + 1
               /\ a \in granted => removed'[a] = 0
    BY <1>11 DEF Tick, Older, UpTo, TypeOK
  <2>3. ASSUME NEW q \in Processes, NEW a \in env[q]
        PROVE  /\ secretAge'[q] < SecretTTL => removed'[a] <= secretAge'[q]
               /\ request'[q] # NoRequest => removed'[a] <= SecretTTL - 1 + request'[q].age
    <3>1. a \in Producers
      BY <2>3 DEF TypeOK
    <3>2. secretAge[q] \in Nat /\ secretAge'[q] = UpTo(secretAge[q] + 1, SecretTTL)
      BY <1>11 DEF Tick, Older, TypeOK
    <3>3. secretAge'[q] < SecretTTL => removed'[a] <= secretAge'[q]
      BY <2>2, <2>3, <3>1, <3>2 DEF UpTo, CopiesFresh
    <3>4. ASSUME request'[q] # NoRequest
          PROVE  removed'[a] <= SecretTTL - 1 + request'[q].age
      <4>1. request[q] # NoRequest /\ request'[q] = [request[q] EXCEPT !.age = @ + 1]
        BY <1>11, <3>4 DEF Tick
      <4>2. request'[q].age = request[q].age + 1 /\ request[q].age \in Nat
        BY <4>1, RequestFacts DEF Requests
      <4> QED
        BY <2>2, <2>3, <3>1, <4>1, <4>2 DEF CopiesFresh
    <3> QED
      BY <3>3, <3>4
  <2> QED
    BY <1>1, <2>1, <2>2, <2>3 DEF CopiesFresh
<1>12. CASE UNCHANGED vars
  BY <1>12 DEF vars, secretVars, processVars, CopiesFresh
<1> QED
  BY <1>5, <1>6, <1>7, <1>8, <1>9, <1>10, <1>11, <1>12
  DEF Next, Record, Answer, Fail

LEMMA WritesStayEnded ==
  ASSUME WritesInv, [Next]_vars
  PROVE  WritesEnd'
<1> USE NumberFacts DEF WritesInv
<1>1. ASSUME NEW p \in Processes, Record(p) PROVE WritesEnd'
  <2> DEFINE b == request[p].sender
  <2>1. b \in env[p] /\ b \in Producers /\ request[p] # NoRequest
    BY <1>1 DEF Record, Serving, TypeOK
  <2>2. removed[b] <= WriteLatency
    <3>1. removed[b] <= SecretTTL - 1 + request[p].age /\ request[p].age \in 0..Timeout
      BY <2>1, RequestFacts DEF CopiesFresh
    <3> QED
      BY <2>1, <3>1 DEF TypeOK
  <2>3. head' = [head EXCEPT ![b] = removed[b]]
    BY <1>1 DEF Record
  <2> QED
    BY <2>1, <2>2, <2>3 DEF WritesEnd, TypeOK
<1>2. ASSUME NEW p \in Processes, Reconcile(p) PROVE WritesEnd'
  BY <1>2 DEF Reconcile, Retire, WritesEnd
<1>3. CASE head' = head
  BY <1>3 DEF WritesEnd
<1> QED
  BY <1>1, <1>2, <1>3
  DEF Next, vars, Probe, Arrive, Answer, Fail, Recycle, ChangeGrants, Tick

LEMMA WritesInitially == Init => WritesInv
BY NumberFacts DEF Init, WritesInv, TypeOK, CopiesFresh, WritesEnd

THEOREM WritesInvariance == Spec => []WritesInv
<1>1. WritesInv /\ [Next]_vars => WritesInv'
  BY TypesStay, CopiesStayFresh, WritesStayEnded DEF WritesInv
<1> QED
  BY <1>1, WritesInitially, PTL DEF Spec

\* Every variable keeps to its type, and every age to its range.
THEOREM TypeCorrect == Spec => []TypeOK
BY WritesInvariance, PTL DEF WritesInv

\* A removed producer writes nothing once the copies of the secret are out of date and
\* the requests that used them are over (runtime_secrets.py 42-121).
THEOREM WritesAreBounded == Spec => []WritesEnd
BY WritesInvariance, PTL DEF WritesInv

-----------------------------------------------------------------------------
(* Copies of the secret, and whose heads they cost *)

\* A producer a copy does not name has not been granted for longer than the copy
\* is old.
AbsenceFresh(p, a) ==
  /\ secretAge[p] < SecretTTL => named[a] <= secretAge[p]
  /\ request[p] # NoRequest => named[a] <= SecretTTL - 1 + request[p].age

AbsencesFresh ==
  /\ \A a \in Producers \ granted : named[a] = 0
  /\ \A p \in Processes : \A a \in Producers \ env[p] : AbsenceFresh(p, a)

LEMMA AbsencesStayFresh ==
  ASSUME TypeOK, AbsencesFresh, [Next]_vars
  PROVE  AbsencesFresh'
<1> USE NumberFacts
<1>0. TypeOK'
  BY TypesStay
<1>1. ASSUME NEW q \in Processes, NEW a \in Producers \ env'[q],
             named' = named, env'[q] = env[q], secretAge'[q] = secretAge[q],
             \/ request'[q] \in {request[q], NoRequest}
             \/ request[q] # NoRequest /\ request'[q].age = request[q].age
      PROVE  AbsenceFresh(q, a)'
  BY <1>1 DEF AbsencesFresh, AbsenceFresh
<1>2. ASSUME NEW p \in Processes, Hydrated(p), secretVars' = secretVars,
             request[p] = NoRequest, request'[p] = NoRequest \/ request'[p].age = 0,
             \A q \in Processes \ {p} : request'[q] = request[q]
      PROVE  AbsencesFresh'
  <2>1. named' = named /\ granted' = granted
    BY <1>2 DEF secretVars
  <2>2. ASSUME NEW a \in Producers \ env'[p] PROVE AbsenceFresh(p, a)'
    <3>1. CASE Stale(p)
      <4>1. a \notin granted /\ secretAge'[p] = 0 /\ named'[a] = 0
        BY <1>2, <2>1, <3>1 DEF Hydrated, TypeOK, AbsencesFresh
      <4> QED
        BY <1>2, <4>1 DEF AbsenceFresh
    <3>2. CASE ~ Stale(p)
      <4>1. a \notin env[p] /\ secretAge'[p] = secretAge[p] /\ named' = named
        BY <1>2, <2>1, <3>2 DEF Hydrated
      <4>2. secretAge[p] \in Nat /\ secretAge[p] < SecretTTL /\ named[a] \in Nat
        BY <3>2 DEF Stale, TypeOK
      <4>3. named[a] <= secretAge[p]
        BY <4>1, <4>2 DEF AbsencesFresh, AbsenceFresh
      <4> QED
        BY <1>2, <4>1, <4>2, <4>3 DEF AbsenceFresh
    <3> QED
      BY <3>1, <3>2
  <2>3. ASSUME NEW q \in Processes \ {p}, NEW a \in Producers \ env'[q]
        PROVE  AbsenceFresh(q, a)'
    <3>1. env'[q] = env[q] /\ secretAge'[q] = secretAge[q]
      BY <1>2 DEF Hydrated, TypeOK
    <3> QED
      BY <1>1, <1>2, <2>1, <3>1
  <2> QED
    BY <2>1, <2>2, <2>3 DEF AbsencesFresh
<1>3. ASSUME NEW p \in Processes, Probe(p) PROVE AbsencesFresh'
  BY <1>2, <1>3 DEF Probe
<1>4. ASSUME NEW p \in Processes, NEW b \in Producers \cup {Schedule}, Arrive(p, b)
      PROVE  AbsencesFresh'
  <2>1. request'[p].age = 0 /\ \A q \in Processes \ {p} : request'[q] = request[q]
    BY <1>4 DEF Arrive, TypeOK
  <2> QED
    BY <1>2, <1>4, <2>1 DEF Arrive
<1>5. ASSUME named' = named, granted' = granted, env' = env, secretAge' = secretAge,
             \A q \in Processes : \/ request'[q] \in {request[q], NoRequest}
                                  \/ request[q] # NoRequest /\ request'[q].age = request[q].age
      PROVE  AbsencesFresh'
  BY <1>1, <1>5 DEF AbsencesFresh
<1>6. ASSUME NEW p \in Processes, Reconcile(p) PROVE AbsencesFresh'
  <2>1. \A q \in Processes : \/ request'[q] = request[q]
                             \/ request[q] # NoRequest /\ request'[q].age = request[q].age
    BY <1>6, RequestFacts DEF Reconcile, Serving, TypeOK, Requests
  <2> QED
    BY <1>5, <1>6, <2>1 DEF Reconcile, secretVars
<1>7. ASSUME NEW p \in Processes, Record(p) \/ Answer(p) \/ Fail(p) PROVE AbsencesFresh'
  <2>1. \A q \in Processes : request'[q] \in {request[q], NoRequest}
    BY <1>7 DEF Record, Answer, Fail, End, TypeOK
  <2> QED
    BY <1>5, <1>7, <2>1 DEF Record, Answer, Fail, secretVars
<1>8. ASSUME NEW p \in Processes, NEW u \in BootUptimes, Recycle(p, u)
      PROVE  AbsencesFresh'
  <2>1. /\ named' = named /\ granted' = granted
        /\ secretAge'[p] = SecretTTL /\ request'[p] = NoRequest
        /\ \A q \in Processes \ {p} :
             /\ env'[q] = env[q] /\ secretAge'[q] = secretAge[q] /\ request'[q] = request[q]
    BY <1>8 DEF Recycle, End, TypeOK, secretVars
  <2>2. \A a \in Producers : AbsenceFresh(p, a)'
    BY <2>1 DEF AbsenceFresh
  <2>3. \A q \in Processes \ {p} : \A a \in Producers \ env'[q] : AbsenceFresh(q, a)'
    BY <1>1, <2>1
  <2> QED
    BY <2>1, <2>2, <2>3 DEF AbsencesFresh
<1>9. ASSUME NEW b \in Producers, ChangeGrants(b) PROVE AbsencesFresh'
  <2>1. env' = env /\ secretAge' = secretAge /\ request' = request
    BY <1>9 DEF ChangeGrants, processVars
  <2>2. \A a \in Producers : named'[a] \in {0, named[a]} /\ named[a] \in Nat
    BY <1>9 DEF ChangeGrants, TypeOK
  <2>3. \A a \in Producers \ granted' : named'[a] = 0
    BY <1>9 DEF ChangeGrants, AbsencesFresh, TypeOK
  <2>4. ASSUME NEW q \in Processes, NEW a \in Producers \ env[q]
        PROVE  AbsenceFresh(q, a)'
    <3>1. AbsenceFresh(q, a)
      BY <2>4 DEF AbsencesFresh
    <3>2. secretAge[q] \in Nat /\ (request[q] # NoRequest => request[q].age \in Nat)
      BY RequestFacts DEF TypeOK
    <3> QED
      BY <2>1, <2>2, <3>1, <3>2 DEF AbsenceFresh
  <2> QED
    BY <2>1, <2>3, <2>4 DEF AbsencesFresh
<1>10. ASSUME Tick PROVE AbsencesFresh'
  <2>1. env' = env /\ granted' = granted
    BY <1>10 DEF Tick
  <2>2. ASSUME NEW a \in Producers
        PROVE  /\ named[a] \in Nat /\ named'[a] \in Nat /\ named'[a] <= named[a] + 1
               /\ a \notin granted => named'[a] = 0
    BY <1>10 DEF Tick, Older, UpTo, TypeOK
  <2>3. ASSUME NEW q \in Processes, NEW a \in Producers \ env[q]
        PROVE  AbsenceFresh(q, a)'
    <3>1. AbsenceFresh(q, a)
      BY <2>3 DEF AbsencesFresh
    <3>2. secretAge[q] \in Nat /\ secretAge'[q] = UpTo(secretAge[q] + 1, SecretTTL)
      BY <1>10 DEF Tick, Older, TypeOK
    <3>3. secretAge'[q] < SecretTTL => named'[a] <= secretAge'[q]
      BY <2>2, <3>1, <3>2 DEF UpTo, AbsenceFresh
    <3>4. ASSUME request'[q] # NoRequest
          PROVE  named'[a] <= SecretTTL - 1 + request'[q].age
      <4>1. request[q] # NoRequest /\ request'[q] = [request[q] EXCEPT !.age = @ + 1]
        BY <1>10, <3>4 DEF Tick
      <4>2. request'[q].age = request[q].age + 1 /\ request[q].age \in Nat
        BY <4>1, RequestFacts DEF Requests
      <4> QED
        BY <2>2, <3>1, <4>1, <4>2 DEF AbsenceFresh
    <3> QED
      BY <3>3, <3>4 DEF AbsenceFresh
  <2> QED
    BY <2>1, <2>2, <2>3 DEF AbsencesFresh
<1>11. CASE UNCHANGED vars
  BY <1>5, <1>11 DEF vars, secretVars, processVars
<1> QED
  BY <1>3, <1>4, <1>6, <1>7, <1>8, <1>9, <1>10, <1>11 DEF Next

\* No producer loses its head to an old copy of the secret once it has been granted
\* for as long as such a copy can be in use (aws_lambda.py 339-372).
THEOREM GrantsAreHonoured == Spec => GrantHonoured
<1>1. Init => TypeOK /\ AbsencesFresh
  <2>1. Init => AbsencesFresh
    BY NumberFacts DEF Init, AbsencesFresh, AbsenceFresh
  <2> QED
    BY <2>1, WritesInitially DEF WritesInv
<1>2. TypeOK /\ AbsencesFresh /\ [Next]_vars => TypeOK' /\ AbsencesFresh'
  BY TypesStay, AbsencesStayFresh
<1>3. TypeOK /\ AbsencesFresh /\ [Next]_vars =>
        [\A a \in Producers : head[a] # NoHead /\ head'[a] = NoHead =>
           named[a] <= WriteLatency]_vars
  <2> SUFFICES ASSUME TypeOK, AbsencesFresh, [Next]_vars, NEW a \in Producers,
                      head[a] # NoHead, head'[a] = NoHead
               PROVE  named[a] <= WriteLatency
    OBVIOUS
  <2>1. PICK p \in Processes : Reconcile(p)
    <3>1. ASSUME NEW p \in Processes, Record(p) PROVE head'[a] # NoHead
      <4>1. request[p].sender \in Producers => removed[request[p].sender] # NoHead
        BY NumberFacts, NamesAssumption DEF TypeOK
      <4> QED
        BY <3>1, <4>1 DEF Record, TypeOK
    <3> QED
      BY <3>1 DEF Next, vars, Probe, Arrive, Answer, Fail, Recycle, ChangeGrants, Tick
  <2>2. a \notin env[p] /\ request[p] # NoRequest
    BY <2>1 DEF Reconcile, Retire, Serving
  <2>3. named[a] <= SecretTTL - 1 + request[p].age
    BY <2>2 DEF AbsencesFresh, AbsenceFresh
  <2>4. request[p].age \in 0..Timeout /\ named[a] \in Nat
    BY <2>2, RequestFacts, NumberFacts DEF TypeOK
  <2> QED
    BY <2>3, <2>4, NumberFacts
<1> QED
  BY <1>1, <1>2, <1>3, PTL DEF Spec, GrantHonoured

-----------------------------------------------------------------------------
(* How long a removed producer may be heard *)

LatencyInv == WritesInv /\ HeadsFresh

\* Nothing but a record makes a head.
LEMMA HeadSteps ==
  ASSUME [Next]_vars, NEW a \in Producers, head'[a] # NoHead, TypeOK
  PROVE  \/ head'[a] = head[a]
         \/ \E p \in Processes : Record(p) /\ request[p].sender = a
<1>1. ASSUME NEW p \in Processes, Record(p), request[p].sender # a
      PROVE  head'[a] = head[a]
  BY <1>1 DEF Record, TypeOK
<1>2. ASSUME NEW p \in Processes, Reconcile(p) PROVE head'[a] = head[a]
  BY <1>2 DEF Reconcile, Retire
<1> QED
  BY <1>1, <1>2 DEF Next, vars, Probe, Arrive, Answer, Fail, Recycle, ChangeGrants, Tick

\* A producer that a served request's copy names has not been removed for longer
\* than a removed producer may write.
LEMMA NamedIsRecent ==
  ASSUME WritesInv, NEW p \in Processes, request[p] # NoRequest, NEW a \in env[p]
  PROVE  removed[a] <= SecretTTL - 1 + request[p].age /\ removed[a] <= WriteLatency
<1>1. removed[a] <= SecretTTL - 1 + request[p].age /\ request[p].age \in 0..Timeout
  BY RequestFacts DEF WritesInv, CopiesFresh
<1> QED
  BY <1>1, NumberFacts DEF WritesInv, TypeOK

LEMMA HeadsStayFresh ==
  ASSUME LatencyInv, [Next]_vars, BootUptimes = {ReconcileInterval}
  PROVE  HeadsFresh'
<1> USE NumberFacts DEF LatencyInv
<1> SUFFICES ASSUME NEW q \in Processes, NEW a \in Producers, head'[a] # NoHead
             PROVE  /\ reconcileAge'[q] < ReconcileInterval =>
                         removed'[a] <= WriteLatency + reconcileAge'[q]
                    /\ Serving(q, "secured")' =>
                         removed'[a] <= WriteLatency + ReconcileInterval - 1 + request'[q].age
  BY DEF HeadsFresh
<1>0. TypeOK /\ removed[a] \in Nat /\ reconcileAge[q] \in 0..ReconcileInterval
  BY DEF WritesInv, TypeOK
<1>1. ASSUME NEW p \in Processes, Record(p), request[p].sender = a
      PROVE  /\ reconcileAge'[q] < ReconcileInterval =>
                  removed'[a] <= WriteLatency + reconcileAge'[q]
             /\ Serving(q, "secured")' =>
                  removed'[a] <= WriteLatency + ReconcileInterval - 1 + request'[q].age
  <2>1. removed[a] <= WriteLatency
    BY <1>1, NamedIsRecent DEF Record, Serving
  <2>2. removed' = removed /\ reconcileAge' = reconcileAge
    BY <1>1 DEF Record, secretVars
  <2>3. ASSUME Serving(q, "secured")' PROVE request'[q].age \in Nat
    <3>1. TypeOK'
      BY TypesStay DEF WritesInv
    <3> QED
      BY <2>3, <3>1 DEF Serving, TypeOK, Requests
  <2> QED
    BY <1>0, <2>1, <2>2, <2>3
<1>2. CASE head'[a] = head[a]
  <2>0. head[a] # NoHead
    BY <1>2
  <2>1. ASSUME removed' = removed, reconcileAge'[q] = reconcileAge[q],
               request'[q] \in {request[q], NoRequest}
        PROVE  /\ reconcileAge'[q] < ReconcileInterval =>
                    removed'[a] <= WriteLatency + reconcileAge'[q]
               /\ Serving(q, "secured")' =>
                    removed'[a] <= WriteLatency + ReconcileInterval - 1 + request'[q].age
    BY <2>0, <2>1 DEF HeadsFresh, Serving
  <2>2. ASSUME NEW p \in Processes, Probe(p) \/ Record(p) \/ Answer(p) \/ Fail(p)
        PROVE  /\ removed' = removed /\ reconcileAge'[q] = reconcileAge[q]
               /\ request'[q] \in {request[q], NoRequest}
    BY <1>0, <2>2 DEF Probe, Record, Answer, Fail, End, secretVars, TypeOK
  <2>3. ASSUME NEW p \in Processes, NEW b \in Producers \cup {Schedule}, Arrive(p, b), p = q
        PROVE  /\ reconcileAge'[q] < ReconcileInterval =>
                    removed'[a] <= WriteLatency + reconcileAge'[q]
               /\ Serving(q, "secured")' =>
                    removed'[a] <= WriteLatency + ReconcileInterval - 1 + request'[q].age
    <3>1. /\ removed' = removed /\ reconcileAge' = reconcileAge /\ request'[q].age = 0
          /\ request'[q].phase = "secured" => reconcileAge[q] < ReconcileInterval
      BY <1>0, <2>3 DEF Arrive, ReconcileDue, secretVars, TypeOK
    <3> QED
      BY <1>0, <2>0, <3>1 DEF HeadsFresh, Serving
  <2>4. ASSUME NEW p \in Processes, NEW b \in Producers \cup {Schedule}, Arrive(p, b), p # q
        PROVE  /\ removed' = removed /\ reconcileAge'[q] = reconcileAge[q]
               /\ request'[q] \in {request[q], NoRequest}
    BY <1>0, <2>4 DEF Arrive, secretVars, TypeOK
  <2>5. ASSUME NEW p \in Processes, Reconcile(p), p = q
        PROVE  /\ reconcileAge'[q] < ReconcileInterval =>
                    removed'[a] <= WriteLatency + reconcileAge'[q]
               /\ Serving(q, "secured")' =>
                    removed'[a] <= WriteLatency + ReconcileInterval - 1 + request'[q].age
    <3>1. a \in env[q] /\ request[q] # NoRequest
      BY <2>5 DEF Reconcile, Retire, Serving
    <3>2. removed[a] <= WriteLatency /\ request[q].age \in 0..Timeout
      BY <3>1, NamedIsRecent, RequestFacts, <1>0
    <3>3. /\ removed' = removed /\ request'[q].age = request[q].age
          /\ reconcileAge'[q] = UpTo(request[q].age, ReconcileInterval)
      BY <1>0, <2>5, <3>1, RequestFacts DEF Reconcile, secretVars, TypeOK, Requests
    <3> QED
      BY <1>0, <3>2, <3>3 DEF UpTo
  <2>6. ASSUME NEW p \in Processes, Reconcile(p), p # q
        PROVE  /\ removed' = removed /\ reconcileAge'[q] = reconcileAge[q]
               /\ request'[q] \in {request[q], NoRequest}
    BY <1>0, <2>6 DEF Reconcile, secretVars, TypeOK
  <2>7. ASSUME NEW p \in Processes, NEW u \in BootUptimes, Recycle(p, u), p = q
        PROVE  reconcileAge'[q] = ReconcileInterval /\ request'[q] = NoRequest
    BY <1>0, <2>7 DEF Recycle, End, TypeOK
  <2>8. ASSUME NEW p \in Processes, NEW u \in BootUptimes, Recycle(p, u), p # q
        PROVE  /\ removed' = removed /\ reconcileAge'[q] = reconcileAge[q]
               /\ request'[q] \in {request[q], NoRequest}
    BY <1>0, <2>8 DEF Recycle, End, secretVars, TypeOK
  <2>9. ASSUME NEW b \in Producers, ChangeGrants(b)
        PROVE  /\ reconcileAge'[q] < ReconcileInterval =>
                    removed'[a] <= WriteLatency + reconcileAge'[q]
               /\ Serving(q, "secured")' =>
                    removed'[a] <= WriteLatency + ReconcileInterval - 1 + request'[q].age
    <3>1. /\ removed'[a] \in {0, removed[a]}
          /\ reconcileAge' = reconcileAge /\ request' = request
      BY <1>0, <2>9 DEF ChangeGrants, processVars, TypeOK
    <3>2. request[q] # NoRequest => request[q].age \in Nat
      BY <1>0, RequestFacts
    <3> QED
      BY <1>0, <2>0, <3>1, <3>2 DEF HeadsFresh, Serving
  <2>10. ASSUME Tick
         PROVE  /\ reconcileAge'[q] < ReconcileInterval =>
                     removed'[a] <= WriteLatency + reconcileAge'[q]
                /\ Serving(q, "secured")' =>
                     removed'[a] <= WriteLatency + ReconcileInterval - 1 + request'[q].age
    <3>1. /\ removed'[a] \in Nat /\ removed'[a] <= removed[a] + 1
          /\ reconcileAge'[q] = UpTo(reconcileAge[q] + 1, ReconcileInterval)
      BY <1>0, <2>10 DEF Tick, Older, UpTo, TypeOK
    <3>2. reconcileAge'[q] < ReconcileInterval =>
            removed'[a] <= WriteLatency + reconcileAge'[q]
      BY <1>0, <2>0, <3>1 DEF HeadsFresh, UpTo
    <3>3. ASSUME Serving(q, "secured")'
          PROVE  removed'[a] <= WriteLatency + ReconcileInterval - 1 + request'[q].age
      <4>1. request[q] # NoRequest /\ request'[q] = [request[q] EXCEPT !.age = @ + 1]
        BY <2>10, <3>3 DEF Tick, Serving
      <4>2. /\ request'[q].age = request[q].age + 1 /\ request[q].age \in Nat
            /\ request[q].phase = "secured"
        BY <1>0, <3>3, <4>1, RequestFacts DEF Requests, Serving
      <4>3. removed[a] <= WriteLatency + ReconcileInterval - 1 + request[q].age
        BY <2>0, <4>1, <4>2 DEF HeadsFresh, Serving
      <4> QED
        BY <1>0, <3>1, <4>2, <4>3
    <3> QED
      BY <3>2, <3>3
  <2>11. CASE UNCHANGED vars
    BY <2>1, <2>11 DEF vars, secretVars, processVars
  <2>12. ASSUME NEW p \in Processes, NEW u \in BootUptimes, Recycle(p, u), p = q
         PROVE  /\ reconcileAge'[q] < ReconcileInterval =>
                     removed'[a] <= WriteLatency + reconcileAge'[q]
                /\ Serving(q, "secured")' =>
                     removed'[a] <= WriteLatency + ReconcileInterval - 1 + request'[q].age
    BY <2>7, <2>12 DEF Serving
  <2> QED
    BY <2>1, <2>2, <2>3, <2>4, <2>5, <2>6, <2>8, <2>9, <2>10, <2>11, <2>12 DEF Next
<1> QED
  BY <1>0, <1>1, <1>2, HeadSteps

LEMMA LatencyInitially ==
  ASSUME BootUptimes = {ReconcileInterval}, Init
  PROVE  LatencyInv
BY WritesInitially, NumberFacts DEF Init, LatencyInv, HeadsFresh, Serving

LEMMA FreshHeadsAreRecent ==
  ASSUME LatencyInv
  PROVE  LatencyBounded
<1> SUFFICES ASSUME NEW p \in Processes, Serving(p, "secured"),
                    NEW a \in Producers, head[a] # NoHead
             PROVE  removed[a] <= Latency
  BY DEF LatencyBounded
<1>1. removed[a] <= WriteLatency + ReconcileInterval - 1 + request[p].age
  BY DEF LatencyInv, HeadsFresh
<1>2. request[p].age \in 0..Timeout /\ removed[a] \in Nat
  BY RequestFacts, NumberFacts DEF LatencyInv, WritesInv, TypeOK, Serving
<1> QED
  BY <1>1, <1>2, NumberFacts

\* When time.monotonic() starts no lower than SECURITY_RECONCILE_SECONDS, no process
\* reads a head whose producer was removed longer than Latency ago
\* (aws_lambda.py 339-372, cockroach.py 494-586).
THEOREM RevocationIsBounded ==
  ASSUME BootUptimes = {ReconcileInterval}
  PROVE  Spec => []LatencyBounded
<1>1. Init => LatencyInv
  BY LatencyInitially
<1>2. LatencyInv /\ [Next]_vars => LatencyInv'
  BY HeadsStayFresh, TypesStay, CopiesStayFresh, WritesStayEnded DEF LatencyInv, WritesInv
<1>3. LatencyInv => LatencyBounded
  BY FreshHeadsAreRecent
<1> QED
  BY <1>1, <1>2, <1>3, PTL DEF Spec

=============================================================================
