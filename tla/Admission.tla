------------------------------ MODULE Admission ------------------------------
(***************************************************************************)
(* Admission counters shared by all processes: a row per principal, route  *)
(* group and minute, counted up in one transaction with the clean-up of    *)
(* old rows (src/decisionvault/rate_limit.py).                             *)
(*                                                                         *)
(* The minute is read once, before the transaction and its retries, by the *)
(* clock of the process: a charge may commit in a later minute than the    *)
(* one it is for, while others have moved on and delete old rows.          *)
(***************************************************************************)
EXTENDS Integers, FiniteSets

CONSTANTS
  Principals,  \* pairs of a principal and a route group
  Callers,     \* requests in flight
  Limit,       \* requests a principal may make in a minute; not positive: no limit
  MaxLag,      \* bound on transit: minutes from reading the clock to the commit
  MaxMinute,   \* bound: minutes
  NoCall

\* A charge outlives neither the time limit of a Lambda nor the minutes a row is kept.
ASSUME AdmissionAssumption ==
  /\ Limit \in [Principals -> Int]
  /\ MaxLag \in 0..2
  /\ MaxMinute \in Nat

VARIABLES
  minute,    \* the clock
  counters,  \* decision_rate_limits: rows [principal, bucket, count]
  call,      \* caller -> the charge it has in flight
  admitted   \* history: admissions charged to a principal in a bucket

admissionVars == <<minute, counters, call, admitted>>

Buckets == 0..MaxMinute
Counters == [principal : Principals, bucket : Buckets, count : Nat]
Charges == [principal : Principals, bucket : Buckets]

AdmissionTypeOK ==
  /\ minute \in Buckets
  /\ counters \subseteq Counters
  /\ call \in [Callers -> Charges \cup {NoCall}]
  /\ admitted \in [Principals -> [Buckets -> Nat]]

AdmissionInit ==
  /\ minute = 0
  /\ counters = {}
  /\ call = [c \in Callers |-> NoCall]
  /\ admitted = [k \in Principals |-> [b \in Buckets |-> 0]]

Limited(k) == Limit[k] > 0

\* A request is admitted at once where there is no limit; otherwise it reads the
\* minute it will be charged to.
Arrive(c, k) ==
  /\ call[c] = NoCall
  /\ Limited(k)
  /\ call' = [call EXCEPT ![c] = [principal |-> k, bucket |-> minute]]
  /\ UNCHANGED <<minute, counters, admitted>>

Current(k, b) == {x \in counters : x.principal = k /\ x.bucket = b}

\* Mutant: every earlier minute is outdated.
OutdatedAtOnce(k, b) == {x \in counters : x.principal = k /\ x.bucket < b}

Outdated(k, b) == {x \in counters : x.principal = k /\ x.bucket < b - 2}

\* The upsert's RETURNING: one more than the row says, or one.
NextCount(k, b) ==
  IF Current(k, b) = {} THEN 1 ELSE (CHOOSE x \in Current(k, b) : TRUE).count + 1

Charge(k, b, n) ==
  counters' = (counters \ (Outdated(k, b) \cup Current(k, b)))
                \cup {[principal |-> k, bucket |-> b, count |-> n]}

\* The transaction commits.  The reply to the commit may be lost, and the request
\* then fails although it was counted.
Commit(c) ==
  LET k == call[c].principal
      b == call[c].bucket
      n == NextCount(k, b)
  IN /\ call[c] # NoCall
     /\ Charge(k, b, n)
     /\ \/ n <= Limit[k] /\ admitted' = [admitted EXCEPT ![k][b] = @ + 1]
        \/ UNCHANGED admitted
     /\ call' = [call EXCEPT ![c] = NoCall]
     /\ UNCHANGED minute

\* The transaction fails for good, after up to five attempts.
GiveUp(c) ==
  /\ call[c] # NoCall
  /\ call' = [call EXCEPT ![c] = NoCall]
  /\ UNCHANGED <<minute, counters, admitted>>

Minute ==
  /\ minute < MaxMinute
  /\ \A c \in Callers : call[c] # NoCall => minute < call[c].bucket + MaxLag
  /\ minute' = minute + 1
  /\ UNCHANGED <<counters, call, admitted>>

AdmissionNext ==
  \/ \E c \in Callers : (\E k \in Principals : Arrive(c, k)) \/ Commit(c) \/ GiveUp(c)
  \/ Minute

AdmissionSpec == AdmissionInit /\ [][AdmissionNext]_admissionVars

-----------------------------------------------------------------------------
\* rate_limit.py:49-73: however charges and clean-ups of different minutes
\* interleave, no principal is admitted more often than its limit in the minute
\* it is charged for.
AdmittedWithinLimit ==
  \A k \in Principals, b \in Buckets : Limited(k) => admitted[k][b] <= Limit[k]

=============================================================================
