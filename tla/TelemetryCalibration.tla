------------------------ MODULE TelemetryCalibration ------------------------
(***************************************************************************)
(* The evaluator of memory thresholds: what calibrate_from_telemetry_rows  *)
(* and its sampling audit conclude from one window of telemetry            *)
(* (src/decisionvault/memory_telemetry.py).  A set of rows stands for the  *)
(* list the evaluator is given.  Ratios are compared with percentages by   *)
(* cross-multiplication, and a division by an empty count is what the code *)
(* returns for it.                                                         *)
(***************************************************************************)
EXTENDS Integers, FiniteSets, FiniteSetsExt

CONSTANTS
  Profiles,     \* the stricter threshold profiles, numbered in the order of their names
  Policy        \* the thresholds of the evaluator, a record of naturals

ASSUME PolicyAssumption ==
  /\ Profiles \subseteq Nat \ {0}
  /\ Policy.coverage \in 0..100
  /\ Policy.harm \in 0..100

\* A business outcome is known; a "weak" one is neither a qualified success nor harmful.
Labelled(r) == r.verdict \in {"success", "weak", "harmful"}
Exposed(S) == {r \in S : r.exposed}
Observed(S) == {r \in Exposed(S) : Labelled(r)}

AtLeast(part, whole, percent) == 100 * part >= percent * whole
AtMost(part, whole, percent) == 100 * part <= percent * whole

Values(S, field) == {r[field] : r \in S}
Count(S, field, v) == Cardinality({r \in S : r[field] = v})
Distance(a, b) == IF a < b THEN b - a ELSE a - b

\* The total variation distance of a field between two samples; 100 % when one
\* of them is empty.
VariationWithin(L, R, field, percent) ==
  IF L = {} \/ R = {} THEN percent >= 100
  ELSE 50 * MapThenSumSet(
              LAMBDA v : Distance(Count(L, field, v) * Cardinality(R),
                                  Count(R, field, v) * Cardinality(L)),
              Values(L \cup R, field))
         <= percent * Cardinality(L) * Cardinality(R)

-----------------------------------------------------------------------------
\* The sampling audit.

\* Mutant: counts the exposed rows that have an outcome as the whole.
CoverageOfLabels(S) ==
  /\ Observed(S) # {}
  /\ AtLeast(Cardinality(Observed(S)), Cardinality(Observed(S)), Policy.coverage)

LabelCoverage(S) ==
  /\ Exposed(S) # {}
  /\ AtLeast(Cardinality(Observed(S)), Cardinality(Exposed(S)), Policy.coverage)

LabelDistribution(S) ==
  \A field \in {"scope", "strategy"} :
    VariationWithin(Exposed(S), Observed(S), field, Policy.labelVariation)

\* Enough values of a field, none of them dominant, each with enough samples.
Balanced(O, field) ==
  /\ O # {}
  /\ Cardinality(Values(O, field)) >= Policy.levels
  /\ \A v \in Values(O, field) :
       /\ AtMost(Count(O, field, v), Cardinality(O), Policy.dominance)
       /\ Count(O, field, v) >= Policy.stratum

UnknownAge == -1

\* Memory is up to a week, a month, three months or six months old, or older.
MemoryBucket(days) ==
  IF days < 0 THEN UnknownAge ELSE Cardinality({limit \in {7, 30, 90, 180} : days > limit})

EvidenceSpan(O) == \E r, q \in O : r.age - q.age >= Policy.span

MemoryAgeCoverage(O) ==
  /\ UnknownAge \notin Values(O, "memory")
  /\ Cardinality(Values(O, "memory")) >= Policy.buckets
  /\ Cardinality({r \in O : r.memory >= MemoryBucket(31)}) >= Policy.aged

Stable(O) ==
  LET recent == {r \in O : r.age <= Policy.recent}
      older == O \ recent
  IN /\ Cardinality(recent) >= Policy.segment
     /\ Cardinality(older) >= Policy.segment
     /\ \A field \in {"scope", "strategy"} :
          VariationWithin(recent, older, field, Policy.drift)

SamplingGate(S) ==
  /\ LabelCoverage(S)
  /\ LabelDistribution(S)
  /\ Balanced(Observed(S), "scope")
  /\ Balanced(Observed(S), "strategy")
  /\ EvidenceSpan(Observed(S))
  /\ MemoryAgeCoverage(Observed(S))
  /\ Stable(Observed(S))

-----------------------------------------------------------------------------
\* The challengers.

\* What a profile's policy answered to what the champion's policy was given: a
\* strategy, or "abstain". A row written before the profile existed has no answer.
Reply(strategy, answer) ==
  CASE answer = "absent" -> "absent"
    [] answer = "abstain" -> "silent"
    [] answer = strategy -> "same"
    [] OTHER -> "other"

Seen(S, p) == {r \in S : r.shadow[p] # "absent"}
Kept(S, p) == {r \in S : r.shadow[p] = "same"}
Having(S, verdict) == Cardinality({r \in S : r.verdict = verdict})

Suppressed(S, p, verdict) == Having(Seen(S, p) \ Kept(S, p), verdict)

Retains(S, p) == AtLeast(Having(Kept(S, p), "success"), Having(S, "success"), Policy.retention)
Harmless(S, p) == AtMost(Having(Kept(S, p), "harmful"), Cardinality(Kept(S, p)), Policy.harm)

Strata(S) ==
  UNION {{{r \in S : r[field] = v} : v \in Values(S, field)} :
           field \in {"scope", "strategy", "memory"}}

\* Inside a stratum only the rows that know the profile are counted.
StrataSafe(S, p) ==
  \A G \in Strata(Seen(S, p)) : Retains(G, p) /\ Harmless(G, p)

Eligible(S, p) ==
  LET O == Observed(S) IN
  /\ Cardinality(O) >= Policy.samples
  /\ SamplingGate(S)
  /\ \A r \in O : r.shadow[p] # "other"
  /\ Retains(O, p)
  /\ Harmless(O, p)
  /\ StrataSafe(O, p)
  /\ Suppressed(O, p, "harmful") > 0

\* Most harm suppressed, then most successes retained, then fewest successes
\* suppressed, then the first name.
Preferred(O, p, q) ==
  LET harm(x) == Suppressed(O, x, "harmful")
      kept(x) == Having(Kept(O, x), "success")
      lost(x) == Suppressed(O, x, "success")
  IN \/ harm(p) > harm(q)
     \/ harm(p) = harm(q) /\ kept(p) > kept(q)
     \/ harm(p) = harm(q) /\ kept(p) = kept(q) /\ lost(p) < lost(q)
     \/ harm(p) = harm(q) /\ kept(p) = kept(q) /\ lost(p) = lost(q) /\ p <= q

NoProfile == 0

\* The profile recommended for the next review, as a set of one.
Recommended(S) ==
  LET candidates == {p \in Profiles : Eligible(S, p)} IN
  IF candidates = {} THEN {NoProfile}
  ELSE {p \in candidates : \A q \in candidates : Preferred(Observed(S), p, q)}

=============================================================================
