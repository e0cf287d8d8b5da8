---------------------------- MODULE GovernedDecision ----------------------------
(***************************************************************************)
(* POST /decide: what the deterministic policy commits to, given the       *)
(* governed memory of a scope at the moment it is read.                    *)
(*                                                                         *)
(* One read transaction returns the episodes (the nearest heads of an      *)
(* approximate search, merged with an exact coverage of every head that    *)
(* may count) and the promoted rules; two resolvers and the policy then    *)
(* work on what was read, so deciding is one step.  The memory evolves     *)
(* exactly as GovernedMemory says.                                         *)
(*                                                                         *)
(* The request is fixed: Relevant are the receipts whose situation is      *)
(* similar enough to it, and the numbers below are its similarities, times *)
(* confidence and trust.  Numbers are integers in one common unit.         *)
(***************************************************************************)
EXTENDS GovernedMemory

CONSTANTS
  Relevant,        \* receipts within minimum_similarity of the request
  Signal,          \* [Receipts -> Nat]: weight of a vote before its recency
  Strength,        \* [Rules -> number of producers -> age -> Nat]: effective
                   \*   confidence of a rule, times similarity; 0 where the rule is
                   \*   too weak, too dissimilar or not applicable
  Intervention,    \* [Rules -> Strategies]
  GenericRetry, RefreshToken,    \* GENERIC_RETRY, REFRESH_PAYMENT_TOKEN
  NoStrategy,      \* the strategy of an abstention
  MinimumSignal, ConflictMargin,
  AdaptiveMargin,  \* conflict_margin of GovernedAdaptiveMemoryResolver
  EvidenceAge,     \* max_age_days of the episodic resolver, in ticks
  AnnLimit,        \* PRODUCTION_ANN_LIMIT
  NoDecision

ASSUME DecisionAssumption ==
  /\ Relevant \subseteq Receipts /\ Signal \in [Receipts -> Nat]
  /\ Strength \in [Rules -> [0..Cardinality(Producers) -> [0..MaxTime -> Nat]]]
  /\ \A r \in Receipts : r.rule \in Rules => Intervention[r.rule] = r.strategy
  /\ Intervention \in [Rules -> Strategies]
  /\ GenericRetry \in Strategies /\ RefreshToken \in Strategies \ {GenericRetry}
  /\ NoStrategy \notin Strategies
  /\ MinimumSignal \in Nat /\ AnnLimit \in Nat
  /\ ConflictMargin \in Nat \ {0} /\ AdaptiveMargin \in Nat \ {0}
  /\ EvidenceAge \in Nat \ {0}

VARIABLE decision    \* the last answer, until the memory or the clock moves

decisionVars == <<vars, decision>>

-----------------------------------------------------------------------------
(* Recall: one read of the heads and the rules of a scope, in one space *)

InSpace(sc, sp) == {h \in HeadsOf(sc) : space[h] = sp}

AgeOf(t) == IF t <= now THEN now - t ELSE 0
Fresh(r) == AgeOf(r.observed) <= EvidenceAge

\* Mutant: the exact query forgets the failures.
CoverageOfSuccesses(sc, sp) ==
  {h \in InSpace(sc, sp) : h \in Relevant /\ Fresh(h) /\ h.verdict = "success"}

\* semantic_coverage_sql: every head that may count, without a limit.
Coverage(sc, sp) ==
  {h \in InSpace(sc, sp) : h \in Relevant /\ Fresh(h) /\ h.verdict # "neutral"}

\* What semantic_ann_sql may return: some of the heads, relevant or not.
Neighbours(sc, sp) ==
  {near \in SUBSET InSpace(sc, sp) : Cardinality(near) <= AnnLimit}

-----------------------------------------------------------------------------
(* ConflictAwareMemoryResolver *)

Ballot(r) == <<r.producer, r.strategy>>

\* Mutant: an old episode keeps its vote.
ActiveOfAnyAge(recalled) ==
  LET relevant == {r \in Relevant : r \in recalled}
      standing == {r \in relevant : \A q \in relevant : supersedes[q] # r}
  IN {r \in standing : \A q \in standing : Ballot(q) = Ballot(r) => q.observed <= r.observed}

\* _active_memories: relevant, not superseded by what was recalled, fresh, and
\* the newest of its producer for its strategy.
Active(recalled) ==
  LET relevant == {r \in Relevant : r \in recalled}
      standing == {r \in relevant : Fresh(r) /\ \A q \in relevant : supersedes[q] # r}
  IN {r \in standing : \A q \in standing : Ballot(q) = Ballot(r) => q.observed <= r.observed}

\* _base_weight: recency falls linearly to a quarter.  Every weight, and every
\* threshold it is compared with, is multiplied by 4 * EvidenceAge.
Recency(r) == Max({EvidenceAge, 4 * (EvidenceAge - AgeOf(r.observed))})
Scaled(x) == x * 4 * EvidenceAge
Weight(rs) == MapThenSumSet(LAMBDA r : Signal[r] * Recency(r), rs)

\* The votes among the active episodes.
Votes(act, k, v) == {r \in act : r.strategy = k /\ r.verdict = v}

Support(act, k) == Weight(Votes(act, k, "success"))
Opposition(act, k) == Weight(Votes(act, k, "failure"))
Net(act, k) == Support(act, k) - Opposition(act, k)

Backed(act) ==
  {k \in Strategies : Support(act, k) >= Scaled(MinimumSignal)
                       /\ Net(act, k) >= Scaled(ConflictMargin)}

\* A refuted generic retry speaks for a fresh payment token.
Refuted(act) ==
  /\ Opposition(act, GenericRetry) >= Scaled(MinimumSignal)
  /\ - Net(act, GenericRetry) >= Scaled(ConflictMargin)

\* recommendations: the scores of the strategies the votes speak for.
Recommendations(act) ==
  LET backed == Backed(act)
      refuted == IF Refuted(act) THEN {RefreshToken} ELSE {}
  IN [k \in backed \cup refuted |->
        (IF k \in backed THEN Net(act, k) ELSE 0)
          - (IF k \in refuted THEN Net(act, GenericRetry) ELSE 0)]

\* The strategy that beats every other one by the margin, if any.
Ahead(score, margin) ==
  {k \in DOMAIN score : \A j \in DOMAIN score \ {k} : score[k] - score[j] >= margin}

\* Mutant: a disagreement counts only while no side has won.
ContradictoryIfOpen(act) ==
  \E k \in Strategies \ Backed(act) :
    Votes(act, k, "success") # {} /\ Votes(act, k, "failure") # {}

\* Producers disagree on a strategy, whatever their weights.
Contradictory(act) ==
  \E k \in Strategies : Votes(act, k, "success") # {} /\ Votes(act, k, "failure") # {}

\* The evidence a winner is owed to.
Sources(act, k) ==
  (IF k \in Backed(act) THEN Votes(act, k, "success") ELSE {})
    \cup (IF k = RefreshToken /\ Refuted(act) THEN Votes(act, GenericRetry, "failure") ELSE {})

\* MemoryGovernanceResult; leaders holds the selected strategy, if there is one.
Resolve(recalled) ==
  LET act == Active(recalled)
      score == Recommendations(act)
      leaders == Ahead(score, Scaled(ConflictMargin))
      contradictory == Contradictory(act)
  IN [leaders |-> leaders,
      abstain |-> leaders = {} /\ (DOMAIN score # {} \/ contradictory),
      conflict |-> contradictory \/ \E j, k \in DOMAIN score : j # k,
      episodes |-> IF leaders = {} THEN act
                   ELSE {r \in act : \E k \in leaders : r \in Sources(act, k)}]

-----------------------------------------------------------------------------
(* GovernedAdaptiveMemoryResolver *)

Power(m) ==
  Strength[m.rule][Cardinality(ProducersOf(Aligned(m)))][AgeOf(ObservedTo(m))]

\* adaptive_semantic_coverage_sql and the resolver's own admission.
Applicable(sc, sp) ==
  {m \in active :
     /\ m.scope = sc /\ m.space = sp
     /\ ~ ExpiredBy(m, now)
     /\ m.support \subseteq InSpace(sc, sp)
     /\ Power(m) > 0}

Negative(sc, sp) == {m \in Applicable(sc, sp) : m.polarity = "AVOID"}
Vetoed(sc, sp) == {Intervention[m.rule] : m \in Negative(sc, sp)}

Endorsing(sc, sp, k) ==
  {m \in Applicable(sc, sp) \ Negative(sc, sp) :
     Intervention[m.rule] = k /\ k \notin Vetoed(sc, sp)}

Endorsed(sc, sp) == {k \in Strategies : Endorsing(sc, sp, k) # {}}

\* AdaptiveMemoryResolution; learned holds the selected strategy, if there is one.
ResolveRules(sc, sp) ==
  LET endorsed == Endorsed(sc, sp)
      merit == [k \in endorsed |-> MapThenSumSet(Power, Endorsing(sc, sp, k))]
      learned == Ahead(merit, AdaptiveMargin)
      named == IF learned = {} THEN endorsed ELSE learned
  IN [learned |-> learned,
      conflict |-> endorsed # {} /\ learned = {},
      vetoed |-> Vetoed(sc, sp),
      memories |-> IF endorsed = {} THEN Negative(sc, sp)
                   ELSE {m \in Applicable(sc, sp) : \E k \in named : m \in Endorsing(sc, sp, k)}]

-----------------------------------------------------------------------------
(* OutcomeAwarePolicy *)

\* Mutant: the vetoes do not reach the episodic layer.
Unvetoed(resolution, adaptive) == resolution.leaders

\* The episodic recommendation that survives the vetoes, if any.
Chosen(resolution, adaptive) == resolution.leaders \ adaptive.vetoed

\* An answer; conflict is memory_conflict, traced is governance_trace.conflict.
Answer(k, influenced, conflict, traced, episodes, memories) ==
  [strategy |-> k, influenced |-> influenced, conflict |-> conflict,
   traced |-> traced, episodes |-> episodes, memories |-> memories]

Policy(sc, sp, recalled) ==
  LET resolution == Resolve(recalled)
      adaptive == ResolveRules(sc, sp)
      chosen == Chosen(resolution, adaptive)
      learned == adaptive.learned
      open == resolution.conflict \/ adaptive.conflict
      influence == IF learned # {} THEN learned ELSE chosen
      abstain(conflict, traced) ==
        Answer(NoStrategy, FALSE, conflict, traced, resolution.episodes, adaptive.memories)
  IN IF resolution.abstain \/ adaptive.conflict THEN abstain(TRUE, open)
     ELSE IF \E k \in learned, j \in chosen : j # k THEN abstain(TRUE, TRUE)
     ELSE IF influence # {}
       THEN Answer(CHOOSE k \in influence : TRUE, TRUE, FALSE, open,
                   IF chosen # {} THEN resolution.episodes ELSE {},
                   IF learned # {} THEN adaptive.memories ELSE {})
     ELSE IF GenericRetry \in adaptive.vetoed THEN abstain(FALSE, open)
     ELSE Answer(GenericRetry, FALSE, resolution.conflict, open,
                 resolution.episodes, adaptive.memories)

\* /decide, or the decision /execute makes anew.
Decide(sc, sp) ==
  /\ \E near \in Neighbours(sc, sp) :
       decision' = [scope |-> sc, space |-> sp,
                    answer |-> Policy(sc, sp, near \cup Coverage(sc, sp))]
  /\ UNCHANGED vars

-----------------------------------------------------------------------------

DecisionInit == Init /\ decision = NoDecision

\* A step of the memory, after which an answer is only history.
Evolve == Next /\ decision' = NoDecision

DecisionNext == Evolve \/ \E sc \in Scopes, sp \in Spaces : Decide(sc, sp)

DecisionSpec == DecisionInit /\ [][DecisionNext]_decisionVars

-----------------------------------------------------------------------------
(* Correctness: what holds of an answer in the state it is given in *)

Agrees(a, exact) ==
  /\ a.strategy = exact.strategy /\ a.influenced = exact.influenced
  /\ a.conflict = exact.conflict /\ a.traced = exact.traced
  /\ a.memories = exact.memories
  /\ a.influenced => a.episodes = exact.episodes

\* docs/evidence/MULTI_AGENT_MEMORY_GOVERNANCE.md:33-39: the approximate search
\* is a hint.  Whatever it returned, the answer is the one the exact coverage
\* alone leads to, and it cites the same evidence when memory influenced it.
CoverageDecides ==
  [][decision' # NoDecision =>
       LET sc == decision'.scope
           sp == decision'.space
       IN Agrees(decision'.answer, Policy(sc, sp, Coverage(sc, sp)))]_decisionVars

\* An episode as the store holds it now: current, never withdrawn, not replaced,
\* and the newest its producer has recorded for its strategy.
Stands(e) ==
  /\ e \in heads \ revocations
  /\ \A r \in Recorded : supersedes[r] # e /\ (Key(r) = Key(e) => r.observed <= e.observed)

\* What an answer cites stands at that moment, and so does all that the rules it
\* cites rest on: revoked, superseded, overtaken or stale evidence speaks in
\* neither layer.
EvidenceStands ==
  [][decision' # NoDecision =>
       /\ \A e \in decision'.answer.episodes : Stands(e) /\ e \in Relevant /\ Fresh(e)
       /\ \A m \in decision'.answer.memories :
            m \in active /\ ~ ExpiredBy(m, now) /\ \A e \in m.support : Stands(e)]_decisionVars

\* README.md:110: negative memory is a veto.  No layer, and not the default
\* either, makes a strategy executable that an applicable AVOID rule forbids.
VetoHolds ==
  [][decision' # NoDecision =>
       decision'.answer.strategy \notin Vetoed(decision'.scope, decision'.space)]_decisionVars

\* Heads that count for this request and report opposite outcomes of a strategy.
Disagreement(sc, sp) ==
  \E g, h \in Coverage(sc, sp) :
    g.strategy = h.strategy /\ g.verdict = "success" /\ h.verdict = "failure"

\* src/decisionvault/agent/memory_governance.py:108-110: a qualified contradiction
\* stays visible in the governance trace, whoever wins the vote.
DisagreementTraced ==
  [][decision' # NoDecision /\ Disagreement(decision'.scope, decision'.space) =>
       decision'.answer.traced]_decisionVars

=============================================================================
