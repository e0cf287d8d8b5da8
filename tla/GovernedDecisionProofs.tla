------------------------ MODULE GovernedDecisionProofs ------------------------
(***************************************************************************)
(* Proofs about GovernedDecision.  The memory evolves as in GovernedMemory *)
(* (MemoryEvolves), so its invariants hold; they make the bookkeeping of   *)
(* the resolver idle on heads (ActiveHeads), so only the votes of the      *)
(* exact coverage count (SameVotes), which is what the theorems rest on.   *)
(***************************************************************************)
EXTENDS GovernedDecision, GovernedMemoryProofs

\* Every behaviour of the decisions is one of the memory.
LEMMA MemoryEvolves == DecisionSpec => Spec
<1>1. DecisionInit => Init
  BY DEF DecisionInit
<1>2. [DecisionNext]_decisionVars => [Next]_vars
  BY DEF DecisionNext, Evolve, Decide, decisionVars
<1> QED
  BY <1>1, <1>2, PTL DEF DecisionSpec, Spec

\* What is recalled are current heads of one scope.
LEMMA RecalledAreHeads ==
  ASSUME NEW sc \in Scopes, NEW sp \in Spaces, NEW near \in Neighbours(sc, sp)
  PROVE  /\ near \cup Coverage(sc, sp) \subseteq HeadsOf(sc)
         /\ Coverage(sc, sp) \subseteq HeadsOf(sc)
  BY DEF Neighbours, Coverage, InSpace

\* Among heads of one scope nothing is superseded and no producer votes twice for
\* a strategy: relevance and age alone decide.
LEMMA ActiveHeads ==
  ASSUME HeadInv, NEW sc \in Scopes, NEW recalled \in SUBSET HeadsOf(sc)
  PROVE  Active(recalled) = {r \in Relevant : r \in recalled /\ Fresh(r)}
<1> DEFINE relevant == {r \in Relevant : r \in recalled}
           standing == {r \in relevant : Fresh(r) /\ \A q \in relevant : supersedes[q] # r}
<1>1. relevant \subseteq Receipts /\ relevant \subseteq heads /\ \A r \in relevant : r.scope = sc
  BY DecisionAssumption DEF HeadsOf
<1>2. \A q, r \in relevant : supersedes[q] # r
  BY <1>1 DEF HeadInv, WithdrawnIsHistory
<1>3. standing = {r \in relevant : Fresh(r)}
  BY <1>2
<1>4. ASSUME NEW r \in relevant, NEW q \in relevant, Ballot(q) = Ballot(r)
      PROVE  q = r
  <2>1. Key(q) = Key(r)
    BY <1>1, <1>4 DEF Ballot, Key
  <2>2. q \in Recorded
    BY <1>1 DEF HeadInv, HeadsRecorded
  <2> QED
    BY <1>1, <2>1, <2>2 DEF HeadInv, HeadIsWatermark
<1>5. \A r \in relevant : r.observed \in Nat
  BY <1>1, ReceiptsAssumption
<1>6. \A r, q \in standing : Ballot(q) = Ballot(r) => q.observed <= r.observed
  BY <1>3, <1>4, <1>5
<1>7. Active(recalled) = standing
  BY <1>6 DEF Active
<1> QED
  BY <1>3, <1>7

\* The votes are those of the exact coverage, whatever the search added.
LEMMA SameVotes ==
  ASSUME HeadInv, NEW sc \in Scopes, NEW sp \in Spaces, NEW near \in Neighbours(sc, sp),
         NEW k, NEW v \in {"success", "failure"}
  PROVE  Votes(Active(near \cup Coverage(sc, sp)), k, v) = Votes(Active(Coverage(sc, sp)), k, v)
<1> DEFINE cover == Coverage(sc, sp)
           all == near \cup cover
<1>1. Active(all) = {r \in Relevant : r \in all /\ Fresh(r)}
  BY RecalledAreHeads, ActiveHeads
<1>2. Active(cover) = {r \in Relevant : r \in cover /\ Fresh(r)}
  BY RecalledAreHeads, ActiveHeads
<1>3. ASSUME NEW r \in near, r \in Relevant, Fresh(r), r.verdict = v
      PROVE  r \in cover
  BY <1>3 DEF Neighbours, Coverage
<1> QED
  BY <1>1, <1>2, <1>3 DEF Votes

\* What the resolver makes of the votes, apart from the evidence of an
\* abstention, is the same too.
LEMMA SameResolution ==
  ASSUME HeadInv, NEW sc \in Scopes, NEW sp \in Spaces, NEW near \in Neighbours(sc, sp)
  PROVE  LET told == Resolve(near \cup Coverage(sc, sp))
             exact == Resolve(Coverage(sc, sp))
         IN /\ told.leaders = exact.leaders /\ told.abstain = exact.abstain
            /\ told.conflict = exact.conflict
            /\ told.leaders # {} => told.episodes = exact.episodes
<1> DEFINE act == Active(near \cup Coverage(sc, sp))
           cover == Active(Coverage(sc, sp))
<1>1. \A k : Votes(act, k, "success") = Votes(cover, k, "success")
  BY SameVotes
<1>2. \A k : Votes(act, k, "failure") = Votes(cover, k, "failure")
  BY SameVotes
<1> HIDE DEF act, cover
<1>3. \A k : Support(act, k) = Support(cover, k) /\ Opposition(act, k) = Opposition(cover, k)
  BY <1>1, <1>2 DEF Support, Opposition
<1>4. \A k : Net(act, k) = Net(cover, k)
  BY <1>3 DEF Net
<1>5. Backed(act) = Backed(cover)
  BY <1>3, <1>4 DEF Backed
<1>6. Refuted(act) = Refuted(cover)
  BY <1>3, <1>4 DEF Refuted
<1>7. Recommendations(act) = Recommendations(cover)
  BY <1>4, <1>5, <1>6 DEF Recommendations
<1>8. Contradictory(act) = Contradictory(cover)
  BY <1>1, <1>2 DEF Contradictory
<1>9. \A k : Sources(act, k) = Sources(cover, k) /\ Sources(act, k) \subseteq act \cap cover
  <2>1. \A k, v : Votes(act, k, v) \subseteq act /\ Votes(cover, k, v) \subseteq cover
    BY DEF Votes
  <2> QED
    BY <1>1, <1>2, <1>5, <1>6, <2>1 DEF Sources
<1> DEFINE told == Resolve(near \cup Coverage(sc, sp))
           exact == Resolve(Coverage(sc, sp))
           leaders == Ahead(Recommendations(cover), Scaled(ConflictMargin))
<1>10. told.leaders = leaders /\ exact.leaders = leaders
  BY <1>7 DEF Resolve, act, cover
<1>11. told.abstain = exact.abstain
  BY <1>7, <1>8 DEF Resolve, act, cover
<1>12. told.conflict = exact.conflict
  BY <1>7, <1>8 DEF Resolve, act, cover
<1>13. ASSUME leaders # {}
       PROVE  told.episodes = exact.episodes
  <2>1. told.episodes = {r \in act : \E k \in leaders : r \in Sources(act, k)}
    BY <1>7, <1>13 DEF Resolve, act, cover
  <2>2. exact.episodes = {r \in cover : \E k \in leaders : r \in Sources(cover, k)}
    BY <1>13 DEF Resolve, act, cover
  <2> HIDE DEF told, exact, leaders
  <2>3. {r \in act : \E k \in leaders : r \in Sources(act, k)}
           = {r \in cover : \E k \in leaders : r \in Sources(cover, k)}
    BY <1>9
  <2> QED
    BY <2>1, <2>2, <2>3
<1> HIDE DEF leaders
<1>14. told.leaders = exact.leaders /\ (told.leaders # {} => told.episodes = exact.episodes)
  BY <1>10, <1>13
<1> QED
  BY <1>11, <1>12, <1>14

-----------------------------------------------------------------------------

\* A step that answers takes the answer from the policy.
LEMMA AnswerStep ==
  ASSUME DecisionNext, decision' # NoDecision
  PROVE  \E sc \in Scopes, sp \in Spaces : \E near \in Neighbours(sc, sp) :
           decision' = [scope |-> sc, space |-> sp,
                        answer |-> Policy(sc, sp, near \cup Coverage(sc, sp))]
  BY DEF DecisionNext, Evolve, Decide

\* The approximate search changes neither the answer nor the evidence of an
\* influenced one (docs/evidence/MULTI_AGENT_MEMORY_GOVERNANCE.md:33-39).
LEMMA PolicyIgnoresSearch ==
  ASSUME HeadInv, NEW sc \in Scopes, NEW sp \in Spaces, NEW near \in Neighbours(sc, sp)
  PROVE  Agrees(Policy(sc, sp, near \cup Coverage(sc, sp)), Policy(sc, sp, Coverage(sc, sp)))
<1> DEFINE told == Resolve(near \cup Coverage(sc, sp))
           exact == Resolve(Coverage(sc, sp))
           adaptive == ResolveRules(sc, sp)
<1>1. /\ told.leaders = exact.leaders /\ told.abstain = exact.abstain
      /\ told.conflict = exact.conflict
      /\ told.leaders # {} => told.episodes = exact.episodes
  BY SameResolution
<1>2. Chosen(told, adaptive) = Chosen(exact, adaptive)
      /\ (Chosen(told, adaptive) # {} => told.episodes = exact.episodes)
  BY <1>1 DEF Chosen
<1> HIDE DEF told, exact, adaptive
<1> QED
  BY <1>1, <1>2 DEF Policy, Agrees, Answer, told, exact, adaptive

\* The search is a hint: the coverage alone decides.
THEOREM CoverageAlwaysDecides == DecisionSpec => CoverageDecides
<1> DEFINE Decided == decision' # NoDecision =>
             LET sc == decision'.scope
                 sp == decision'.space
             IN Agrees(decision'.answer, Policy(sc, sp, Coverage(sc, sp)))
<1>1. HeadInv /\ [DecisionNext]_decisionVars => [Decided]_decisionVars
  <2> SUFFICES ASSUME HeadInv, DecisionNext, decision' # NoDecision PROVE Decided
    OBVIOUS
  <2>1. PICK sc \in Scopes, sp \in Spaces : \E near \in Neighbours(sc, sp) :
          decision' = [scope |-> sc, space |-> sp,
                       answer |-> Policy(sc, sp, near \cup Coverage(sc, sp))]
    BY AnswerStep
  <2>2. PICK near \in Neighbours(sc, sp) :
          decision' = [scope |-> sc, space |-> sp,
                       answer |-> Policy(sc, sp, near \cup Coverage(sc, sp))]
    BY <2>1
  <2>3. /\ decision'.scope = sc /\ decision'.space = sp
        /\ decision'.answer = Policy(sc, sp, near \cup Coverage(sc, sp))
    BY <2>2
  <2> QED
    BY <2>3, PolicyIgnoresSearch
<1> QED
  BY <1>1, MemoryEvolves, HeadInvariant, PTL DEF DecisionSpec, CoverageDecides

-----------------------------------------------------------------------------

\* The policy makes no strategy executable that is vetoed: learned and chosen
\* strategies are filtered, the default is guarded, an abstention names none.
LEMMA PolicyHeedsVeto ==
  ASSUME TypeOK, NEW sc \in Scopes, NEW sp \in Spaces, NEW recalled
  PROVE  Policy(sc, sp, recalled).strategy \notin Vetoed(sc, sp)
<1> DEFINE resolution == Resolve(recalled)
           adaptive == ResolveRules(sc, sp)
           chosen == Chosen(resolution, adaptive)
           influence == IF adaptive.learned # {} THEN adaptive.learned ELSE chosen
<1>1. adaptive.vetoed = Vetoed(sc, sp)
  BY DEF ResolveRules
<1>2. NoStrategy \notin Vetoed(sc, sp)
  BY DecisionAssumption DEF Vetoed, Negative, Applicable, TypeOK, MemoryIds
<1>3. adaptive.learned \cap Vetoed(sc, sp) = {}
  <2>1. adaptive.learned \subseteq Endorsed(sc, sp)
    BY DEF ResolveRules, Ahead
  <2> QED
    BY <2>1 DEF Endorsed, Endorsing
<1>4. chosen \cap Vetoed(sc, sp) = {}
  BY <1>1 DEF Chosen
<1>5. influence # {} => (CHOOSE k \in influence : TRUE) \notin Vetoed(sc, sp)
  BY <1>3, <1>4
<1> HIDE DEF resolution, adaptive, chosen
<1>6. \/ Policy(sc, sp, recalled).strategy = NoStrategy
      \/ influence # {} /\ Policy(sc, sp, recalled).strategy = CHOOSE k \in influence : TRUE
      \/ /\ Policy(sc, sp, recalled).strategy = GenericRetry
         /\ GenericRetry \notin adaptive.vetoed
  BY DEF Policy, Answer, resolution, adaptive, chosen
<1> QED
  BY <1>1, <1>2, <1>5, <1>6

\* Negative memory is a veto (README.md:110).
THEOREM VetoAlwaysHolds == DecisionSpec => VetoHolds
<1> DEFINE Heeded == decision' # NoDecision =>
             decision'.answer.strategy \notin Vetoed(decision'.scope, decision'.space)
<1>1. TypeOK /\ [DecisionNext]_decisionVars => [Heeded]_decisionVars
  <2> SUFFICES ASSUME TypeOK, DecisionNext, decision' # NoDecision PROVE Heeded
    OBVIOUS
  <2>1. PICK sc \in Scopes, sp \in Spaces : \E near \in Neighbours(sc, sp) :
          decision' = [scope |-> sc, space |-> sp,
                       answer |-> Policy(sc, sp, near \cup Coverage(sc, sp))]
    BY AnswerStep
  <2>2. PICK near \in Neighbours(sc, sp) :
          decision' = [scope |-> sc, space |-> sp,
                       answer |-> Policy(sc, sp, near \cup Coverage(sc, sp))]
    BY <2>1
  <2>3. Policy(sc, sp, near \cup Coverage(sc, sp)).strategy \notin Vetoed(sc, sp)
    BY PolicyHeedsVeto
  <2> QED
    BY <2>2, <2>3
<1> QED
  BY <1>1, MemoryEvolves, TypeCorrect, PTL DEF DecisionSpec, VetoHolds

-----------------------------------------------------------------------------

\* A contradiction among the heads that count is one among the active votes.
LEMMA PolicyTracesDisagreement ==
  ASSUME HeadInv, NEW sc \in Scopes, NEW sp \in Spaces, NEW near \in Neighbours(sc, sp),
         Disagreement(sc, sp)
  PROVE  Policy(sc, sp, near \cup Coverage(sc, sp)).traced
<1> DEFINE all == near \cup Coverage(sc, sp)
           act == Active(all)
<1>1. PICK g, h \in Coverage(sc, sp) :
        g.strategy = h.strategy /\ g.verdict = "success" /\ h.verdict = "failure"
  BY DEF Disagreement
<1>2. act = {r \in Relevant : r \in all /\ Fresh(r)}
  BY RecalledAreHeads, ActiveHeads
<1>3. g \in act /\ h \in act
  BY <1>2 DEF Coverage
<1>4. g.strategy \in Strategies
  BY <1>2, <1>3, DecisionAssumption, ReceiptsAssumption
<1>5. g \in Votes(act, g.strategy, "success") /\ h \in Votes(act, g.strategy, "failure")
  BY <1>1, <1>3 DEF Votes
<1>6. Contradictory(act)
  BY <1>4, <1>5 DEF Contradictory
<1>7. Resolve(all).conflict
  BY <1>6 DEF Resolve
<1> HIDE DEF all
<1>8. Policy(sc, sp, all).traced
  BY <1>7 DEF Policy, Answer
<1> QED
  BY <1>8 DEF all

\* Whoever wins the vote, the trace shows that there was one
\* (src/decisionvault/agent/memory_governance.py:108-110).
THEOREM DisagreementAlwaysTraced == DecisionSpec => DisagreementTraced
<1> DEFINE Traced == decision' # NoDecision /\ Disagreement(decision'.scope, decision'.space) =>
             decision'.answer.traced
<1>1. HeadInv /\ [DecisionNext]_decisionVars => [Traced]_decisionVars
  <2> SUFFICES ASSUME HeadInv, DecisionNext, decision' # NoDecision,
                      Disagreement(decision'.scope, decision'.space)
               PROVE  decision'.answer.traced
    OBVIOUS
  <2>1. PICK sc \in Scopes, sp \in Spaces : \E near \in Neighbours(sc, sp) :
          decision' = [scope |-> sc, space |-> sp,
                       answer |-> Policy(sc, sp, near \cup Coverage(sc, sp))]
    BY AnswerStep
  <2>2. PICK near \in Neighbours(sc, sp) :
          decision' = [scope |-> sc, space |-> sp,
                       answer |-> Policy(sc, sp, near \cup Coverage(sc, sp))]
    BY <2>1
  <2>3. Disagreement(sc, sp)
    BY <2>2
  <2>4. Policy(sc, sp, near \cup Coverage(sc, sp)).traced
    BY <2>3, PolicyTracesDisagreement
  <2> QED
    BY <2>2, <2>4
<1> QED
  BY <1>1, MemoryEvolves, HeadInvariant, PTL DEF DecisionSpec, DisagreementTraced

-----------------------------------------------------------------------------

\* A head has not been withdrawn, replaced or overtaken.
LEMMA HeadsStand ==
  ASSUME HeadInv, NEW e \in heads
  PROVE  Stands(e)
<1>1. e \notin revocations /\ \A r \in Receipts : supersedes[r] # e
  BY DEF HeadInv, WithdrawnIsHistory
<1>2. \A r \in Recorded : Key(r) = Key(e) => r.observed <= e.observed
  BY DEF HeadInv, HeadIsWatermark
<1> QED
  BY <1>1, <1>2 DEF Stands, Recorded

\* The policy cites active episodes and applicable rules only.
LEMMA PolicyCites ==
  ASSUME NEW sc \in Scopes, NEW sp \in Spaces, NEW recalled
  PROVE  /\ Policy(sc, sp, recalled).episodes \subseteq Active(recalled)
         /\ Policy(sc, sp, recalled).memories \subseteq Applicable(sc, sp)
<1> DEFINE resolution == Resolve(recalled)
           adaptive == ResolveRules(sc, sp)
<1>1. resolution.episodes \subseteq Active(recalled)
  BY DEF Resolve
<1>2. adaptive.memories \subseteq Applicable(sc, sp)
  BY DEF ResolveRules, Negative
<1> HIDE DEF resolution, adaptive
<1>3. Policy(sc, sp, recalled).episodes \in {resolution.episodes, {}}
  BY DEF Policy, Answer, resolution, adaptive
<1>4. Policy(sc, sp, recalled).memories \in {adaptive.memories, {}}
  BY DEF Policy, Answer, resolution, adaptive
<1> QED
  BY <1>1, <1>2, <1>3, <1>4

\* Withdrawn, replaced, overtaken or stale evidence speaks in neither layer.
THEOREM EvidenceAlwaysStands == DecisionSpec => EvidenceStands
<1> DEFINE Standing == decision' # NoDecision =>
       /\ \A e \in decision'.answer.episodes : Stands(e) /\ e \in Relevant /\ Fresh(e)
       /\ \A m \in decision'.answer.memories :
            m \in active /\ ~ ExpiredBy(m, now) /\ \A e \in m.support : Stands(e)
<1>1. HeadInv /\ [DecisionNext]_decisionVars => [Standing]_decisionVars
  <2> SUFFICES ASSUME HeadInv, DecisionNext, decision' # NoDecision PROVE Standing
    OBVIOUS
  <2>1. PICK sc \in Scopes, sp \in Spaces : \E near \in Neighbours(sc, sp) :
          decision' = [scope |-> sc, space |-> sp,
                       answer |-> Policy(sc, sp, near \cup Coverage(sc, sp))]
    BY AnswerStep
  <2>2. PICK near \in Neighbours(sc, sp) :
          decision' = [scope |-> sc, space |-> sp,
                       answer |-> Policy(sc, sp, near \cup Coverage(sc, sp))]
    BY <2>1
  <2> DEFINE all == near \cup Coverage(sc, sp)
  <2>3. /\ decision'.answer.episodes \subseteq Active(all)
        /\ decision'.answer.memories \subseteq Applicable(sc, sp)
    BY <2>2, PolicyCites
  <2>4. all \subseteq heads
    BY RecalledAreHeads DEF HeadsOf
  <2>5. Active(all) = {r \in Relevant : r \in all /\ Fresh(r)}
    BY RecalledAreHeads, ActiveHeads
  <2>6. \A e \in Active(all) : Stands(e) /\ e \in Relevant /\ Fresh(e)
    BY <2>4, <2>5, HeadsStand
  <2>7. ASSUME NEW m \in Applicable(sc, sp)
        PROVE  m \in active /\ ~ ExpiredBy(m, now) /\ \A e \in m.support : Stands(e)
    BY HeadsStand DEF Applicable, InSpace, HeadsOf
  <2> QED
    BY <2>3, <2>6, <2>7
<1> QED
  BY <1>1, MemoryEvolves, HeadInvariant, PTL DEF DecisionSpec, EvidenceStands

=============================================================================
