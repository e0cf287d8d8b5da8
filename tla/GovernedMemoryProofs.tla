------------------------- MODULE GovernedMemoryProofs -------------------------
(***************************************************************************)
(* Proofs about GovernedMemory for any scopes, producers, receipts, rules, *)
(* embedding spaces and numbers.                                           *)
(***************************************************************************)
EXTENDS GovernedMemory, FiniteSetTheorems, WellFoundedInduction, TLAPS

-----------------------------------------------------------------------------
(* Type correctness *)

\* A candidate built from typed heads is a rule identity.
LEMMA CandidateType ==
  ASSUME TypeOK, NEW sc \in Scopes, NEW sp \in Spaces,
         NEW c \in Candidates(sc, sp)
  PROVE  /\ c \in MemoryIds
         /\ c.scope = sc /\ c.space = sp
         /\ c.support # {}
         /\ c.support = Evidence(sc, c.rule)
         /\ c = Candidate(sc, c.rule, sp)
<1>1. PICK k \in Rules : c = Candidate(sc, k, sp) /\ Evidence(sc, k) # {}
  BY DEF Candidates
<1>2. Evidence(sc, k) \in SUBSET Receipts
  BY DEF Evidence, HeadsOf, TypeOK
<1>3. c.scope = sc /\ c.space = sp /\ c.rule = k /\ c.support = Evidence(sc, k)
  BY <1>1 DEF Candidate
<1>4. c \in MemoryIds
  BY <1>1, <1>2 DEF Candidate, MemoryIds
<1> QED
  BY <1>1, <1>3, <1>4

\* Each commit keeps the types of the columns.
LEMMA TypeStep == TypeOK /\ [Next]_vars => TypeOK'
<1> SUFFICES ASSUME TypeOK, [Next]_vars PROVE TypeOK'
  OBVIOUS
<1> USE DEF TypeOK
<1>1. ASSUME NEW r \in Receipts, NEW sp \in Spaces, NEW target \in Receipts \cup {NoReceipt},
             NEW kept \in SUBSET heads, Save(r, sp, target, kept)
      PROVE  TypeOK'
  <2>1. heads' \subseteq Receipts
    BY <1>1 DEF Save, HeadsAfter, Upsert
  <2>2. outbox' \subseteq Scopes
    BY <1>1, ReceiptsAssumption DEF Save
  <2>3. active' \subseteq MemoryIds /\ revoked' \subseteq MemoryIds
    BY <1>1 DEF Save, Unsupported
  <2>4. space' \in [Receipts -> Spaces \cup {NoSpace}]
    BY <1>1 DEF Save
  <2>5. supersedes' \in [Receipts -> Receipts \cup {NoReceipt}]
    BY <1>1 DEF Save
  <2> QED
    BY <1>1, <2>1, <2>2, <2>3, <2>4, <2>5 DEF Save
<1>2. ASSUME NEW r \in Receipts, NEW sp \in Spaces, NEW g \in GrantSets,
             Record(r, sp, g)
      PROVE  TypeOK'
  BY <1>1, <1>2 DEF Record
<1>3. ASSUME NEW r \in Receipts, NEW t \in Receipts, NEW sp \in Spaces,
             NEW g \in GrantSets, Supersede(r, t, sp, g)
      PROVE  TypeOK'
  BY <1>1, <1>3 DEF Supersede
<1>4. ASSUME NEW gone \in SUBSET heads, Withdraw(gone) PROVE TypeOK'
  BY <1>4, ReceiptsAssumption DEF Withdraw, SupportedBy, Owed
<1>5. ASSUME NEW r \in Receipts, NEW g \in GrantSets, Revoke(r, g) PROVE TypeOK'
  BY <1>4, <1>5 DEF Revoke
<1>6. ASSUME NEW g \in GrantSets, RetireUntrusted(g) PROVE TypeOK'
  BY <1>4, <1>6 DEF RetireUntrusted
<1>7. ASSUME NEW sc \in Scopes, NEW sp \in Spaces, NEW g \in GrantSets,
             NEW done \in BOOLEAN, Consolidate(sc, sp, g, done)
      PROVE  TypeOK'
  <2>1. Candidates(sc, sp) \subseteq MemoryIds
    BY CandidateType
  <2>2. active' \subseteq MemoryIds /\ superseded' \subseteq MemoryIds
        /\ revoked' \subseteq MemoryIds /\ expired' \subseteq MemoryIds
    BY <1>7, <2>1 DEF Consolidate, Judged, Struck, Displaced
  <2>3. lineage' \subseteq MemoryIds \X MemoryIds
    BY <1>7, <2>1 DEF Consolidate, Judged, Displaced
  <2>4. projection' \in [Scopes -> SUBSET Receipts]
    BY <1>7 DEF Consolidate, HeadsOf
  <2>5. outbox' \subseteq Scopes
    BY <1>7 DEF Consolidate
  <2>6. judgedBy' \in [Scopes -> Judges \cup {Nobody}]
    BY <1>7 DEF Consolidate, Judges
  <2> QED
    BY <1>7, <2>2, <2>3, <2>4, <2>5, <2>6 DEF Consolidate, episodeVars
<1>8. CASE Tick
  BY <1>8, NumbersAssumption DEF Tick, episodeVars, ruleVars
<1>9. CASE UNCHANGED vars
  BY <1>9 DEF vars, episodeVars, ruleVars
<1> QED
  BY <1>2, <1>3, <1>5, <1>6, <1>7, <1>8, <1>9 DEF Next, Serve

\* Every variable keeps its type in every reachable state.
THEOREM TypeCorrect == Spec => []TypeOK
<1>1. Init => TypeOK
  BY NumbersAssumption, NamesAssumption DEF Init, TypeOK
<1> QED
  BY <1>1, TypeStep, PTL DEF Spec

-----------------------------------------------------------------------------
(* Episodes and heads *)

\* Heads, revocations and superseded episodes are all recorded episodes.
HeadsRecorded ==
  /\ heads \subseteq Recorded
  /\ revocations \subseteq Recorded
  /\ \A r \in Receipts : supersedes[r] # NoReceipt => r \in Recorded /\ supersedes[r] \in Recorded

HeadInv == TypeOK /\ HeadsRecorded /\ HeadIsWatermark /\ WithdrawnIsHistory /\ EpisodeLineage

\* A save adds only the recorded episode to the heads, and only if it is newer
\* than the history of its key, which then has no other head.
LEMMA HeadsAfterSave ==
  ASSUME NEW r \in Receipts, NEW kept \in SUBSET heads, TypeOK, HeadsRecorded
  PROVE  /\ HeadsAfter(r, kept) \subseteq kept \cup {r}
         /\ r \notin Recorded /\ r \in HeadsAfter(r, kept) => IsNewest(r)
         /\ \A h \in kept : Key(h) # Key(r) => h \in HeadsAfter(r, kept)
         /\ r \notin Recorded =>
              \A h \in HeadsAfter(r, kept) : r \in HeadsAfter(r, kept) /\ Key(h) = Key(r) => h = r
  BY DEF HeadsAfter, Upsert, HeadsRecorded, Recorded

\* Withdrawing heads keeps the invariant of the heads.
LEMMA WithdrawKeepsHeads ==
  ASSUME HeadInv, NEW gone \in SUBSET heads, Withdraw(gone), TypeOK'
  PROVE  HeadInv'
<1>1. Recorded' = Recorded
  BY DEF Withdraw, Recorded
<1>2. HeadsRecorded'
  BY <1>1 DEF HeadInv, HeadsRecorded, Withdraw
<1>3. HeadIsWatermark'
  BY <1>1 DEF HeadInv, HeadIsWatermark, Withdraw
<1>4. WithdrawnIsHistory'
  BY DEF HeadInv, WithdrawnIsHistory, Withdraw
<1>5. EpisodeLineage'
  BY <1>1 DEF HeadInv, EpisodeLineage, Withdraw
<1> QED
  BY <1>2, <1>3, <1>4, <1>5 DEF HeadInv

\* So does a save, whether or not it supersedes the head it removed.
LEMMA SaveKeepsHeads ==
  ASSUME HeadInv, TypeOK',
         NEW r \in Receipts, r \notin Recorded, NEW sp \in Spaces,
         NEW target \in Receipts \cup {NoReceipt}, NEW kept \in SUBSET heads,
         Save(r, sp, target, kept),
         target # NoReceipt => /\ target \in heads /\ kept = heads \ {target}
                               /\ target.scope = r.scope /\ target.producer = r.producer
                               /\ target.observed < r.observed
  PROVE  HeadInv'
<1> USE DEF HeadInv
<1>1. Recorded' = Recorded \cup {r}
  BY NamesAssumption DEF Save, Recorded, TypeOK
<1>2. heads' = HeadsAfter(r, kept) /\ revocations' = revocations
      /\ supersedes' = [supersedes EXCEPT ![r] = target]
  BY DEF Save
<1>3. /\ heads' \subseteq kept \cup {r}
      /\ r \in heads' => IsNewest(r)
      /\ r \in heads' => \A h \in heads' : Key(h) = Key(r) => h = r
  BY <1>2, HeadsAfterSave
<1>4. supersedes[r] = NoReceipt
  BY DEF HeadsRecorded, TypeOK
<1>5. HeadsRecorded'
  BY <1>1, <1>2, <1>3 DEF HeadsRecorded, TypeOK
<1>6. HeadIsWatermark'
  <2> SUFFICES ASSUME NEW h \in heads', NEW e \in Recorded', Key(e) = Key(h)
               PROVE  e.observed <= h.observed /\ (e \in heads' => e = h)
    BY DEF HeadIsWatermark, Key
  <2>1. h.observed \in Nat /\ e.observed \in Nat /\ r.observed \in Nat
    BY <1>5, ReceiptsAssumption DEF HeadsRecorded, Recorded, TypeOK
  <2>2. CASE h = r
    BY <1>1, <1>3, <2>1, <2>2 DEF IsNewest
  <2>3. CASE h # r /\ e = r
    <3>1. h \in heads
      BY <1>3, <2>3
    <3>2. ~ IsNewest(r) => e.observed <= h.observed
      <4>1. SUFFICES ASSUME ~ IsNewest(r) PROVE r.observed <= h.observed
        BY <2>3
      <4>2. PICK d \in Recorded : Key(d) = Key(r) /\ ~ (d.observed < r.observed)
        BY <4>1 DEF IsNewest
      <4>3. d.observed <= h.observed
        BY <2>3, <3>1, <4>2 DEF HeadIsWatermark
      <4>4. d.observed \in Nat
        BY <4>2, ReceiptsAssumption DEF Recorded
      <4> QED
        BY <2>1, <4>2, <4>3, <4>4
    <3>3. IsNewest(r) => r \in heads'
      <4>1. SUFFICES ASSUME IsNewest(r), r \notin heads' PROVE FALSE
        OBVIOUS
      <4>2. PICK d \in kept : Key(d) = Key(r) /\ r.observed <= d.observed
        BY <1>2, <4>1 DEF HeadsAfter, Upsert
      <4>3. d \in Recorded /\ d.observed \in Nat
        BY <4>2, ReceiptsAssumption DEF HeadsRecorded, Recorded
      <4> QED
        BY <2>1, <4>1, <4>2, <4>3 DEF IsNewest
    <3>4. ~ IsNewest(r)
      BY <1>3, <2>3, <3>3
    <3> QED
      BY <1>3, <2>3, <3>2, <3>4
  <2>4. CASE h # r /\ e # r
    BY <1>1, <1>3, <2>4 DEF HeadIsWatermark
  <2> QED
    BY <2>2, <2>3, <2>4
<1>7. WithdrawnIsHistory'
  <2>1. heads' \cap revocations' = {}
    BY <1>2, <1>3 DEF WithdrawnIsHistory, HeadsRecorded
  <2>2. ASSUME NEW q \in Receipts PROVE supersedes'[q] \notin heads'
    <3>1. CASE q = r
      BY <1>2, <1>3, <3>1, NamesAssumption DEF TypeOK, HeadsRecorded
    <3>2. CASE q # r
      <4>1. supersedes'[q] = supersedes[q] /\ supersedes[q] \notin heads
        BY <1>2, <3>2 DEF WithdrawnIsHistory, TypeOK
      <4>2. supersedes[q] # r
        BY NamesAssumption DEF HeadsRecorded
      <4> QED
        BY <1>3, <4>1, <4>2
    <3> QED
      BY <3>1, <3>2
  <2> QED
    BY <2>1, <2>2 DEF WithdrawnIsHistory
<1>8. EpisodeLineage'
  <2> SUFFICES ASSUME NEW q \in Receipts, supersedes'[q] # NoReceipt
               PROVE  LET t == supersedes'[q] IN
                        /\ q \in Recorded' /\ t \in Recorded'
                        /\ t.scope = q.scope /\ t.producer = q.producer
                        /\ t.observed < q.observed
                        /\ \A p \in Receipts : supersedes'[p] = t => p = q
    BY DEF EpisodeLineage
  <2>1. CASE q = r
    BY <1>1, <1>2, <2>1 DEF WithdrawnIsHistory, HeadsRecorded, TypeOK
  <2>2. CASE q # r
    <3>1. supersedes'[q] = supersedes[q]
      BY <1>2, <2>2 DEF TypeOK
    <3>2. supersedes'[q] # target
      BY <3>1 DEF WithdrawnIsHistory
    <3> QED
      BY <1>1, <1>2, <2>2, <3>1, <3>2 DEF EpisodeLineage, TypeOK
  <2> QED
    BY <2>1, <2>2
<1> QED
  BY <1>5, <1>6, <1>7, <1>8

\* The commits that leave episodes and heads alone.
LEMMA EpisodesUnchanged ==
  ASSUME HeadInv, UNCHANGED episodeVars, TypeOK'
  PROVE  HeadInv'
  BY DEF HeadInv, episodeVars, HeadsRecorded, HeadIsWatermark, WithdrawnIsHistory,
         EpisodeLineage, Recorded

\* A step is a save of an unrecorded receipt, a withdrawal of heads, or leaves
\* the episodes alone.
LEMMA StepShape ==
  ASSUME TypeOK, [Next]_vars
  PROVE  \/ \E r \in Receipts, sp \in Spaces :
              r \notin Recorded /\ Save(r, sp, NoReceipt, heads)
         \/ \E r, t \in Receipts, sp \in Spaces :
              r \notin Recorded /\ MaySupersede(r, t) /\ Save(r, sp, t, heads \ {t})
         \/ \E gone \in SUBSET heads : Withdraw(gone)
         \/ UNCHANGED episodeVars
<1>1. ASSUME NEW g \in GrantSets, NEW sp \in Spaces,
             \/ \E r \in Receipts : Record(r, sp, g)
             \/ \E r, t \in Receipts : Supersede(r, t, sp, g)
      PROVE  \/ \E r \in Receipts : r \notin Recorded /\ Save(r, sp, NoReceipt, heads)
             \/ \E r, t \in Receipts :
                  r \notin Recorded /\ MaySupersede(r, t) /\ Save(r, sp, t, heads \ {t})
  BY <1>1 DEF Record, Supersede, Recordable
<1>2. ASSUME NEW g \in GrantSets, (\E r \in Receipts : Revoke(r, g)) \/ RetireUntrusted(g)
      PROVE  \E gone \in SUBSET heads : Withdraw(gone)
  BY <1>2 DEF Revoke, RetireUntrusted
<1>3. CASE \/ \E sc \in Scopes, sp \in Spaces, g \in GrantSets, done \in BOOLEAN :
                Consolidate(sc, sp, g, done)
           \/ Tick
           \/ UNCHANGED vars
  BY <1>3 DEF Consolidate, Tick, vars
<1> QED
  BY <1>1, <1>2, <1>3 DEF Next, Serve

LEMMA HeadInvStep == HeadInv /\ [Next]_vars /\ TypeOK' => HeadInv'
<1> SUFFICES ASSUME HeadInv, [Next]_vars, TypeOK' PROVE HeadInv'
  OBVIOUS
<1>1. ASSUME NEW r \in Receipts, NEW sp \in Spaces, r \notin Recorded,
             Save(r, sp, NoReceipt, heads)
      PROVE  HeadInv'
  BY <1>1, SaveKeepsHeads DEF HeadInv
<1>2. ASSUME NEW r \in Receipts, NEW t \in Receipts, NEW sp \in Spaces,
             r \notin Recorded, MaySupersede(r, t), Save(r, sp, t, heads \ {t})
      PROVE  HeadInv'
  BY <1>2, SaveKeepsHeads DEF HeadInv, MaySupersede
<1>3. ASSUME NEW gone \in SUBSET heads, Withdraw(gone) PROVE HeadInv'
  BY <1>3, WithdrawKeepsHeads
<1>4. CASE UNCHANGED episodeVars
  BY <1>4, EpisodesUnchanged
<1> QED
  BY <1>1, <1>2, <1>3, <1>4, StepShape DEF HeadInv

LEMMA InitialHeads == Init => HeadInv
<1>1. Init => TypeOK
  BY NumbersAssumption, NamesAssumption DEF Init, TypeOK
<1>2. Init => HeadsRecorded /\ HeadIsWatermark /\ WithdrawnIsHistory /\ EpisodeLineage
  BY DEF Init, HeadsRecorded, HeadIsWatermark, WithdrawnIsHistory, EpisodeLineage, Recorded
<1> QED
  BY <1>1, <1>2 DEF HeadInv

LEMMA HeadInvariant == Spec => []HeadInv
  BY InitialHeads, HeadInvStep, TypeCorrect, PTL DEF Spec

\* Whatever the order of arrival, a key has one head and no newer history.
THEOREM HeadWatermark == Spec => []HeadIsWatermark
<1>1. HeadInv => HeadIsWatermark
  BY DEF HeadInv
<1> QED
  BY <1>1, HeadInvariant, PTL

\* Revoked and superseded episodes never serve as heads again.
THEOREM WithdrawnStaysHistory == Spec => []WithdrawnIsHistory
<1>1. HeadInv => WithdrawnIsHistory
  BY DEF HeadInv
<1> QED
  BY <1>1, HeadInvariant, PTL

\* Supersession never forks and moves forward in event time.
THEOREM SupersessionIsLinear == Spec => []EpisodeLineage
<1>1. HeadInv => EpisodeLineage
  BY DEF HeadInv
<1> QED
  BY <1>1, HeadInvariant, PTL

\* Only the episode just recorded becomes a head, and it is the newest of its key.
THEOREM NoHeadResurrects == Spec => NoResurrection
<1> DEFINE Advance == \A r \in heads' \ heads :
             /\ r \notin Recorded
             /\ \A e \in Recorded : Key(e) = Key(r) => e.observed < r.observed
<1>1. HeadInv /\ [Next]_vars => [Advance]_vars
  <2> SUFFICES ASSUME HeadInv, [Next]_vars PROVE Advance
    OBVIOUS
  <2>1. ASSUME NEW r \in Receipts, NEW sp \in Spaces, NEW target, NEW kept \in SUBSET heads,
               r \notin Recorded, Save(r, sp, target, kept)
        PROVE  Advance
    BY <2>1, HeadsAfterSave DEF Save, HeadInv, IsNewest
  <2>2. ASSUME NEW gone \in SUBSET heads, Withdraw(gone) PROVE Advance
    BY <2>2 DEF Withdraw
  <2>3. CASE UNCHANGED episodeVars
    BY <2>3 DEF episodeVars
  <2> QED
    BY <2>1, <2>2, <2>3, StepShape DEF HeadInv
<1> QED
  BY <1>1, HeadInvariant, PTL DEF Spec, NoResurrection

-----------------------------------------------------------------------------
(* Rules *)

\* A rule that ended is not live.
EndedNeverActive == active \cap (superseded \cup revoked \cup expired) = {}

RuleInv == SupportIsCurrent /\ OneActivePerSlot /\ Unanimous /\ EndedNeverActive

\* What the governor guarantees about a rule it promotes.
LEMMA QualifiedIsUnanimous ==
  ASSUME TypeOK, NEW sc \in Scopes, NEW sp \in Spaces, NEW c \in Candidates(sc, sp),
         NEW g, ~ Inadmissible(c, g), Qualifies(c)
  PROVE  /\ Cardinality(ProducersOf(c.support)) >= MinProducers[c.scope]
         /\ \A e \in c.support :
              e.verdict = (IF c.polarity = "AVOID" THEN "failure" ELSE "success")
<1>1. c.scope \in Scopes /\ c.polarity \in {"POSITIVE", "AVOID"}
  BY CandidateType DEF MemoryIds
<1>2. MinProducers[c.scope] \in Nat /\ MinProducers[c.scope] > 0
  BY <1>1, NumbersAssumption
<1>3. Cardinality(ProducersOf(c.support)) \in Nat
  <2>1. ProducersOf(c.support) \in SUBSET Producers
    BY DEF ProducersOf
  <2> QED
    BY <2>1, FS_Subset, FS_CardinalityType, NamesAssumption
<1>4. Cardinality(ProducersOf(c.support)) >= MinProducers[c.scope]
  BY <1>2, <1>3 DEF Inadmissible, TooFewProducers
<1>5. Aligned(c) # {}
  <2>1. SUFFICES ASSUME Aligned(c) = {} PROVE FALSE
    OBVIOUS
  <2>2. ProducersOf(Aligned(c)) = {}
    BY <2>1 DEF ProducersOf
  <2>3. Cardinality(ProducersOf(Aligned(c))) = 0
    BY <2>2, FS_EmptySet
  <2> QED
    BY <1>2, <2>3 DEF Qualifies
<1>6. \A e \in c.support : e.verdict \in {"success", "failure"}
  BY CandidateType, ReceiptsAssumption DEF Evidence, HeadsOf, TypeOK, Verdicts
<1>7. ASSUME NEW e \in c.support
      PROVE  e.verdict = (IF c.polarity = "AVOID" THEN "failure" ELSE "success")
  BY <1>5, <1>6 DEF Qualifies, Contradicted, Aligned, Succeeded, Failed
<1> QED
  BY <1>4, <1>7

\* A promoted rule rests on current heads of its scope, rule and space.
LEMMA QualifiedIsCurrent ==
  ASSUME TypeOK, NEW sc \in Scopes, NEW sp \in Spaces, NEW c \in Candidates(sc, sp),
         NEW g, ~ Inadmissible(c, g)
  PROVE  /\ c.support # {}
         /\ \A e \in c.support :
              e \in heads /\ e.scope = c.scope /\ e.rule = c.rule /\ space[e] = c.space
  BY CandidateType DEF Evidence, HeadsOf, Inadmissible, SpansSpaces

\* Commits that only end rules keep what holds of every ACTIVE rule by itself.
LEMMA EndingRules ==
  ASSUME RuleInv, active' \subseteq active,
         superseded' = superseded, expired' = expired,
         revoked' = revoked \cup (active \ active'),
         \A m \in active' : \A e \in m.support : e \in heads' /\ space'[e] = space[e]
  PROVE  RuleInv'
<1> USE DEF RuleInv
<1>1. SupportIsCurrent'
  BY DEF SupportIsCurrent
<1>2. OneActivePerSlot'
  BY DEF OneActivePerSlot, SameSlot
<1>3. Unanimous'
  BY DEF Unanimous, ProducersOf
<1>4. EndedNeverActive'
  BY DEF EndedNeverActive
<1> QED
  BY <1>1, <1>2, <1>3, <1>4

\* A save ends every rule of its scope that lost a head, and can take no head
\* from a rule of another scope.
LEMMA SaveKeepsRules ==
  ASSUME TypeOK, HeadsRecorded, RuleInv,
         NEW r \in Receipts, r \notin Recorded, NEW sp \in Spaces,
         NEW target, NEW kept \in SUBSET heads, Save(r, sp, target, kept),
         \A h \in heads \ kept : h.scope = r.scope
  PROVE  RuleInv'
<1>1. heads' = HeadsAfter(r, kept) /\ space' = [space EXCEPT ![r] = sp]
  BY DEF Save
<1>2. ASSUME NEW m \in active', NEW e \in m.support
      PROVE  e \in heads' /\ space'[e] = space[e]
  <2>1. m \in active /\ m \notin Unsupported(r.scope, heads', space', sp)
    BY DEF Save
  <2>2. e \in heads /\ e.scope = m.scope
    BY <2>1 DEF RuleInv, SupportIsCurrent
  <2>3. e \in heads'
    <3>1. CASE m.scope = r.scope
      BY <2>1, <3>1 DEF Unsupported
    <3>2. CASE m.scope # r.scope
      <4>1. e \in kept /\ Key(e) # Key(r)
        BY <2>2, <3>2 DEF Key
      <4> QED
        BY <1>1, <4>1, HeadsAfterSave
    <3> QED
      BY <3>1, <3>2
  <2>4. e # r
    BY <2>2 DEF HeadsRecorded
  <2> QED
    BY <1>1, <2>3, <2>4 DEF TypeOK
<1>3. /\ active' \subseteq active /\ revoked' = revoked \cup (active \ active')
      /\ superseded' = superseded /\ expired' = expired
  BY DEF Save, Unsupported
<1> QED
  BY <1>2, <1>3, EndingRules

LEMMA WithdrawKeepsRules ==
  ASSUME RuleInv, NEW gone \in SUBSET heads, Withdraw(gone)
  PROVE  RuleInv'
<1>1. ASSUME NEW m \in active', NEW e \in m.support
      PROVE  e \in heads' /\ space'[e] = space[e]
  BY DEF Withdraw, SupportedBy, RuleInv, SupportIsCurrent
<1>2. /\ active' \subseteq active /\ revoked' = revoked \cup (active \ active')
      /\ superseded' = superseded /\ expired' = expired
  BY DEF Withdraw, SupportedBy, Owed
<1> QED
  BY <1>1, <1>2, EndingRules

\* Consolidation replaces whole slots, by rules the governor qualified.
LEMMA ConsolidateKeepsRules ==
  ASSUME TypeOK, RuleInv, NEW sc \in Scopes, NEW sp \in Spaces, NEW g, NEW done,
         Consolidate(sc, sp, g, done)
  PROVE  RuleInv'
<1> DEFINE lapsed == {m \in active : m.scope = sc /\ ExpiredBy(m, now)}
           live == active \ lapsed
           judged == Judged(sc, sp, g)
           struck == Struck(live, judged)
           promoted == {c \in judged : Qualifies(c) /\ NotLate(c, live)}
           displaced == Displaced(live, promoted)
<1>1. /\ active' = (live \ (struck \cup displaced)) \cup promoted
      /\ expired' = expired \cup lapsed
      /\ revoked' = revoked \cup struck
      /\ superseded' = superseded \cup displaced
      /\ heads' = heads /\ space' = space
  BY DEF Consolidate, episodeVars
<1> USE DEF RuleInv
<1>2. SupportIsCurrent'
  <2>1. \A m \in promoted :
          /\ m.support # {}
          /\ \A e \in m.support :
               e \in heads /\ e.scope = m.scope /\ e.rule = m.rule /\ space[e] = m.space
    BY QualifiedIsCurrent DEF Judged
  <2> QED
    BY <1>1, <2>1 DEF SupportIsCurrent
<1>3. OneActivePerSlot'
  <2> SUFFICES ASSUME NEW m \in active', NEW c \in active', SameSlot(m, c) PROVE m = c
    BY DEF OneActivePerSlot, SameSlot
  <2>1. CASE m \in promoted /\ c \in promoted
    BY <2>1, CandidateType DEF SameSlot, Judged
  <2>2. CASE m \in live \ displaced /\ c \in live \ displaced
    BY <2>2 DEF OneActivePerSlot
  <2>3. CASE m \in live \ displaced /\ c \in promoted
    BY <2>3 DEF Displaced
  <2>4. CASE m \in promoted /\ c \in live \ displaced
    BY <2>4 DEF SameSlot, Displaced
  <2> QED
    BY <1>1, <2>1, <2>2, <2>3, <2>4
<1>4. Unanimous'
  <2>1. \A m \in promoted :
          /\ Cardinality(ProducersOf(m.support)) >= MinProducers[m.scope]
          /\ \A e \in m.support :
               e.verdict = (IF m.polarity = "AVOID" THEN "failure" ELSE "success")
    BY QualifiedIsUnanimous DEF Judged
  <2> QED
    BY <1>1, <2>1 DEF Unanimous, ProducersOf
<1>5. EndedNeverActive'
  BY <1>1 DEF EndedNeverActive, EverPromoted, Judged, Struck, Displaced
<1> QED
  BY <1>2, <1>3, <1>4, <1>5

LEMMA RuleInvStep == HeadInv /\ RuleInv /\ [Next]_vars => RuleInv'
<1> SUFFICES ASSUME HeadInv, RuleInv, [Next]_vars PROVE RuleInv'
  OBVIOUS
<1> USE DEF HeadInv
<1>1. ASSUME NEW r \in Receipts, NEW sp \in Spaces, NEW g, Record(r, sp, g) PROVE RuleInv'
  BY <1>1, SaveKeepsRules DEF Record, Recordable
<1>2. ASSUME NEW r \in Receipts, NEW t \in Receipts, NEW sp \in Spaces, NEW g,
             Supersede(r, t, sp, g)
      PROVE  RuleInv'
  BY <1>2, SaveKeepsRules DEF Supersede, Recordable, MaySupersede
<1>3. ASSUME NEW r \in Receipts, NEW g, Revoke(r, g) PROVE RuleInv'
  BY <1>3, WithdrawKeepsRules DEF Revoke
<1>4. ASSUME NEW g, RetireUntrusted(g) PROVE RuleInv'
  BY <1>4, WithdrawKeepsRules DEF RetireUntrusted
<1>5. ASSUME NEW sc \in Scopes, NEW sp \in Spaces, NEW g, NEW done, Consolidate(sc, sp, g, done)
      PROVE  RuleInv'
  BY <1>5, ConsolidateKeepsRules
<1>6. CASE Tick \/ UNCHANGED vars
  BY <1>6 DEF Tick, vars, episodeVars, ruleVars, RuleInv, SupportIsCurrent,
       OneActivePerSlot, Unanimous, EndedNeverActive, SameSlot, ProducersOf
<1> QED
  BY <1>1, <1>2, <1>3, <1>4, <1>5, <1>6 DEF Next, Serve

LEMMA RuleInvariant == Spec => []RuleInv
<1>1. Init => RuleInv
  BY DEF Init, RuleInv, SupportIsCurrent, OneActivePerSlot, Unanimous, EndedNeverActive
<1> QED
  BY <1>1, RuleInvStep, HeadInvariant, PTL DEF Spec

\* An ACTIVE rule never rests on an episode that is not a current head.
THEOREM SupportStaysCurrent == Spec => []SupportIsCurrent
<1>1. RuleInv => SupportIsCurrent
  BY DEF RuleInv
<1> QED
  BY <1>1, RuleInvariant, PTL

\* Two ACTIVE rules never compete for one slot.
THEOREM OneRulePerSlot == Spec => []OneActivePerSlot
<1>1. RuleInv => OneActivePerSlot
  BY DEF RuleInv
<1> QED
  BY <1>1, RuleInvariant, PTL

\* Every ACTIVE rule has its quorum of producers, none of which disagrees.
THEOREM RulesAreUnanimous == Spec => []Unanimous
<1>1. RuleInv => Unanimous
  BY DEF RuleInv
<1> QED
  BY <1>1, RuleInvariant, PTL

\* The transactional store implements the ledger: a rule goes live once, shares
\* its slot with no other, and never comes back.
THEOREM StoreImplementsLedger == Spec => LedgerSpec
<1>1. Init => Ledger!Init
  BY DEF Init, Ledger!Init
<1>2. RuleInv' /\ [Next]_vars => [Ledger!Next]_(Ledger!ledgerVars)
  <2> SUFFICES ASSUME RuleInv', [Next]_vars
               PROVE  Ledger!Next \/ UNCHANGED Ledger!ledgerVars
    OBVIOUS
  <2> DEFINE ended == superseded \cup revoked \cup expired
  <2>1. active' \cap ended' = {}
    BY DEF RuleInv, EndedNeverActive
  <2>2. Ledger!OneLivePerSlot(active')
    BY DEF RuleInv, OneActivePerSlot, Ledger!OneLivePerSlot, SameSlot, Ledger!SameSlot
  <2>3. ASSUME NEW r, NEW sp, NEW target, NEW kept, Save(r, sp, target, kept)
        PROVE  ended' = ended \cup (active \ active')
    BY <2>3 DEF Save, Unsupported
  <2>4. ASSUME NEW gone, Withdraw(gone) PROVE ended' = ended \cup (active \ active')
    BY <2>4 DEF Withdraw, SupportedBy
  <2>5. ASSUME NEW sc, NEW sp, NEW g, NEW done, Consolidate(sc, sp, g, done)
        PROVE  ended' = ended \cup (active \ active')
    BY <2>1, <2>5 DEF Consolidate, Struck, Displaced
  <2>6. CASE Tick \/ UNCHANGED vars
    BY <2>6 DEF Tick, vars, ruleVars, Ledger!ledgerVars
  <2> QED
    BY <2>1, <2>2, <2>3, <2>4, <2>5, <2>6
       DEF Next, Serve, Record, Supersede, Revoke, RetireUntrusted, Ledger!Next, Ledger!Change
<1> QED
  BY <1>1, <1>2, RuleInvariant, PTL DEF Spec, LedgerSpec, Ledger!Spec

-----------------------------------------------------------------------------
(* Lineage of rules, and the obligation to consolidate *)

LEMMA RuleLineageStep == TypeOK /\ RuleInv /\ RuleLineage /\ [Next]_vars => RuleLineage'
<1> SUFFICES ASSUME TypeOK, RuleInv, RuleLineage, [Next]_vars PROVE RuleLineage'
  OBVIOUS
<1>1. ASSUME lineage' = lineage, superseded' = superseded,
             EverPromoted \subseteq EverPromoted'
      PROVE  RuleLineage'
  BY <1>1 DEF RuleLineage, SameSlot, ObservedTo
<1>2. ASSUME NEW r, NEW sp, NEW target, NEW kept, Save(r, sp, target, kept) PROVE RuleLineage'
  BY <1>1, <1>2 DEF Save, EverPromoted
<1>3. ASSUME NEW gone, Withdraw(gone) PROVE RuleLineage'
  BY <1>1, <1>3 DEF Withdraw, EverPromoted
<1>4. ASSUME NEW sc \in Scopes, NEW sp \in Spaces, NEW g, NEW done, Consolidate(sc, sp, g, done)
      PROVE  RuleLineage'
  <2> DEFINE lapsed == {m \in active : m.scope = sc /\ ExpiredBy(m, now)}
             live == active \ lapsed
             judged == Judged(sc, sp, g)
             struck == Struck(live, judged)
             promoted == {c \in judged : Qualifies(c) /\ NotLate(c, live)}
             displaced == Displaced(live, promoted)
             fresh == {p \in promoted \X displaced : SameSlot(p[2], p[1])}
  <2>1. /\ active' = (live \ (struck \cup displaced)) \cup promoted
        /\ expired' = expired \cup lapsed
        /\ revoked' = revoked \cup struck
        /\ superseded' = superseded \cup displaced
        /\ lineage' = lineage \cup fresh
    BY <1>4 DEF Consolidate
  <2>2. EverPromoted \subseteq EverPromoted' /\ promoted \subseteq EverPromoted'
    BY <2>1 DEF EverPromoted
  <2>3. ASSUME NEW p \in fresh
        PROVE  /\ p[1] \in promoted /\ p[2] \in displaced /\ SameSlot(p[2], p[1])
               /\ p = <<p[1], p[2]>>
               /\ p[1] \notin EverPromoted /\ p[2] \in active /\ p[2] \notin superseded
               /\ ObservedTo(p[2]) < ObservedTo(p[1])
    BY <2>3 DEF NotLate, RuleInv, EndedNeverActive, Judged, Displaced
  <2>4. ASSUME NEW p \in fresh, NEW q \in fresh, p[2] = q[2] \/ p[1] = q[1] PROVE p = q
    <3>1. CASE p[2] = q[2]
      BY <2>3, <3>1, CandidateType DEF SameSlot, Judged
    <3>2. CASE p[1] = q[1]
      BY <2>3, <3>2 DEF RuleInv, OneActivePerSlot, SameSlot
    <3> QED
      BY <2>4, <3>1, <3>2
  <2>5. ASSUME NEW p \in lineage
        PROVE  p[1] \in EverPromoted /\ p[2] \in superseded
    BY DEF RuleLineage
  <2>6. ASSUME NEW p \in lineage', NEW q \in lineage', p[2] = q[2] \/ p[1] = q[1]
        PROVE  p = q
    <3>1. CASE p \in lineage /\ q \in lineage
      BY <2>6, <3>1 DEF RuleLineage
    <3>2. CASE p \in fresh /\ q \in fresh
      BY <2>4, <2>6, <3>2
    <3>3. CASE (p \in lineage /\ q \in fresh) \/ (p \in fresh /\ q \in lineage)
      BY <2>3, <2>5, <2>6, <3>3
    <3> QED
      BY <2>1, <3>1, <3>2, <3>3
  <2>7. ASSUME NEW p \in lineage'
        PROVE  /\ p[1] \in EverPromoted' /\ p[2] \in superseded'
               /\ SameSlot(p[2], p[1]) /\ ObservedTo(p[2]) < ObservedTo(p[1])
    <3>1. CASE p \in lineage
      BY <2>1, <2>2, <3>1 DEF RuleLineage
    <3>2. CASE p \in fresh
      BY <2>1, <2>2, <2>3, <3>2
    <3> QED
      BY <2>1, <3>1, <3>2
  <2> QED
    BY <2>6, <2>7 DEF RuleLineage, SameSlot, ObservedTo
<1>5. CASE Tick \/ UNCHANGED vars
  BY <1>1, <1>5 DEF Tick, vars, ruleVars, EverPromoted
<1> QED
  BY <1>2, <1>3, <1>4, <1>5 DEF Next, Serve, Record, Supersede, Revoke, RetireUntrusted

\* The lineage the service writes is a set of chains that validate_lineage accepts.
THEOREM RuleLineageIsLinear == Spec => []RuleLineage
<1>1. Init => RuleLineage
  BY DEF Init, RuleLineage
<1> QED
  BY <1>1, RuleLineageStep, RuleInvariant, TypeCorrect, PTL DEF Spec

\* A commit that leaves the statistics alone leaves every scope whose heads it
\* changed owing, and takes no obligation away.
CommitsOwed ==
  /\ projection' = projection /\ outbox \subseteq outbox'
  /\ \A s \in Scopes : HeadsOf(s)' # HeadsOf(s) => s \in outbox'

LEMMA SaveIsOwed ==
  ASSUME NEW r \in Receipts, NEW sp, NEW target, NEW kept \in SUBSET heads,
         kept = heads \/ IsNewest(r), \A h \in heads \ kept : h.scope = r.scope,
         Save(r, sp, target, kept)
  PROVE  CommitsOwed
<1>1. ~ IsNewest(r) => heads' = heads
  BY DEF Save, HeadsAfter
<1>2. ASSUME NEW s \in Scopes, IsNewest(r), s # r.scope PROVE HeadsOf(s)' = HeadsOf(s)
  BY <1>2 DEF Save, HeadsAfter, Upsert, HeadsOf, Key
<1>3. projection' = projection /\ outbox \subseteq outbox' /\ (IsNewest(r) => r.scope \in outbox')
  BY DEF Save
<1> QED
  BY <1>1, <1>2, <1>3 DEF CommitsOwed, HeadsOf

LEMMA WithdrawalIsOwed ==
  ASSUME NEW gone \in SUBSET heads, Withdraw(gone)
  PROVE  CommitsOwed
  BY DEF Withdraw, HeadsOf, Owed, CommitsOwed

\* Each step is a commit, a consolidation or no step of the contract.
LEMMA ContractStep == TypeOK /\ [Next]_vars => [Contract!Next]_(Contract!contractVars)
<1> SUFFICES ASSUME TypeOK, [Next]_vars
             PROVE  Contract!Next \/ UNCHANGED Contract!contractVars
  OBVIOUS
<1>1. CommitsOwed => Contract!Commit
  BY DEF CommitsOwed, Contract!Commit
<1>2. ASSUME NEW r \in Receipts, NEW sp \in Spaces, NEW g, Record(r, sp, g) PROVE CommitsOwed
  BY <1>2, SaveIsOwed DEF Record
<1>3. ASSUME NEW r \in Receipts, NEW t \in Receipts, NEW sp \in Spaces, NEW g,
             Supersede(r, t, sp, g)
      PROVE  CommitsOwed
  BY <1>3, SaveIsOwed DEF Supersede, MaySupersede
<1>4. ASSUME NEW r \in Receipts, NEW g, Revoke(r, g) PROVE CommitsOwed
  BY <1>4, WithdrawalIsOwed DEF Revoke
<1>5. ASSUME NEW g, RetireUntrusted(g) PROVE CommitsOwed
  BY <1>5, WithdrawalIsOwed DEF RetireUntrusted
<1>6. ASSUME NEW sc \in Scopes, NEW sp \in Spaces, NEW g, NEW done \in BOOLEAN,
             Consolidate(sc, sp, g, done)
      PROVE  Contract!Consolidate(sc)
  <2>1. /\ projection' = [projection EXCEPT ![sc] = HeadsOf(sc)]
        /\ outbox' \in {outbox, outbox \ {sc}} /\ heads' = heads
    BY <1>6 DEF Consolidate, episodeVars
  <2> QED
    BY <2>1 DEF Contract!Consolidate, HeadsOf
<1>7. CASE Tick \/ UNCHANGED vars
  BY <1>7 DEF Tick, vars, episodeVars, HeadsOf, Contract!contractVars
<1> QED
  BY <1>1, <1>2, <1>3, <1>4, <1>5, <1>6, <1>7 DEF Next, Serve, Contract!Next

LEMMA ContractInit == Init => Contract!Init
  BY DEF Init, HeadsOf, Contract!Init

\* The store keeps the contract of consolidation: heads never change without an
\* obligation, and only reading the heads as they are ends one.
THEOREM StoreKeepsContract == Spec => ContractSpec
  BY ContractInit, ContractStep, TypeCorrect, PTL DEF Spec, ContractSpec, Contract!Spec

\* The contract leaves nothing unread in a scope that owes nothing.
LEMMA SettledStep ==
  ASSUME TypeOK, SettledProjection, [Contract!Next]_(Contract!contractVars)
  PROVE  SettledProjection'
<1> SUFFICES ASSUME NEW s \in Scopes, s \notin outbox'
             PROVE  projection'[s] = HeadsOf(s)'
  BY DEF SettledProjection
<1>1. CASE Contract!Commit \/ UNCHANGED Contract!contractVars
  <2>1. s \notin outbox /\ projection' = projection
    BY <1>1 DEF Contract!Commit, Contract!contractVars
  <2>2. HeadsOf(s)' = HeadsOf(s)
    BY <1>1 DEF Contract!Commit, Contract!contractVars
  <2> QED
    BY <2>1, <2>2 DEF SettledProjection
<1>2. ASSUME NEW c \in Scopes, Contract!Consolidate(c)
      PROVE  projection'[s] = HeadsOf(s)'
  <2>1. HeadsOf(s)' = HeadsOf(s)
    BY <1>2 DEF Contract!Consolidate
  <2>2. projection' = [projection EXCEPT ![c] = HeadsOf(c)] /\ (s # c => s \notin outbox)
    BY <1>2 DEF Contract!Consolidate
  <2> QED
    BY <2>1, <2>2 DEF TypeOK, SettledProjection
<1> QED
  BY <1>1, <1>2 DEF Contract!Next

\* No commit that moves a head of a scope forgets to owe its consolidation.
THEOREM HeadChangesAreOwed == Spec => []SettledProjection
<1>1. Init => SettledProjection
  BY DEF Init, SettledProjection, HeadsOf
<1>2. TypeOK /\ SettledProjection /\ [Next]_vars => SettledProjection'
  BY ContractStep, SettledStep
<1> QED
  BY <1>1, <1>2, TypeCorrect, PTL DEF Spec

-----------------------------------------------------------------------------
(* Contradiction *)

Asserted(m) == IF m.polarity = "AVOID" THEN "failure" ELSE "success"

\* What a rule was promoted from stays true of it, in whatever space its
\* support is by now.
PromotionsStand ==
  \A m \in EverPromoted :
    /\ m.support # {}
    /\ m.support \subseteq Recorded
    /\ Cardinality(ProducersOf(m.support)) >= MinProducers[m.scope]
    /\ \A e \in m.support :
         e.scope = m.scope /\ e.rule = m.rule /\ e.verdict = Asserted(m)

\* Nothing stops a worker with the registry g, of the space of rule m, from
\* striking it.
Strikable(m, g) ==
  /\ m.support \subseteq heads
  /\ Opposing(m) # {}
  /\ \A e \in Evidence(m.scope, m.rule) :
       space[e] = m.space /\ e.producer \in g /\ ~ (e.observed + MaxAge < now)

\* A rule that its scope's latest worker could have struck, in a scope that owes
\* nothing, is of another space than that worker's.
Stranded ==
  \A m \in active :
    m.scope \notin outbox /\ Strikable(m, judgedBy[m.scope].registry)
      => judgedBy[m.scope].space # m.space

\* A rule the governor qualifies has what PromotionsStand says.
LEMMA QualifiedStands ==
  ASSUME HeadInv, NEW sc \in Scopes, NEW sp \in Spaces, NEW g,
         NEW c \in Judged(sc, sp, g), Qualifies(c)
  PROVE  /\ c.scope = sc /\ c.space = sp /\ c.support = Evidence(sc, c.rule)
         /\ c.support # {} /\ c.support \subseteq Recorded
         /\ Cardinality(ProducersOf(c.support)) >= MinProducers[c.scope]
         /\ \A e \in c.support :
              e.scope = c.scope /\ e.rule = c.rule /\ e.verdict = Asserted(c)
              /\ space[e] = c.space
<1>1. TypeOK /\ c \in Candidates(sc, sp) /\ ~ Inadmissible(c, g)
  BY DEF HeadInv, Judged
<1>2. c.scope = sc /\ c.space = sp /\ c.support = Evidence(sc, c.rule) /\ c.support # {}
  BY <1>1, CandidateType
<1>3. c.support \subseteq Recorded
  BY <1>2 DEF Evidence, HeadsOf, HeadInv, HeadsRecorded
<1>4. /\ Cardinality(ProducersOf(c.support)) >= MinProducers[c.scope]
      /\ \A e \in c.support : e.verdict = Asserted(c)
  BY <1>1, QualifiedIsUnanimous DEF Asserted
<1>5. \A e \in c.support : e.scope = c.scope /\ e.rule = c.rule /\ space[e] = c.space
  BY <1>1, QualifiedIsCurrent
<1> QED
  BY <1>2, <1>3, <1>4, <1>5

\* No commit forgets an episode, its space, or a rule that was ever promoted.
LEMMA HistoryGrows ==
  ASSUME HeadInv, [Next]_vars
  PROVE  /\ Recorded \subseteq Recorded'
         /\ \A r \in Recorded : space'[r] = space[r]
         /\ EverPromoted \subseteq EverPromoted'
         /\ revoked \subseteq revoked'
<1>1. Recorded \subseteq Recorded' /\ \A r \in Recorded : space'[r] = space[r]
  <2>1. ASSUME NEW r \in Receipts, NEW sp \in Spaces, NEW target, NEW kept,
               r \notin Recorded, Save(r, sp, target, kept)
        PROVE  \A e \in Recorded : e \in Recorded' /\ space'[e] = space[e]
    BY <2>1 DEF Save, Recorded, HeadInv, TypeOK
  <2>2. ASSUME NEW gone, Withdraw(gone) PROVE space' = space
    BY <2>2 DEF Withdraw
  <2>3. CASE UNCHANGED episodeVars
    BY <2>3 DEF episodeVars, Recorded
  <2>4. ASSUME space' = space PROVE Recorded' = Recorded
    BY <2>4 DEF Recorded
  <2> QED
    BY <2>1, <2>2, <2>3, <2>4, StepShape DEF HeadInv
<1>2. ASSUME NEW r, NEW sp, NEW target, NEW kept, Save(r, sp, target, kept)
      PROVE  EverPromoted' = EverPromoted /\ revoked \subseteq revoked'
  BY <1>2 DEF Save, Unsupported, EverPromoted
<1>3. ASSUME NEW gone, Withdraw(gone)
      PROVE  EverPromoted' = EverPromoted /\ revoked \subseteq revoked'
  BY <1>3 DEF Withdraw, SupportedBy, EverPromoted
<1>4. ASSUME NEW sc, NEW sp, NEW g, NEW done, Consolidate(sc, sp, g, done)
      PROVE  EverPromoted \subseteq EverPromoted' /\ revoked \subseteq revoked'
  BY <1>4 DEF Consolidate, EverPromoted
<1>5. ASSUME Tick \/ UNCHANGED vars
      PROVE  EverPromoted' = EverPromoted /\ revoked' = revoked
  BY <1>5 DEF Tick, vars, ruleVars, EverPromoted
<1>6. EverPromoted \subseteq EverPromoted' /\ revoked \subseteq revoked'
  BY <1>2, <1>3, <1>4, <1>5 DEF Next, Serve, Record, Supersede, Revoke, RetireUntrusted
<1> QED
  BY <1>1, <1>6

\* A commit promotes only what it finds standing.
LEMMA PromotionsStandStep == HeadInv /\ PromotionsStand /\ [Next]_vars => PromotionsStand'
<1> SUFFICES ASSUME HeadInv, PromotionsStand, [Next]_vars PROVE PromotionsStand'
  OBVIOUS
<1>1. Recorded \subseteq Recorded'
  BY HistoryGrows
<1>2. ASSUME EverPromoted' \subseteq EverPromoted PROVE PromotionsStand'
  BY <1>1, <1>2 DEF PromotionsStand, ProducersOf, Asserted
<1>3. ASSUME NEW r, NEW sp, NEW target, NEW kept, Save(r, sp, target, kept)
      PROVE  EverPromoted' = EverPromoted
  BY <1>3 DEF Save, Unsupported, EverPromoted
<1>4. ASSUME NEW gone, Withdraw(gone) PROVE EverPromoted' = EverPromoted
  BY <1>4 DEF Withdraw, SupportedBy, EverPromoted
<1>5. ASSUME NEW sc \in Scopes, NEW sp \in Spaces, NEW g, NEW done \in BOOLEAN,
             Consolidate(sc, sp, g, done)
      PROVE  PromotionsStand'
  <2>1. EverPromoted' \subseteq EverPromoted \cup {c \in Judged(sc, sp, g) : Qualifies(c)}
    BY <1>5 DEF Consolidate, EverPromoted, Struck, Displaced
  <2>2. ASSUME NEW m \in EverPromoted'
        PROVE  /\ m.support # {}
               /\ m.support \subseteq Recorded
               /\ Cardinality(ProducersOf(m.support)) >= MinProducers[m.scope]
               /\ \A e \in m.support :
                    e.scope = m.scope /\ e.rule = m.rule /\ e.verdict = Asserted(m)
    BY <2>1, QualifiedStands DEF PromotionsStand
  <2> QED
    BY <1>1, <2>2 DEF PromotionsStand, ProducersOf, Asserted
<1>6. CASE Tick \/ UNCHANGED vars
  BY <1>2, <1>6 DEF Tick, vars, ruleVars, EverPromoted
<1> QED
  BY <1>2, <1>3, <1>4, <1>5, <1>6
     DEF Next, Serve, Record, Supersede, Revoke, RetireUntrusted

\* More evidence never has fewer producers.
LEMMA ProducersGrow ==
  ASSUME NEW small, NEW large, small \subseteq large, NEW n \in Nat,
         Cardinality(ProducersOf(small)) >= n
  PROVE  Cardinality(ProducersOf(large)) >= n
<1>1. ProducersOf(small) \subseteq ProducersOf(large) /\ ProducersOf(large) \subseteq Producers
  BY DEF ProducersOf
<1>2. IsFiniteSet(ProducersOf(large))
  BY <1>1, FS_Subset, NamesAssumption
<1>3. /\ Cardinality(ProducersOf(small)) <= Cardinality(ProducersOf(large))
      /\ Cardinality(ProducersOf(small)) \in Nat /\ Cardinality(ProducersOf(large)) \in Nat
  BY <1>1, <1>2, FS_Subset, FS_CardinalityType
<1> QED
  BY <1>3

\* A worker of a rule's own space that finds it strikable strikes it.
LEMMA StrikableIsStruck ==
  ASSUME HeadInv, PromotionsStand, NEW sc \in Scopes, NEW sp \in Spaces, NEW g,
         NEW live \in SUBSET active, NEW m \in live,
         m.scope = sc, m.space = sp, Strikable(m, g)
  PROVE  m \in Struck(live, Judged(sc, sp, g))
<1> DEFINE evidence == Evidence(sc, m.rule)
           c == Candidate(sc, m.rule, sp)
<1>1. /\ TypeOK /\ WithdrawnIsHistory /\ m \in MemoryIds /\ m \in EverPromoted
      /\ heads \subseteq Receipts
  BY DEF HeadInv, TypeOK, EverPromoted
<1>2. PICK h \in Opposing(m) : TRUE
  BY DEF Strikable
<1>3. PICK s \in m.support : TRUE
  BY <1>1 DEF PromotionsStand
<1>4. m.support \subseteq evidence
  <2>1. ASSUME NEW e \in m.support PROVE e \in evidence
    BY <1>1, <2>1 DEF Strikable, PromotionsStand, Asserted, Evidence, HeadsOf
  <2> QED
    BY <2>1
<1>5. /\ c.scope = sc /\ c.rule = m.rule /\ c.space = sp /\ c.support = evidence
      /\ c \in Candidates(sc, sp)
  BY <1>1, <1>3, <1>4 DEF Candidate, Candidates, MemoryIds
<1>6. h \in evidence /\ s \in evidence /\ evidence \subseteq heads
      /\ {h.verdict, s.verdict} = {"success", "failure"}
  <2>1. h \in evidence /\ s \in evidence /\ evidence \subseteq heads
    BY <1>2, <1>3, <1>4 DEF Opposing, Evidence, HeadsOf
  <2>2. h.verdict \in {"success", "failure"} /\ h.verdict # Asserted(m)
    BY <1>1, <1>2, ReceiptsAssumption
       DEF Opposing, Asserted, Evidence, HeadsOf, Verdicts
  <2>3. s.verdict = Asserted(m)
    BY <1>1, <1>3 DEF PromotionsStand
  <2> QED
    BY <2>1, <2>2, <2>3 DEF Asserted
<1>7. Contradicted(c)
  BY <1>5, <1>6 DEF Contradicted, Succeeded, Failed
<1>8. c \notin EverPromoted
  BY <1>5, <1>6 DEF PromotionsStand, Asserted
<1>9. ~ Inadmissible(c, g)
  <2>1. ~ SpansSpaces(c) /\ ~ RestsOnStale(c)
    BY <1>5 DEF Strikable, SpansSpaces, RestsOnStale
  <2>2. ~ RestsOnSuperseded(c)
    BY <1>1, <1>5, <1>6 DEF RestsOnSuperseded, HeadsOf, WithdrawnIsHistory
  <2>3. ~ RestsOnUntrusted(c, g)
    BY <1>5 DEF RestsOnUntrusted, ProducersOf, Strikable
  <2>4. ~ TooFewProducers(c)
    <3>1. MinProducers[sc] \in Nat
      BY NumbersAssumption
    <3>2. Cardinality(ProducersOf(m.support)) >= MinProducers[sc]
      BY <1>1 DEF PromotionsStand
    <3>3. Cardinality(ProducersOf(evidence)) >= MinProducers[sc]
      BY <1>4, <3>1, <3>2, ProducersGrow
    <3>4. Cardinality(ProducersOf(evidence)) \in Nat
      <4>1. ProducersOf(evidence) \subseteq Producers
        BY DEF ProducersOf
      <4> QED
        BY <4>1, FS_Subset, FS_CardinalityType, NamesAssumption
    <3> QED
      BY <1>5, <3>1, <3>3, <3>4 DEF TooFewProducers
  <2> QED
    BY <2>1, <2>2, <2>3, <2>4 DEF Inadmissible
<1>10. c \in Judged(sc, sp, g) /\ SameSlot(m, c)
  BY <1>5, <1>8, <1>9 DEF Judged, SameSlot
<1> QED
  BY <1>7, <1>10 DEF Struck

\* What a save does to heads, obligations and rules.
LEMMA SavedShape ==
  ASSUME HeadInv, NEW r \in Receipts, r \notin Recorded, NEW sp \in Spaces, NEW target,
         NEW kept \in SUBSET heads, kept = heads \/ IsNewest(r),
         \A h \in heads \ kept : h.scope = r.scope, Save(r, sp, target, kept)
  PROVE  /\ r \notin heads
         /\ heads' \subseteq heads \cup {r}
         /\ \A h \in (heads \ heads') \cup (heads' \ heads) : h.scope = r.scope
         /\ heads' # heads => r.scope \in outbox'
         /\ outbox \subseteq outbox'
         /\ r \in Recorded'
         /\ \A e \in Receipts : e # r => space'[e] = space[e]
         /\ space'[r] = sp
         /\ active' = active \ Unsupported(r.scope, heads', space', sp)
         /\ revoked' = revoked \cup Unsupported(r.scope, heads', space', sp)
         /\ UNCHANGED <<now, judgedBy>>
<1> USE DEF Save
<1>1. TypeOK /\ HeadsRecorded
  BY DEF HeadInv
<1>2. heads' = HeadsAfter(r, kept)
  OBVIOUS
<1>3. heads' \subseteq kept \cup {r} /\ r \notin heads
  BY <1>1, <1>2, HeadsAfterSave DEF HeadsRecorded
<1>4. ~ IsNewest(r) => heads' = heads
  BY <1>2 DEF HeadsAfter
<1>5. IsNewest(r) => r.scope \in outbox'
  OBVIOUS
<1>6. \A h \in kept \ heads' : h.scope = r.scope
  BY <1>1, <1>2, HeadsAfterSave DEF Key
<1>7. r \in Recorded' /\ (\A e \in Receipts : e # r => space'[e] = space[e])
      /\ space'[r] = sp
  BY <1>1, NamesAssumption DEF Recorded, TypeOK
<1>8. UNCHANGED <<now, judgedBy>> /\ outbox \subseteq outbox'
  OBVIOUS
<1> QED
  BY <1>3, <1>4, <1>5, <1>6, <1>7, <1>8

\* The evidence of another scope than the one that was saved to or withdrawn from.
LEMMA EvidenceElsewhere ==
  ASSUME NEW sc, NEW rule,
         \A h \in (heads \ heads') \cup (heads' \ heads) : h.scope # sc
  PROVE  Evidence(sc, rule)' = Evidence(sc, rule) /\ HeadsOf(sc)' = HeadsOf(sc)
  BY DEF Evidence, HeadsOf

\* A rule whose scope's heads did not move is no more strikable than it was.
LEMMA StrikableBefore ==
  ASSUME HeadInv, PromotionsStand, NEW m \in active, NEW g,
         HeadsOf(m.scope)' = HeadsOf(m.scope),
         \A h \in HeadsOf(m.scope) : space'[h] = space[h],
         now' \in {now, now + 1}, Strikable(m, g)'
  PROVE  Strikable(m, g)
<1>1. Evidence(m.scope, m.rule)' = Evidence(m.scope, m.rule)
  BY DEF Evidence
<1>2. Opposing(m)' = Opposing(m)
  BY <1>1 DEF Opposing
<1>3. m.support \subseteq heads
  BY DEF Strikable, PromotionsStand, EverPromoted, HeadsOf
<1>4. \A e \in Evidence(m.scope, m.rule) :
        e \in HeadsOf(m.scope) /\ e.observed \in Nat
  BY ReceiptsAssumption DEF Evidence, HeadsOf, HeadInv, TypeOK
<1>5. now \in Nat /\ MaxAge \in Nat
  BY NumbersAssumption DEF HeadInv, TypeOK
<1>6. ASSUME NEW e \in Evidence(m.scope, m.rule)
      PROVE  space[e] = m.space /\ e.producer \in g /\ ~ (e.observed + MaxAge < now)
  <2>1. space[e] = m.space /\ e.producer \in g /\ ~ (e.observed + MaxAge < now')
    BY <1>1, <1>4, <1>6 DEF Strikable
  <2> QED
    BY <1>4, <1>5, <1>6, <2>1
<1> QED
  BY <1>2, <1>3, <1>6 DEF Strikable

\* A scope whose heads no commit moved since its latest consolidation strands no
\* other rule than that consolidation did.
LEMMA StrandedStep ==
  ASSUME HeadInv, PromotionsStand, Stranded, [Next]_vars
  PROVE  Stranded'
<1>1. ASSUME NEW m \in active, m.scope \notin outbox, Strikable(m, judgedBy[m.scope].registry)',
             HeadsOf(m.scope)' = HeadsOf(m.scope),
             \A h \in HeadsOf(m.scope) : space'[h] = space[h],
             judgedBy'[m.scope] = judgedBy[m.scope], now' \in {now, now + 1}
      PROVE  judgedBy'[m.scope].space # m.space
  <2>1. PICK g : g = judgedBy[m.scope].registry
    OBVIOUS
  <2>2. Strikable(m, g)'
    BY <1>1, <2>1
  <2>3. Strikable(m, g)
    BY <1>1, <2>2, StrikableBefore
  <2> QED
    BY <1>1, <2>1, <2>3 DEF Stranded
<1>2. heads \subseteq Recorded /\ heads \subseteq Receipts
  BY DEF HeadInv, HeadsRecorded, TypeOK
<1>3. ASSUME NEW r \in Receipts, NEW sp \in Spaces, NEW target, NEW kept \in SUBSET heads,
             r \notin Recorded, kept = heads \/ IsNewest(r),
             \A h \in heads \ kept : h.scope = r.scope, Save(r, sp, target, kept)
      PROVE  Stranded'
  <2>1. /\ r \notin heads /\ outbox \subseteq outbox'
        /\ \A h \in (heads \ heads') \cup (heads' \ heads) : h.scope = r.scope
        /\ heads' # heads => r.scope \in outbox'
        /\ \A e \in Receipts : e # r => space'[e] = space[e]
        /\ UNCHANGED <<now, judgedBy>> /\ active' \subseteq active
    BY <1>3, SavedShape
  <2>2. ASSUME NEW m \in active', m.scope \notin outbox',
               Strikable(m, judgedBy[m.scope].registry)'
        PROVE  judgedBy'[m.scope].space # m.space
    <3>1. \A h \in (heads \ heads') \cup (heads' \ heads) : h.scope # m.scope
      BY <2>1, <2>2
    <3>2. HeadsOf(m.scope)' = HeadsOf(m.scope)
      BY <3>1, EvidenceElsewhere
    <3>3. \A h \in HeadsOf(m.scope) : space'[h] = space[h]
      BY <1>2, <2>1 DEF HeadsOf
    <3> QED
      BY <1>1, <2>1, <2>2, <3>2, <3>3
  <2> QED
    BY <2>2 DEF Stranded
<1>4. ASSUME NEW gone \in SUBSET heads, Withdraw(gone) PROVE Stranded'
  <2>1. /\ heads' = heads \ gone /\ outbox' = outbox \cup Owed(gone)
        /\ active' \subseteq active /\ UNCHANGED <<now, space, judgedBy>>
    BY <1>4 DEF Withdraw
  <2>2. ASSUME NEW m \in active', m.scope \notin outbox',
               Strikable(m, judgedBy[m.scope].registry)'
        PROVE  judgedBy'[m.scope].space # m.space
    <3>1. \A h \in gone : h.scope # m.scope
      BY <2>1, <2>2 DEF Owed
    <3>2. HeadsOf(m.scope)' = HeadsOf(m.scope)
      BY <2>1, <3>1 DEF HeadsOf
    <3> QED
      BY <1>1, <2>1, <2>2, <3>2
  <2> QED
    BY <2>2 DEF Stranded
<1>5. ASSUME NEW sc \in Scopes, NEW sp \in Spaces, NEW g, NEW done,
             Consolidate(sc, sp, g, done)
      PROVE  Stranded'
  <2> DEFINE lapsed == {m \in active : m.scope = sc /\ ExpiredBy(m, now)}
             live == active \ lapsed
             judged == Judged(sc, sp, g)
             struck == Struck(live, judged)
             promoted == {c \in judged : Qualifies(c) /\ NotLate(c, live)}
             displaced == Displaced(live, promoted)
  <2>1. /\ active' = (live \ (struck \cup displaced)) \cup promoted
        /\ outbox \ {sc} \subseteq outbox'
        /\ judgedBy' = [judgedBy EXCEPT ![sc] = [registry |-> g, space |-> sp]]
        /\ UNCHANGED <<now, heads, space>>
    BY <1>5 DEF Consolidate, episodeVars
  <2>2. ASSUME NEW c \in promoted
        PROVE  /\ c.scope = sc /\ c.support = Evidence(sc, c.rule)
               /\ \A e \in c.support : e.verdict = Asserted(c)
    BY QualifiedStands
  <2>3. judgedBy'[sc].registry = g /\ judgedBy'[sc].space = sp
        /\ \A s \in Scopes : s # sc => judgedBy'[s] = judgedBy[s]
    BY <2>1 DEF HeadInv, TypeOK
  <2> HIDE DEF struck, displaced, promoted
  <2>4. ASSUME NEW m \in active', m.scope \notin outbox', NEW h,
               h = judgedBy'[m.scope].registry, Strikable(m, h)'
        PROVE  judgedBy'[m.scope].space # m.space
    <3>1. Strikable(m, h)
      BY <2>1, <2>4 DEF Strikable, Opposing, Evidence, HeadsOf
    <3>2. m \notin promoted
      <4>1. Opposing(m) # {}
        BY <3>1 DEF Strikable
      <4> QED
        BY <2>2, <4>1 DEF Opposing, Asserted
    <3>3. m \in live /\ m \notin struck
      BY <2>1, <2>4, <3>2
    <3>4. CASE m.scope = sc
      BY <2>3, <2>4, <3>1, <3>3, <3>4, StrikableIsStruck DEF struck
    <3>5. CASE m.scope # sc
      <4>1. m \in active /\ m.scope \in Scopes /\ m.scope \notin outbox
        BY <2>1, <2>4, <3>3, <3>5 DEF HeadInv, TypeOK, MemoryIds
      <4> QED
        BY <2>3, <2>4, <3>1, <3>5, <4>1 DEF Stranded
    <3> QED
      BY <3>4, <3>5
  <2> QED
    BY <2>4 DEF Stranded
<1>6. CASE Tick \/ UNCHANGED vars
  <2>1. /\ UNCHANGED <<heads, space, active, outbox, judgedBy>>
        /\ now' \in {now, now + 1}
    BY <1>6 DEF Tick, vars, episodeVars, ruleVars
  <2>2. ASSUME NEW m \in active', m.scope \notin outbox',
               Strikable(m, judgedBy[m.scope].registry)'
        PROVE  judgedBy'[m.scope].space # m.space
    BY <1>1, <2>1, <2>2 DEF HeadsOf
  <2> QED
    BY <2>2 DEF Stranded
<1>7. ASSUME NEW r \in Receipts, NEW sp \in Spaces, NEW g, Record(r, sp, g) PROVE Stranded'
  BY <1>3, <1>7 DEF Record, Recordable
<1>8. ASSUME NEW r \in Receipts, NEW t \in Receipts, NEW sp \in Spaces, NEW g,
             Supersede(r, t, sp, g)
      PROVE  Stranded'
  BY <1>3, <1>8 DEF Supersede, Recordable, MaySupersede
<1> QED
  BY <1>4, <1>5, <1>6, <1>7, <1>8 DEF Next, Serve, Revoke, RetireUntrusted

LEMMA StrandedInvariant == Spec => [](PromotionsStand /\ Stranded)
<1>1. Init => PromotionsStand /\ Stranded
  BY DEF Init, PromotionsStand, EverPromoted, Stranded
<1>2. HeadInv /\ PromotionsStand /\ Stranded /\ [Next]_vars => PromotionsStand' /\ Stranded'
  BY PromotionsStandStep, StrandedStep
<1> QED
  BY <1>1, <1>2, HeadInvariant, PTL DEF Spec

OneSpace == \A sp, sq \in Spaces : sp = sq

\* In a deployment of one embedding space, a rule whose scope owes no consolidation
\* never stands against fresh evidence of producers that its worker knows.
THEOREM ContradictionRevokes ==
  ASSUME OneSpace PROVE Spec => []FreshContradictionRevokes
<1>1. HeadInv /\ RuleInv /\ Stranded => FreshContradictionRevokes
  <2> SUFFICES ASSUME HeadInv, RuleInv, Stranded, NEW m \in active, m.scope \notin outbox,
                      Opposing(m) # {},
                      \A e \in Evidence(m.scope, m.rule) :
                        /\ ~ (e.observed + MaxAge < now)
                        /\ e.producer \in judgedBy[m.scope].registry
               PROVE  FALSE
    BY DEF FreshContradictionRevokes
  <2>1. m.scope \in Scopes /\ m.space \in Spaces
    BY DEF HeadInv, TypeOK, MemoryIds
  <2>2. \A h \in heads : space[h] = m.space
    BY <2>1 DEF OneSpace, HeadInv, HeadsRecorded, Recorded, TypeOK
  <2>3. Strikable(m, judgedBy[m.scope].registry)
    BY <2>2 DEF Strikable, RuleInv, SupportIsCurrent, Evidence, HeadsOf
  <2>4. judgedBy[m.scope] # Nobody
    BY DEF Nobody, Opposing
  <2>5. judgedBy[m.scope].space = m.space
    BY <2>1, <2>4 DEF OneSpace, HeadInv, TypeOK, Judges
  <2> QED
    BY <2>3, <2>5 DEF Stranded
<1> QED
  BY <1>1, HeadInvariant, RuleInvariant, StrandedInvariant, PTL

-----------------------------------------------------------------------------
(* Consolidation settles a scope, and nothing unsettles it unseen *)

\* A bounded set of naturals has the maximum that Max chooses.
LEMMA MaximumExists ==
  ASSUME NEW S \in SUBSET Nat, S # {}, NEW b \in Nat, \A x \in S : x <= b
  PROVE  Max(S) \in S /\ \A y \in S : y <= Max(S)
<1> DEFINE below == {b - x : x \in S}
           less == OpToRel(<, Nat)
<1>1. below \subseteq Nat /\ below # {}
  <2>1. \A x \in S : b - x \in Nat
    OBVIOUS
  <2> QED
    BY <2>1
<1>2. PICK d \in below : \A e \in below : ~ (<<e, d>> \in less)
  BY <1>1, NatLessThanWellFounded, WFMin
<1>3. \A e \in below : ~ (e < d)
  BY <1>1, <1>2 DEF OpToRel
<1>4. PICK m \in S : d = b - m
  OBVIOUS
<1>5. \A y \in S : m >= y
  <2>1. ASSUME NEW y \in S PROVE m >= y
    <3>1. b - y \in below
      OBVIOUS
    <3>2. ~ (b - y < b - m)
      BY <1>3, <1>4, <3>1
    <3> QED
      BY <3>2
  <2> QED
    BY <2>1
<1>6. Max(S) \in S /\ \A y \in S : Max(S) >= y
  BY <1>5 DEF Max
<1> QED
  BY <1>6

\* What is recorded was observed by now.
ObservedInTime == \A r \in Recorded : r.observed <= now + FutureSkew

LEMMA ObservedInTimeStep == HeadInv /\ ObservedInTime /\ [Next]_vars => ObservedInTime'
<1> SUFFICES ASSUME HeadInv, ObservedInTime, [Next]_vars PROVE ObservedInTime'
  OBVIOUS
<1>1. ASSUME NEW r \in Receipts, NEW sp \in Spaces, NEW g, NEW target, NEW kept,
             Recordable(r, g), Save(r, sp, target, kept)
      PROVE  ObservedInTime'
  <2>1. Recorded' \subseteq Recorded \cup {r} /\ now' = now
    BY <1>1 DEF Save, Recorded, HeadInv, TypeOK
  <2> QED
    BY <1>1, <2>1 DEF ObservedInTime, Recordable
<1>2. CASE Tick
  <2>1. now \in Nat /\ now' = now + 1 /\ Recorded' = Recorded /\ Recorded \subseteq Receipts
    BY <1>2, NumbersAssumption DEF Tick, episodeVars, Recorded, HeadInv, TypeOK
  <2> QED
    BY <2>1, ReceiptsAssumption, NumbersAssumption DEF ObservedInTime
<1>3. ASSUME \/ \E gone : Withdraw(gone)
             \/ \E sc, sp, g, done : Consolidate(sc, sp, g, done)
             \/ UNCHANGED vars
      PROVE  ObservedInTime'
  <2>1. UNCHANGED <<now, space>>
    BY <1>3 DEF Withdraw, Consolidate, episodeVars, vars
  <2> QED
    BY <2>1 DEF ObservedInTime, Recorded
<1> QED
  BY <1>1, <1>2, <1>3 DEF Next, Serve, Record, Supersede, Revoke, RetireUntrusted

\* The latest observation among recorded evidence is one of its observations.
LEMMA LatestObservation ==
  ASSUME HeadInv, ObservedInTime, NEW m, m.support # {}, m.support \subseteq Recorded
  PROVE  /\ ObservedTo(m) \in Nat
         /\ \E e \in m.support : ObservedTo(m) = e.observed
         /\ \A e \in m.support : e.observed <= ObservedTo(m)
<1> DEFINE times == {e.observed : e \in m.support}
<1>1. times \in SUBSET Nat /\ times # {}
  BY ReceiptsAssumption DEF Recorded
<1>2. now + FutureSkew \in Nat /\ \A x \in times : x <= now + FutureSkew
  BY NumbersAssumption DEF HeadInv, TypeOK, ObservedInTime
<1>3. Max(times) \in times /\ \A x \in times : x <= Max(times)
  BY <1>1, <1>2, MaximumExists
<1> QED
  BY <1>1, <1>3 DEF ObservedTo

\* An active rule rests on current evidence, the latest of which has a time.
LEMMA ActiveRests ==
  ASSUME HeadInv, RuleInv, ObservedInTime, NEW m \in active
  PROVE  /\ m.support \subseteq Evidence(m.scope, m.rule)
         /\ m.support \subseteq heads /\ heads \subseteq Recorded
         /\ \A e \in m.support : e \in Receipts /\ e.scope = m.scope /\ space[e] = m.space
         /\ ObservedTo(m) \in Nat
<1>1. heads \subseteq Recorded /\ heads \subseteq Receipts
  BY DEF HeadInv, TypeOK, HeadsRecorded
<1>2. /\ m.support # {} /\ m.support \subseteq heads
      /\ \A e \in m.support :
           e.scope = m.scope /\ e.rule = m.rule /\ space[e] = m.space /\ e.verdict # "neutral"
  BY DEF RuleInv, SupportIsCurrent, Unanimous
<1>3. ObservedTo(m) \in Nat
  BY <1>1, <1>2, LatestObservation
<1> QED
  BY <1>1, <1>2, <1>3 DEF Evidence, HeadsOf

\* The candidates of a scope whose evidence did not move are judged no more often.
LEMMA JudgedShrinks ==
  ASSUME HeadInv, NEW sc \in Scopes, NEW sp \in Spaces, NEW g, HeadsOf(sc)' = HeadsOf(sc),
         \A h \in HeadsOf(sc) : space'[h] = space[h] /\ supersedes'[h] = supersedes[h],
         now' \in {now, now + 1}, EverPromoted \subseteq EverPromoted'
  PROVE  /\ Candidates(sc, sp)' = Candidates(sc, sp)
         /\ Judged(sc, sp, g)' \subseteq Judged(sc, sp, g)
<1>1. \A rule : Evidence(sc, rule)' = Evidence(sc, rule)
  BY DEF Evidence
<1>2. \A rule : Candidate(sc, rule, sp)' = Candidate(sc, rule, sp)
  BY <1>1 DEF Candidate, ProducersOf, Failed, Succeeded
<1>3. Candidates(sc, sp)' = Candidates(sc, sp)
  BY <1>1, <1>2 DEF Candidates
<1>4. ASSUME NEW c \in Candidates(sc, sp), Inadmissible(c, g) PROVE Inadmissible(c, g)'
  <2>1. c.scope = sc /\ c.support \subseteq HeadsOf(sc) /\ c.support \subseteq Receipts
        /\ now \in Nat
    BY CandidateType DEF HeadInv, TypeOK, Evidence, HeadsOf
  <2>2. SpansSpaces(c) => SpansSpaces(c)'
    BY <2>1 DEF SpansSpaces
  <2>3. RestsOnSuperseded(c) => RestsOnSuperseded(c)'
    BY <2>1 DEF RestsOnSuperseded
  <2>4. /\ RestsOnUntrusted(c, g) => RestsOnUntrusted(c, g)'
        /\ TooFewProducers(c) => TooFewProducers(c)'
    BY DEF RestsOnUntrusted, TooFewProducers, ProducersOf
  <2>5. RestsOnStale(c) => RestsOnStale(c)'
    BY <2>1, ReceiptsAssumption, NumbersAssumption DEF RestsOnStale
  <2> QED
    BY <1>4, <2>2, <2>3, <2>4, <2>5 DEF Inadmissible
<1> QED
  BY <1>3, <1>4 DEF Judged

\* Once a consolidation has committed, another one like it would change nothing.
LEMMA ConsolidationSettles ==
  ASSUME HeadInv, RuleInv, ObservedInTime, NEW sc \in Scopes, NEW sp \in Spaces, NEW g,
         NEW done, Consolidate(sc, sp, g, done)
  PROVE  SettledIn(sc, sp, g)'
<1> DEFINE lapsed == {m \in active : m.scope = sc /\ ExpiredBy(m, now)}
           live == active \ lapsed
           judged == Judged(sc, sp, g)
           struck == Struck(live, judged)
           promoted == {c \in judged : Qualifies(c) /\ NotLate(c, live)}
           displaced == Displaced(live, promoted)
<1>1. /\ active' = (live \ (struck \cup displaced)) \cup promoted
      /\ EverPromoted \cup promoted \subseteq EverPromoted'
      /\ UNCHANGED <<now, heads, space, supersedes>>
  BY DEF Consolidate, episodeVars, EverPromoted
<1>2. HeadsOf(sc)' = HeadsOf(sc)
  BY <1>1 DEF HeadsOf
<1>3. Judged(sc, sp, g)' \subseteq judged \ promoted
  <2>1. Judged(sc, sp, g)' \subseteq judged
    BY <1>1, <1>2, JudgedShrinks
  <2> QED
    BY <1>1, <2>1 DEF Judged
<1>4. \A c, d \in judged : c.rule = d.rule => c = d
  BY CandidateType DEF Judged, HeadInv
<1>5. \A c \in judged : c.support = Evidence(c.scope, c.rule)
  BY CandidateType DEF Judged, HeadInv
<1> HIDE DEF struck, displaced, promoted, judged
<1>6. ASSUME NEW c \in judged \ promoted, NEW m \in active', Contradicted(c), SameSlot(m, c)
      PROVE  FALSE
  <2>1. m \notin promoted
    BY <1>4, <1>6 DEF promoted, Qualifies, SameSlot
  <2>2. m \in live /\ m \notin struck
    BY <1>1, <1>6, <2>1
  <2> QED
    BY <1>6, <2>2 DEF struck, Struck
<1>7. ASSUME NEW c \in judged \ promoted, Qualifies(c)
      PROVE  \E m \in EverPromoted' : LateTo(c, m) /\ m \in active'
  <2>1. PICK m \in live : SameSlot(m, c) /\ ~ (ObservedTo(m) < ObservedTo(c))
    BY <1>7 DEF promoted, NotLate
  <2>2. m \notin struck /\ m \notin displaced
    BY <1>4, <1>7, <2>1 DEF struck, displaced, promoted, Struck, Displaced, SameSlot, Qualifies
  <2>3. m \in active' /\ m \in EverPromoted'
    BY <1>1, <2>1, <2>2 DEF EverPromoted
  <2>4. ObservedTo(m) \in Nat /\ m.support \subseteq c.support
    BY <1>5, <1>7, <2>1, ActiveRests DEF SameSlot
  <2>5. ObservedTo(c) \in Nat
    <3>1. c.support # {} /\ c.support \subseteq Recorded
      BY <1>7, QualifiedIsCurrent DEF judged, Judged, HeadInv, HeadsRecorded
    <3> QED
      BY <3>1, LatestObservation
  <2> QED
    BY <2>1, <2>3, <2>4, <2>5 DEF LateTo
<1>8. ASSUME NEW c \in judged \ promoted
      PROVE  /\ Contradicted(c) => \A m \in Unexpired' : ~ SameSlot(m, c)
             /\ Qualifies(c) => \E m \in EverPromoted' : LateTo(c, m) /\ m \in active'
  BY <1>6, <1>7 DEF Unexpired
<1> QED
  BY <1>3, <1>8 DEF SettledIn, Contradicted, Qualifies, Succeeded, Failed, Aligned,
       ProducersOf, SameSlot, LateTo, ObservedTo

\* What is settled stays so while no head of the scope moves and no rule of it goes
\* but to a save from another space, however long that lasts.
LEMMA SettledStays ==
  ASSUME HeadInv, RuleInv, ObservedInTime, [Next]_vars,
         NEW sc \in Scopes, NEW sp \in Spaces, NEW g, SettledIn(sc, sp, g),
         HeadsOf(sc)' = HeadsOf(sc),
         \A h \in HeadsOf(sc) : supersedes'[h] = supersedes[h],
         \A m \in active' : m.scope = sc => m \in active,
         \A m \in active : m.scope = sc => m \in active' \/ TakenFromAfar(m)',
         now' \in {now, now + 1}
  PROVE  SettledIn(sc, sp, g)'
<1>1. /\ now \in Nat /\ MaxAge \in Nat
      /\ Recorded \subseteq Recorded' /\ \A r \in Recorded : space'[r] = space[r]
      /\ EverPromoted \subseteq EverPromoted' /\ revoked \subseteq revoked'
  BY HistoryGrows, NumbersAssumption DEF HeadInv, TypeOK
<1>2. Judged(sc, sp, g)' \subseteq Judged(sc, sp, g)
  <2>1. \A h \in HeadsOf(sc) : space'[h] = space[h]
    BY <1>1 DEF HeadsOf, HeadInv, HeadsRecorded
  <2> QED
    BY <1>1, <2>1, JudgedShrinks
<1>3. \A c \in Judged(sc, sp, g) : c.scope = sc
  BY CandidateType DEF Judged, HeadInv
<1>4. \A m \in active : ExpiredBy(m, now) => ExpiredBy(m, now')
  BY <1>1, ActiveRests DEF ExpiredBy
<1>5. \A m : TakenFromAfar(m) => TakenFromAfar(m)'
  BY <1>1 DEF TakenFromAfar
<1>6. ASSUME NEW c \in Judged(sc, sp, g)', Contradicted(c), NEW m \in Unexpired',
             SameSlot(m, c)
      PROVE  FALSE
  <2>1. m \in active' /\ ~ ExpiredBy(m, now')
    BY DEF Unexpired, ExpiredBy, ObservedTo
  <2>2. m \in Unexpired
    BY <1>2, <1>3, <1>4, <1>6, <2>1 DEF Unexpired, SameSlot
  <2> QED
    BY <1>2, <1>6, <2>2 DEF SettledIn
<1>7. ASSUME NEW c \in Judged(sc, sp, g)', Qualifies(c)
      PROVE  \E m \in EverPromoted' : LateTo(c, m) /\ (m \in active' \/ TakenFromAfar(m)')
  <2>1. PICK m \in EverPromoted : LateTo(c, m) /\ (m \in active \/ TakenFromAfar(m))
    BY <1>2, <1>7 DEF SettledIn
  <2>2. m.scope = sc
    BY <1>2, <1>3, <1>7, <2>1 DEF LateTo, SameSlot
  <2> QED
    BY <1>1, <1>5, <2>1, <2>2
<1>8. ASSUME NEW c \in Judged(sc, sp, g)'
      PROVE  /\ Contradicted(c) => \A m \in Unexpired' : ~ SameSlot(m, c)
             /\ Qualifies(c) => \E m \in EverPromoted' :
                  LateTo(c, m) /\ (m \in active' \/ TakenFromAfar(m)')
  BY <1>6, <1>7
<1> QED
  BY <1>8 DEF SettledIn, Contradicted, Qualifies, Succeeded, Failed, Aligned,
       ProducersOf, SameSlot, LateTo, ObservedTo

OverlookedInv == ObservedInTime /\ NothingOverlooked

LEMMA OverlookedStep ==
  ASSUME HeadInv, RuleInv, OverlookedInv, [Next]_vars
  PROVE  OverlookedInv'
<1> USE DEF OverlookedInv
<1>1. ObservedInTime'
  BY ObservedInTimeStep
<1>2. heads \subseteq Receipts /\ heads \subseteq Recorded
  BY DEF HeadInv, TypeOK, HeadsRecorded
\* A scope whose latest consolidation is not this step.
<1>3. ASSUME NEW sc \in Scopes, sc \notin outbox, judgedBy'[sc] # Nobody,
             judgedBy'[sc] = judgedBy[sc], HeadsOf(sc)' = HeadsOf(sc),
             \A h \in HeadsOf(sc) : supersedes'[h] = supersedes[h],
             \A m \in active' : m.scope = sc => m \in active,
             \A m \in active : m.scope = sc => m \in active' \/ TakenFromAfar(m)',
             now' \in {now, now + 1}
      PROVE  SettledIn(sc, judgedBy[sc].space, judgedBy[sc].registry)'
  <2>1. PICK g \in GrantSets, sp \in Spaces : judgedBy[sc] = [registry |-> g, space |-> sp]
    BY <1>3 DEF HeadInv, TypeOK, Judges
  <2>2. SettledIn(sc, sp, g)
    BY <1>3, <2>1 DEF NothingOverlooked
  <2>3. SettledIn(sc, sp, g)'
    BY <1>3, <2>2, SettledStays
  <2> QED
    BY <1>3, <2>1, <2>3
<1>4. ASSUME NEW r \in Receipts, NEW sp \in Spaces, NEW target, NEW kept \in SUBSET heads,
             r \notin Recorded, kept = heads \/ IsNewest(r),
             \A h \in heads \ kept : h.scope = r.scope, Save(r, sp, target, kept)
      PROVE  NothingOverlooked'
  <2>1. /\ r \notin heads /\ outbox \subseteq outbox' /\ r \in Recorded'
        /\ \A h \in (heads \ heads') \cup (heads' \ heads) : h.scope = r.scope
        /\ heads' # heads => r.scope \in outbox'
        /\ \A e \in Receipts : e # r => space'[e] = space[e]
        /\ space'[r] = sp
        /\ active' = active \ Unsupported(r.scope, heads', space', sp)
        /\ revoked' = revoked \cup Unsupported(r.scope, heads', space', sp)
        /\ UNCHANGED <<now, judgedBy>>
    BY <1>4, SavedShape
  <2>2. \A e \in Receipts : e # r => supersedes'[e] = supersedes[e]
    BY <1>4 DEF Save, HeadInv, TypeOK
  <2>3. ASSUME NEW m \in active, m \notin active', m.scope \notin outbox'
        PROVE  TakenFromAfar(m)'
    <3>1. /\ m.scope = r.scope /\ m \in revoked' /\ heads' = heads
          /\ \E e \in m.support : e \notin heads' \/ space'[e] # sp
      BY <2>1, <2>3 DEF Unsupported
    <3>2. \A e \in m.support : e \in heads /\ e \in Receipts /\ space[e] = m.space
      BY ActiveRests
    <3>3. m.space # sp
      BY <2>1, <3>1, <3>2
    <3> QED
      BY <2>1, <3>1, <3>3 DEF TakenFromAfar
  <2>4. ASSUME NEW sc \in Scopes \ outbox', judgedBy'[sc] # Nobody
        PROVE  SettledIn(sc, judgedBy[sc].space, judgedBy[sc].registry)'
    <3>1. \A h \in (heads \ heads') \cup (heads' \ heads) : h.scope # sc
      BY <2>1
    <3>2. HeadsOf(sc)' = HeadsOf(sc)
      BY <3>1, EvidenceElsewhere
    <3>3. \A h \in HeadsOf(sc) : supersedes'[h] = supersedes[h]
      BY <1>2, <2>1, <2>2 DEF HeadsOf
    <3> QED
      BY <1>3, <2>1, <2>3, <2>4, <3>2, <3>3
  <2> QED
    BY <2>4 DEF NothingOverlooked
<1>5. ASSUME NEW r \in Receipts, NEW sp \in Spaces, NEW g, Record(r, sp, g)
      PROVE  NothingOverlooked'
  BY <1>4, <1>5 DEF Record, Recordable
<1>6. ASSUME NEW r \in Receipts, NEW t \in Receipts, NEW sp \in Spaces, NEW g,
             Supersede(r, t, sp, g)
      PROVE  NothingOverlooked'
  BY <1>4, <1>6 DEF Supersede, Recordable, MaySupersede
<1>7. ASSUME NEW gone \in SUBSET heads, Withdraw(gone) PROVE NothingOverlooked'
  <2>1. /\ heads' = heads \ gone /\ outbox' = outbox \cup Owed(gone)
        /\ active' = active \ SupportedBy(gone)
        /\ UNCHANGED <<now, space, supersedes, judgedBy>>
    BY <1>7 DEF Withdraw
  <2>2. ASSUME NEW sc \in Scopes \ outbox', judgedBy'[sc] # Nobody
        PROVE  SettledIn(sc, judgedBy[sc].space, judgedBy[sc].registry)'
    <3>1. \A h \in gone : h.scope # sc
      BY <2>1 DEF Owed
    <3>2. HeadsOf(sc)' = HeadsOf(sc)
      BY <2>1, <3>1 DEF HeadsOf
    <3>3. \A m \in active : m.scope = sc => m \in active'
      BY <2>1, <3>1 DEF SupportedBy, RuleInv, SupportIsCurrent
    <3> QED
      BY <1>3, <2>1, <2>2, <3>2, <3>3
  <2> QED
    BY <2>2 DEF NothingOverlooked
<1>8. ASSUME NEW sc \in Scopes, NEW sp \in Spaces, NEW g \in GrantSets, NEW done,
             Consolidate(sc, sp, g, done)
      PROVE  NothingOverlooked'
  <2>1. /\ outbox \ {sc} \subseteq outbox'
        /\ judgedBy' = [judgedBy EXCEPT ![sc] = [registry |-> g, space |-> sp]]
        /\ UNCHANGED <<now, heads, space, supersedes>>
    BY <1>8 DEF Consolidate, episodeVars
  <2>2. \A m : m.scope # sc => (m \in active <=> m \in active')
    <3>1. \A c \in Judged(sc, sp, g) : c.scope = sc
      BY CandidateType DEF Judged, HeadInv
    <3> QED
      BY <1>8, <3>1 DEF Consolidate, Struck, Displaced, SameSlot
  <2>3. judgedBy'[sc] = [registry |-> g, space |-> sp]
        /\ \A s \in Scopes : s # sc => judgedBy'[s] = judgedBy[s]
    BY <2>1 DEF HeadInv, TypeOK
  <2>4. ASSUME NEW sd \in Scopes \ outbox', judgedBy'[sd] # Nobody
        PROVE  SettledIn(sd, judgedBy[sd].space, judgedBy[sd].registry)'
    <3>1. CASE sd = sc
      <4>1. SettledIn(sc, sp, g)'
        BY <1>8, ConsolidationSettles
      <4> QED
        BY <2>3, <3>1, <4>1
    <3>2. CASE sd # sc
      BY <1>3, <2>1, <2>2, <2>3, <2>4, <3>2 DEF HeadsOf
    <3> QED
      BY <3>1, <3>2
  <2> QED
    BY <2>4 DEF NothingOverlooked
<1>9. CASE Tick \/ UNCHANGED vars
  <2>1. /\ UNCHANGED <<heads, space, supersedes, active, outbox, judgedBy>>
        /\ now' \in {now, now + 1}
    BY <1>9 DEF Tick, vars, episodeVars, ruleVars
  <2>2. ASSUME NEW sc \in Scopes \ outbox', judgedBy'[sc] # Nobody
        PROVE  SettledIn(sc, judgedBy[sc].space, judgedBy[sc].registry)'
    BY <1>3, <2>1, <2>2 DEF HeadsOf
  <2> QED
    BY <1>1, <2>2 DEF NothingOverlooked
<1> QED
  BY <1>1, <1>5, <1>6, <1>7, <1>8, <1>9 DEF Next, Serve, Revoke, RetireUntrusted

\* In every deployment, with any registries and embedding spaces, what a scope that
\* owes nothing has for rules is what its latest worker would make of it again.
THEOREM NothingIsOverlooked == Spec => []NothingOverlooked
<1>1. Init => OverlookedInv
  BY DEF Init, OverlookedInv, ObservedInTime, Recorded, NothingOverlooked
<1>2. HeadInv /\ RuleInv /\ OverlookedInv /\ [Next]_vars => OverlookedInv'
  BY OverlookedStep
<1>3. OverlookedInv => NothingOverlooked
  BY DEF OverlookedInv
<1> QED
  BY <1>1, <1>2, <1>3, HeadInvariant, RuleInvariant, PTL DEF Spec

================================================================================
