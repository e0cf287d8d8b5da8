------------------------- MODULE SpaceMigrationProofs -------------------------
(***************************************************************************)
(* Proofs about SpaceMigration for any scopes, producers, receipts, rules, *)
(* embedding spaces and numbers, and for a job that is restarted at will.  *)
(***************************************************************************)
EXTENDS SpaceMigration, GovernedMemoryProofs

\* A save of a receipt not recorded before; kept is what its supersession leaves of
\* the heads.
Saved(r, sp, target, kept) ==
  /\ r \notin Recorded
  /\ kept = heads \/ IsNewest(r)
  /\ \A h \in heads \ kept : h.scope = r.scope
  /\ Save(r, sp, target, kept) /\ Embedded(r)

Resting == UNCHANGED <<vector, statistics, plan>>

\* Every step is one of six; what the proofs below split on.
LEMMA MigrationStepShape ==
  ASSUME [MigrationNext]_migrationVars
  PROVE  \/ \E r \in Receipts, sp \in Spaces, target \in Receipts \cup {NoReceipt},
               kept \in SUBSET heads : Saved(r, sp, target, kept)
         \/ \E gone \in SUBSET heads : Withdraw(gone) /\ Resting
         \/ \E sc \in Scopes, sp \in Spaces, g \in GrantSets, done \in BOOLEAN :
              Consolidated(sc, sp, g, done)
         \/ Tick /\ Resting
         \/ \E row \in plan : Migrate(row)
         \/ UNCHANGED <<vars, vector, statistics>>
<1>1. ASSUME NEW r \in Receipts, NEW sp \in Spaces, NEW g, Record(r, sp, g) /\ Embedded(r)
      PROVE  Saved(r, sp, NoReceipt, heads)
  BY <1>1 DEF Record, Recordable, Saved
<1>2. ASSUME NEW r \in Receipts, NEW t \in Receipts, NEW sp \in Spaces, NEW g,
             Supersede(r, t, sp, g) /\ Embedded(r)
      PROVE  Saved(r, sp, t, heads \ {t})
  BY <1>2 DEF Supersede, Recordable, MaySupersede, Saved
<1>3. ASSUME NEW g, \/ (\E r \in Receipts : Revoke(r, g)) /\ Resting
                    \/ RetireUntrusted(g) /\ Resting
      PROVE  \E gone \in SUBSET heads : Withdraw(gone) /\ Resting
  BY <1>3 DEF Revoke, RetireUntrusted
<1>4. CASE Discover \/ Break \/ UNCHANGED migrationVars
  BY <1>4 DEF Discover, Break, migrationVars
<1> QED
  BY <1>1, <1>2, <1>3, <1>4 DEF MigrationNext, ServeBeside, Resting

\* All but the job's own writes are steps of the store.
LEMMA StoreStep ==
  ASSUME [MigrationNext]_migrationVars
  PROVE  [Next]_vars \/ \E row \in plan : Migrate(row)
<1>1. ASSUME NEW g \in GrantSets, NEW sp \in Spaces, ServeBeside(g, sp)
      PROVE  Serve(g, sp)
  BY <1>1 DEF ServeBeside, Serve, Consolidated
<1>2. CASE Discover \/ Break \/ UNCHANGED migrationVars
  BY <1>2 DEF Discover, Break, migrationVars
<1> QED
  BY <1>1, <1>2 DEF MigrationNext, Next

-----------------------------------------------------------------------------
(* Episodes and heads *)

\* The job changes the space of heads, to the target, and nothing else that the
\* store keeps.
LEMMA MigrateShape ==
  ASSUME TypeOK, NEW row \in plan, Migrate(row)
  PROVE  /\ \A r \in Receipts : space'[r] = space[r] \/ (r \in heads /\ space'[r] = Target)
         /\ space' \in [Receipts -> Spaces \cup {NoSpace}]
         /\ UNCHANGED <<now, supersedes, heads, revocations, active, superseded, revoked,
                        expired, lineage, projection, outbox, judgedBy, statistics>>
  BY TargetAssumption DEF Migrate, Unmoved, TypeOK, ruleVars

\* Re-embedding a head neither records an episode nor forgets one.
LEMMA MigrateKeepsHeads ==
  ASSUME HeadInv, NEW row \in plan, Migrate(row)
  PROVE  HeadInv'
<1> USE DEF HeadInv
<1>1. TypeOK'
  BY MigrateShape DEF TypeOK
<1>2. Recorded' = Recorded
  BY MigrateShape, TargetAssumption, NamesAssumption DEF Recorded, HeadsRecorded
<1>3. UNCHANGED <<heads, supersedes, revocations>>
  BY MigrateShape
<1> QED
  BY <1>1, <1>2, <1>3
     DEF HeadsRecorded, HeadIsWatermark, WithdrawnIsHistory, EpisodeLineage

\* The vectors and the statistics have their types; each head has its own vector.
JobTypeOK ==
  /\ vector \in [Receipts -> Receipts \cup {NoReceipt}]
  /\ statistics \in [Scopes -> Spaces \cup {NoSpace}]

StoreInv == HeadInv /\ JobTypeOK /\ EmbeddingIsOwn

LEMMA StoreInvStep == StoreInv /\ [MigrationNext]_migrationVars => StoreInv'
<1> SUFFICES ASSUME StoreInv, [MigrationNext]_migrationVars PROVE StoreInv'
  OBVIOUS
<1> USE DEF StoreInv
<1>1. HeadInv'
  BY StoreStep, TypeStep, HeadInvStep, MigrateKeepsHeads DEF HeadInv
<1>2. TypeOK
  BY DEF HeadInv
<1>3. ASSUME NEW r \in Receipts, NEW sp \in Spaces, NEW target, NEW kept \in SUBSET heads,
             Saved(r, sp, target, kept)
      PROVE  JobTypeOK' /\ EmbeddingIsOwn'
  <2>1. heads' \subseteq heads \cup {r}
    BY <1>2, <1>3, HeadsAfterSave DEF Saved, Save, HeadInv
  <2>2. r \notin heads
    BY <1>3 DEF Saved, HeadInv, HeadsRecorded
  <2> QED
    BY <1>2, <1>3, <2>1, <2>2 DEF Saved, Embedded, JobTypeOK, EmbeddingIsOwn, TypeOK
<1>4. ASSUME NEW gone \in SUBSET heads, Withdraw(gone), Resting
      PROVE  JobTypeOK' /\ EmbeddingIsOwn'
  BY <1>4 DEF Withdraw, Resting, JobTypeOK, EmbeddingIsOwn
<1>5. ASSUME NEW sc \in Scopes, NEW sp \in Spaces, NEW g, NEW done \in BOOLEAN,
             Consolidated(sc, sp, g, done)
      PROVE  JobTypeOK' /\ EmbeddingIsOwn'
  BY <1>5 DEF Consolidated, Consolidate, episodeVars, JobTypeOK, EmbeddingIsOwn
<1>6. CASE Tick /\ Resting
  BY <1>1, <1>6 DEF Tick, episodeVars, Resting, JobTypeOK, EmbeddingIsOwn
<1>7. ASSUME NEW row \in plan, Migrate(row)
      PROVE  JobTypeOK' /\ EmbeddingIsOwn'
  BY <1>2, <1>7 DEF Migrate, Unmoved, JobTypeOK, EmbeddingIsOwn, TypeOK
<1>8. CASE UNCHANGED <<vars, vector, statistics>>
  BY <1>1, <1>8 DEF vars, episodeVars, JobTypeOK, EmbeddingIsOwn
<1> QED
  BY <1>1, <1>3, <1>4, <1>5, <1>6, <1>7, <1>8, MigrationStepShape

LEMMA StoreInvariant == MigrationSpec => []StoreInv
<1>1. MigrationInit => StoreInv
  BY InitialHeads DEF MigrationInit, StoreInv, JobTypeOK, EmbeddingIsOwn, Init
<1> QED
  BY <1>1, StoreInvStep, PTL DEF MigrationSpec

\* The job never leaves the vector of a replaced head under its successor.
THEOREM VectorsAreOwn == MigrationSpec => []EmbeddingIsOwn
<1>1. StoreInv => EmbeddingIsOwn
  BY DEF StoreInv
<1> QED
  BY <1>1, StoreInvariant, PTL

-----------------------------------------------------------------------------
(* Rules *)

\* The job moves heads only to the target, so the evidence of a rule of that
\* space never leaves it, and a save in another space ends the rule.
TargetIsOneWay ==
  \A m \in active : m.space = Target =>
    \A e \in Evidence(m.scope, m.rule) : space[e] = Target

\* The L2 rows of a scope that owes nothing tell who consolidated it last.
StatisticsTell ==
  \A sc \in Scopes \ outbox :
    statistics[sc] = IF HeadsOf(sc) = {} THEN NoSpace ELSE judgedBy[sc].space

ReadyInv == PromotionsStand /\ TargetIsOneWay /\ Stranded /\ StatisticsTell

\* A save in another space than the target ends the rules of its scope that are of
\* the target, and one in the target leaves their evidence there.
LEMMA SaveKeepsTarget ==
  ASSUME StoreInv, ReadyInv, NEW r \in Receipts, NEW sp \in Spaces, NEW target,
         NEW kept \in SUBSET heads, Saved(r, sp, target, kept)
  PROVE  TargetIsOneWay'
<1>1. /\ r \notin heads
      /\ heads' \subseteq heads \cup {r}
      /\ \A e \in Receipts : e # r => space'[e] = space[e]
      /\ space'[r] = sp
      /\ active' = active \ Unsupported(r.scope, heads', space', sp)
  BY SavedShape DEF StoreInv, Saved
<1>2. /\ heads \subseteq Receipts /\ heads \subseteq Recorded
      /\ active \subseteq EverPromoted /\ r \notin Recorded
  BY DEF StoreInv, HeadInv, HeadsRecorded, TypeOK, EverPromoted, Saved
<1> SUFFICES ASSUME NEW m \in active', m.space = Target, NEW e \in Evidence(m.scope, m.rule)'
             PROVE  space'[e] = Target
  BY DEF TargetIsOneWay
<1>3. m \in active /\ m \notin Unsupported(r.scope, heads', space', sp)
  BY <1>1
<1>4. CASE e # r
  <2>1. e \in Evidence(m.scope, m.rule) /\ e \in Receipts
    BY <1>1, <1>2, <1>4 DEF Evidence, HeadsOf
  <2> QED
    BY <1>1, <1>3, <1>4, <2>1 DEF ReadyInv, TargetIsOneWay
<1>5. CASE e = r
  <2>1. m.scope = r.scope
    BY <1>5 DEF Evidence, HeadsOf
  <2>2. PICK s \in m.support : TRUE
    BY <1>2, <1>3 DEF ReadyInv, PromotionsStand
  <2>3. s \in heads' /\ space'[s] = sp
    BY <1>3, <2>1, <2>2 DEF Unsupported
  <2>4. s # r /\ s \in heads
    BY <1>1, <1>2, <1>3, <2>2, <2>3 DEF ReadyInv, PromotionsStand
  <2>5. s.scope = m.scope /\ s.rule = m.rule /\ s.verdict # "neutral"
    BY <1>2, <1>3, <2>2 DEF ReadyInv, PromotionsStand, Asserted
  <2>6. space[s] = Target
    BY <1>3, <2>4, <2>5 DEF ReadyInv, TargetIsOneWay, Evidence, HeadsOf
  <2> QED
    BY <1>1, <1>2, <1>5, <2>3, <2>4, <2>6
<1> QED
  BY <1>4, <1>5

\* A consolidation promotes a rule of the target from evidence in it.
LEMMA ConsolidateKeepsTarget ==
  ASSUME StoreInv, ReadyInv, NEW sc \in Scopes, NEW sp \in Spaces, NEW g,
         NEW done \in BOOLEAN, Consolidated(sc, sp, g, done)
  PROVE  TargetIsOneWay'
<1>1. /\ active' \subseteq active \cup {c \in Judged(sc, sp, g) : Qualifies(c)}
      /\ UNCHANGED <<heads, space>>
  BY DEF Consolidated, Consolidate, episodeVars
<1>2. ASSUME NEW c \in Judged(sc, sp, g), Qualifies(c)
      PROVE  /\ c.scope = sc /\ c.support = Evidence(sc, c.rule)
             /\ \A e \in c.support : space[e] = c.space
  BY <1>2, QualifiedStands DEF StoreInv
<1> QED
  BY <1>1, <1>2 DEF ReadyInv, TargetIsOneWay, Evidence, HeadsOf

\* The job can complete the evidence of a rule only in the target space, where
\* it was complete before.
LEMMA MigrateKeepsRules ==
  ASSUME StoreInv, ReadyInv, NEW row \in plan, Migrate(row)
  PROVE  TargetIsOneWay' /\ Stranded' /\ StatisticsTell'
<1>1. TypeOK /\ HeadsRecorded
  BY DEF StoreInv, HeadInv
<1>2. /\ \A r \in Receipts : space'[r] = space[r] \/ (r \in heads /\ space'[r] = Target)
      /\ UNCHANGED <<now, heads, active, outbox, judgedBy, statistics>>
  BY <1>1, MigrateShape
<1>3. \A m \in active : Evidence(m.scope, m.rule)' = Evidence(m.scope, m.rule)
                        /\ Evidence(m.scope, m.rule) \subseteq Receipts
  BY <1>1, <1>2 DEF Evidence, HeadsOf, TypeOK
<1>4. TargetIsOneWay'
  BY <1>2, <1>3 DEF ReadyInv, TargetIsOneWay
<1>5. Stranded'
  <2> SUFFICES ASSUME NEW m \in active, m.scope \notin outbox,
                      Strikable(m, judgedBy[m.scope].registry)'
               PROVE  judgedBy[m.scope].space # m.space
    BY <1>2 DEF Stranded
  <2>1. \A e \in Evidence(m.scope, m.rule) : space[e] = m.space
    BY <1>2, <1>3 DEF Strikable, ReadyInv, TargetIsOneWay
  <2>2. Strikable(m, judgedBy[m.scope].registry)
    BY <1>2, <1>3, <2>1 DEF Strikable, Opposing
  <2> QED
    BY <2>2 DEF ReadyInv, Stranded
<1>6. StatisticsTell'
  BY <1>2 DEF ReadyInv, StatisticsTell, HeadsOf
<1> QED
  BY <1>4, <1>5, <1>6

\* Re-embedding promotes nothing and forgets no episode.
LEMMA MigrateKeepsPromotions ==
  ASSUME HeadInv, PromotionsStand, NEW row \in plan, Migrate(row)
  PROVE  PromotionsStand'
<1>1. TypeOK /\ HeadsRecorded
  BY DEF HeadInv
<1>2. Recorded' = Recorded /\ EverPromoted' = EverPromoted
  BY <1>1, MigrateShape, TargetAssumption, NamesAssumption
     DEF Recorded, HeadsRecorded, EverPromoted
<1> QED
  BY <1>2 DEF PromotionsStand, ProducersOf, Asserted

LEMMA ReadyInvStep == StoreInv /\ ReadyInv /\ [MigrationNext]_migrationVars => ReadyInv'
<1> SUFFICES ASSUME StoreInv, ReadyInv, [MigrationNext]_migrationVars PROVE ReadyInv'
  OBVIOUS
<1>1. PromotionsStand'
  BY StoreStep, PromotionsStandStep, MigrateKeepsPromotions DEF StoreInv, ReadyInv
<1>2. Stranded'
  BY StoreStep, StrandedStep, MigrateKeepsRules DEF StoreInv, ReadyInv
<1>3. ASSUME CommitsOwed, UNCHANGED <<judgedBy, statistics>> PROVE StatisticsTell'
  BY <1>3 DEF CommitsOwed, ReadyInv, StatisticsTell
<1>4. ASSUME NEW r \in Receipts, NEW sp \in Spaces, NEW target, NEW kept \in SUBSET heads,
             Saved(r, sp, target, kept)
      PROVE  TargetIsOneWay' /\ StatisticsTell'
  <2>1. CommitsOwed
    BY <1>4, SaveIsOwed DEF Saved
  <2>2. UNCHANGED <<judgedBy, statistics>>
    BY <1>4 DEF Saved, Save, Embedded
  <2> QED
    BY <1>3, <1>4, <2>1, <2>2, SaveKeepsTarget
<1>5. ASSUME NEW gone \in SUBSET heads, Withdraw(gone), Resting
      PROVE  TargetIsOneWay' /\ StatisticsTell'
  <2>1. /\ heads' \subseteq heads /\ active' \subseteq active
        /\ UNCHANGED <<space, judgedBy, statistics>>
    BY <1>5 DEF Withdraw, Resting
  <2>2. TargetIsOneWay'
    BY <2>1 DEF ReadyInv, TargetIsOneWay, Evidence, HeadsOf
  <2> QED
    BY <1>3, <1>5, <2>1, <2>2, WithdrawalIsOwed
<1>6. ASSUME NEW sc \in Scopes, NEW sp \in Spaces, NEW g, NEW done \in BOOLEAN,
             Consolidated(sc, sp, g, done)
      PROVE  TargetIsOneWay' /\ StatisticsTell'
  <2>1. /\ judgedBy' = [judgedBy EXCEPT ![sc] = [registry |-> g, space |-> sp]]
        /\ statistics' = [statistics EXCEPT ![sc] = IF HeadsOf(sc) = {} THEN NoSpace ELSE sp]
        /\ outbox \ {sc} \subseteq outbox' /\ heads' = heads
    BY <1>6 DEF Consolidated, Consolidate, episodeVars
  <2>2. StatisticsTell'
    BY <2>1 DEF StoreInv, HeadInv, TypeOK, JobTypeOK, ReadyInv, StatisticsTell, HeadsOf
  <2> QED
    BY <1>6, <2>2, ConsolidateKeepsTarget
<1>7. CASE (Tick /\ Resting) \/ UNCHANGED <<vars, vector, statistics>>
  <2>1. UNCHANGED <<heads, space, active, outbox, judgedBy, statistics>>
    BY <1>7 DEF Tick, Resting, vars, episodeVars, ruleVars
  <2>2. TargetIsOneWay' /\ StatisticsTell'
    BY <2>1 DEF ReadyInv, TargetIsOneWay, StatisticsTell, Evidence, HeadsOf
  <2> QED
    BY <1>1, <1>2, <2>2 DEF ReadyInv
<1> QED
  BY <1>1, <1>2, <1>4, <1>5, <1>6, <1>7, MigrateKeepsRules, MigrationStepShape DEF ReadyInv

\* When the probe passes, the support of the rules is current and none that owes
\* no consolidation stands against fresh evidence its worker knew.
LEMMA ReadyInvIsSound == StoreInv /\ ReadyInv => ReadyIsSound
<1> SUFFICES ASSUME StoreInv, ReadyInv, NEW sp \in Spaces, Ready(sp)
             PROVE  SupportIsCurrent /\ FreshContradictionRevokes
  BY DEF ReadyIsSound
<1>1. active \subseteq MemoryIds /\ active \subseteq EverPromoted
  BY DEF StoreInv, HeadInv, TypeOK, EverPromoted
<1>2. SupportIsCurrent
  BY <1>1 DEF Ready, RulesIn, HeadsOf, SupportIsCurrent, ReadyInv, PromotionsStand
<1>3. FreshContradictionRevokes
  <2> SUFFICES ASSUME NEW m \in active, m.scope \notin outbox, Opposing(m) # {},
                      \A e \in Evidence(m.scope, m.rule) :
                        /\ ~ (e.observed + MaxAge < now)
                        /\ e.producer \in judgedBy[m.scope].registry
               PROVE  FALSE
    BY DEF FreshContradictionRevokes
  <2>1. m.space = sp /\ m.support \subseteq heads /\ m.scope \in Scopes
    BY <1>1 DEF Ready, RulesIn, HeadsOf, MemoryIds
  <2>2. \A e \in Evidence(m.scope, m.rule) : space[e] = m.space
    BY <2>1 DEF Ready, HeadsIn, Evidence, HeadsOf
  <2>3. Strikable(m, judgedBy[m.scope].registry)
    BY <2>1, <2>2 DEF Strikable
  <2>4. HeadsOf(m.scope) # {} /\ judgedBy[m.scope] # Nobody
    BY DEF Opposing, Evidence, Nobody
  <2>5. judgedBy[m.scope].space \in Spaces
    BY <2>1, <2>4 DEF StoreInv, HeadInv, TypeOK, Judges
  <2>6. judgedBy[m.scope].space = sp
    BY <2>1, <2>4, <2>5, NamesAssumption DEF ReadyInv, StatisticsTell, Ready, StatisticsIn
  <2> QED
    BY <2>1, <2>3, <2>6 DEF ReadyInv, Stranded
<1> QED
  BY <1>2, <1>3

\* A deployment whose probe passes serves no rule that a change of embedding space
\* left on lost, foreign or contradicted evidence, whatever registries its
\* processes and those of the other deployment hold.
THEOREM ReadinessIsSound == MigrationSpec => []ReadyIsSound
<1>1. MigrationInit => ReadyInv
  BY DEF MigrationInit, Init, ReadyInv, PromotionsStand, TargetIsOneWay, Stranded,
         StatisticsTell, EverPromoted, HeadsOf
<1> QED
  BY <1>1, ReadyInvStep, ReadyInvIsSound, StoreInvariant, PTL DEF MigrationSpec

=============================================================================
