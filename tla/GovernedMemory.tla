---------------------------- MODULE GovernedMemory ----------------------------
(***************************************************************************)
(* The governed memory store: append-only L1 episodes, the current head of *)
(* every (scope, producer, strategy), revocations, and the L3 rules that   *)
(* consolidation promotes from the heads.                                  *)
(*                                                                         *)
(* Every operation of CockroachMemoryStore and of the consolidation        *)
(* service is one SERIALIZABLE transaction, so each is one action here;    *)
(* what interleaves is the order in which producers, the security          *)
(* reconciler and the consolidation workers commit.                        *)
(*                                                                         *)
(* A receipt stands for the episode recorded from it: its fields are       *)
(* signed, and the unique index on execution_receipt_id admits at most one *)
(* episode per receipt.  A rule identity stands for a candidate_id, which  *)
(* is a hash of exactly the fields kept here.                              *)
(***************************************************************************)
EXTENDS Integers, FiniteSets, FiniteSetsExt

CONSTANTS
  Scopes, Producers, Strategies,
  Rules,          \* (situation class, applicability, strategy): adaptive_rule_key
  Unclassified,   \* the rule of a receipt that is never generalised
  Spaces,         \* embedding spaces the deployed instances write
  NoSpace,        \* the space of a receipt that is not recorded
  Receipts,       \* the signed execution receipts that may be recorded
  NoReceipt,
  MinProducers,   \* [Scopes -> Nat], minimum_distinct_producers of the level
  GrantSets,      \* the producer registries that processes may hold a copy of
  MaxAge,         \* MemoryClass.LONG_TERM.max_age, in ticks
  ReceiptTTL, FutureSkew,
  MaxTime         \* bound on the clock

Verdicts == {"success", "failure", "neutral"}

ASSUME ReceiptsAssumption ==
  \A r \in Receipts :
    /\ r.scope \in Scopes /\ r.producer \in Producers /\ r.strategy \in Strategies
    /\ r.rule \in Rules \cup {Unclassified}
    /\ r.verdict \in Verdicts
    /\ r.observed \in Nat

ASSUME NumbersAssumption ==
  /\ MaxAge \in Nat /\ ReceiptTTL \in Nat /\ FutureSkew \in Nat /\ MaxTime \in Nat
  /\ MinProducers \in [Scopes -> Nat \ {0}]

ASSUME NamesAssumption ==
  /\ NoReceipt \notin Receipts
  /\ NoSpace \notin Spaces
  /\ Unclassified \notin Rules
  /\ GrantSets \subseteq SUBSET Producers
  /\ IsFiniteSet(Producers)

VARIABLES
  now,           \* the database clock
  space,         \* [Receipts -> embedding space of the recorded episode]
  supersedes,    \* [Receipts -> the episode it supersedes]
  heads,         \* decision_memory_heads: the episodes that are current
  revocations,   \* decision_memory_revocations
  active, superseded, revoked, expired,  \* decision_governed_memories by status
  lineage,       \* <<memory, supersedes_memory_id>>
  projection,    \* heads the L2 effectiveness rows of a scope were built from
  outbox,        \* scopes with a row in decision_memory_consolidation_outbox
  judgedBy       \* history: registry and space of a scope's latest consolidation

episodeVars == <<space, supersedes, heads, revocations>>
ruleVars == <<active, superseded, revoked, expired, lineage>>
vars == <<now, episodeVars, ruleVars, projection, outbox, judgedBy>>

-----------------------------------------------------------------------------
(* State formulae *)

MemoryIds ==
  [scope : Scopes, rule : Rules, polarity : {"POSITIVE", "AVOID"},
   support : SUBSET Receipts, space : Spaces]

\* What a worker judges by, and the judge of a scope never consolidated.
Judges == [registry : GrantSets, space : Spaces]
Nobody == [registry |-> {}, space |-> NoSpace]

Recorded == {r \in Receipts : space[r] # NoSpace}
EverPromoted == active \cup superseded \cup revoked \cup expired

\* Primary key of decision_memory_heads.
Key(r) == <<r.scope, r.producer, r.strategy>>

\* Mutant: the watermark is the present head only.
NewestHead(r) == \A e \in heads : Key(e) = Key(r) => e.observed < r.observed

\* The immutable history is the watermark: r is newer than all of its key.
IsNewest(r) == \A e \in Recorded : Key(e) = Key(r) => e.observed < r.observed

HeadsOf(sc) == {h \in heads : h.scope = sc}
ProducersOf(rs) == {p \in Producers : \E r \in rs : r.producer = p}
Succeeded(rs) == {r \in rs : r.verdict = "success"}
Failed(rs) == {r \in rs : r.verdict = "failure"}

ObservedTo(m) == Max({r.observed : r \in m.support})
ExpiredBy(m, t) == ObservedTo(m) + MaxAge < t

\* Two memories compete for one slot of the active-rule unique index.
SameSlot(m, c) == m.scope = c.scope /\ m.rule = c.rule /\ m.space = c.space

-----------------------------------------------------------------------------
(* Episodes: save, revoke_current_head, retire_untrusted_heads *)

Init ==
  /\ now = 0
  /\ space = [r \in Receipts |-> NoSpace]
  /\ supersedes = [r \in Receipts |-> NoReceipt]
  /\ heads = {} /\ revocations = {}
  /\ active = {} /\ superseded = {} /\ revoked = {} /\ expired = {}
  /\ lineage = {}
  /\ projection = [sc \in Scopes |-> {}]
  /\ outbox = {}
  /\ judgedBy = [sc \in Scopes |-> Nobody]

\* A receipt that a process with the registry g accepts: authenticated producer,
\* signature still fresh, not recorded before.
Recordable(r, g) ==
  /\ r \notin Recorded
  /\ r.producer \in g
  /\ r.observed <= now + FutureSkew
  /\ now <= r.observed + ReceiptTTL

\* INSERT ... ON CONFLICT DO UPDATE ... WHERE excluded.observed_at is newer.
Upsert(hs, r) ==
  IF \E h \in hs : Key(h) = Key(r) /\ r.observed <= h.observed
    THEN hs
    ELSE {h \in hs : Key(h) # Key(r)} \cup {r}

\* Mutant: the history is not consulted.
HeadsUpserted(r, kept) == Upsert(kept, r)

\* The heads a save leaves, given the heads left by its supersession.
HeadsAfter(r, kept) == IF IsNewest(r) THEN Upsert(kept, r) ELSE kept

\* Mutant: only the embedding space is compared.
UnsupportedBySpace(sc, hs, spaces, sp) ==
  {m \in active : m.scope = sc /\ \E e \in m.support : spaces[e] # sp}

\* Rules of the scope with a support that is not a head of embedding space sp.
Unsupported(sc, hs, spaces, sp) ==
  {m \in active : m.scope = sc /\ \E e \in m.support : e \notin hs \/ spaces[e] # sp}

\* The transaction of save, after the optional supersession removed a head.
Save(r, sp, target, kept) ==
  /\ space' = [space EXCEPT ![r] = sp]
  /\ supersedes' = [supersedes EXCEPT ![r] = target]
  /\ heads' = HeadsAfter(r, kept)
  /\ LET lost == Unsupported(r.scope, heads', space', sp)
     IN active' = active \ lost /\ revoked' = revoked \cup lost
  /\ outbox' = IF IsNewest(r) THEN outbox \cup {r.scope} ELSE outbox
  /\ UNCHANGED <<now, revocations, superseded, expired, lineage, projection, judgedBy>>

Record(r, sp, g) == Recordable(r, g) /\ Save(r, sp, NoReceipt, heads)

\* Mutant: the producer of the target is not compared.
MaySupersedeAny(r, t) ==
  /\ IsNewest(r)
  /\ t \in heads
  /\ t.scope = r.scope
  /\ t.observed < r.observed

\* A producer replaces its own current head, possibly of another strategy.
MaySupersede(r, t) ==
  /\ IsNewest(r)
  /\ t \in heads
  /\ t.scope = r.scope /\ t.producer = r.producer
  /\ t.observed < r.observed

Supersede(r, t, sp, g) ==
  /\ Recordable(r, g)
  /\ MaySupersede(r, t)
  /\ Save(r, sp, t, heads \ {t})

\* The rules an UPDATE ... status = 'REVOKED' takes when the heads gone lapse.
SupportedBy(gone) == {m \in active : m.support \cap gone # {}}

\* Mutant: one of the scopes is enqueued.
OwedOnce(gone) == {(CHOOSE h \in gone : TRUE).scope}

\* Mutant: only the loss of a rule calls for a consolidation.
OwedByRules(gone) == {m.scope : m \in SupportedBy(gone)}

\* Every scope that lost a head is enqueued for consolidation.
Owed(gone) == {h.scope : h \in gone}

\* A head is withdrawn for good and every rule resting on it falls with it.
Withdraw(gone) ==
  /\ heads' = heads \ gone
  /\ revocations' = revocations \cup gone
  /\ active' = active \ SupportedBy(gone)
  /\ revoked' = revoked \cup SupportedBy(gone)
  /\ outbox' = outbox \cup Owed(gone)
  /\ UNCHANGED <<now, space, supersedes, superseded, expired, lineage, projection, judgedBy>>

Revoke(r, g) ==
  /\ r \in heads /\ r.producer \in g
  /\ r \notin revocations          \* a second request replays the first
  /\ Withdraw({r})

\* Heads of every producer without a grant in g, in all scopes at once.
RetireUntrusted(g) ==
  LET gone == {h \in heads : h.producer \notin g}
  IN gone # {} /\ Withdraw(gone)

-----------------------------------------------------------------------------
(* Rules: consolidate_scope, with the governor's checks in its order *)

Evidence(sc, rule) == {h \in HeadsOf(sc) : h.rule = rule /\ h.verdict # "neutral"}

\* MemoryConsolidator.consolidate: one candidate per rule with evidence.
Candidate(sc, rule, sp) ==
  LET evidence == Evidence(sc, rule)
      negative == Cardinality(ProducersOf(Failed(evidence)))
      positive == Cardinality(ProducersOf(Succeeded(evidence)))
  IN [scope |-> sc, rule |-> rule, support |-> evidence, space |-> sp,
      polarity |-> IF negative > positive THEN "AVOID" ELSE "POSITIVE"]

Candidates(sc, sp) ==
  {Candidate(sc, rule, sp) : rule \in {k \in Rules : Evidence(sc, k) # {}}}

SpansSpaces(c) == \E r \in c.support : space[r] # c.space
RestsOnSuperseded(c) == \E h \in HeadsOf(c.scope) : supersedes[h] \in c.support
RestsOnUntrusted(c, g) == ~ ProducersOf(c.support) \subseteq g
TooFewProducers(c) == Cardinality(ProducersOf(c.support)) < MinProducers[c.scope]
RestsOnStale(c) == \E r \in c.support : r.observed + MaxAge < now
\* Mutant: a minority that disagrees is no contradiction.
Outvoted(c) ==
  Cardinality(Failed(c.support)) > Cardinality(Succeeded(c.support))

Contradicted(c) == Succeeded(c.support) # {} /\ Failed(c.support) # {}

\* The checks that make the governor abstain before it looks for contradiction.
Inadmissible(c, g) ==
  \/ SpansSpaces(c)
  \/ RestsOnSuperseded(c)
  \/ RestsOnUntrusted(c, g)
  \/ TooFewProducers(c)
  \/ RestsOnStale(c)

Aligned(c) == IF c.polarity = "AVOID" THEN Failed(c.support) ELSE Succeeded(c.support)

Qualifies(c) ==
  /\ ~ Contradicted(c)
  /\ Cardinality(ProducersOf(Aligned(c))) >= MinProducers[c.scope]

\* Mutant: evidence that is as old as the active rule's may displace it.
NotOlder(c, live) == \A m \in live : SameSlot(m, c) => ObservedTo(m) <= ObservedTo(c)

\* A rule that is newer than the one active in its slot, if there is one.
NotLate(c, live) == \A m \in live : SameSlot(m, c) => ObservedTo(m) < ObservedTo(c)

\* Mutant: only an ACTIVE promotion is recognised as a replay.
JudgedAgain(sc, sp, g) ==
  {c \in Candidates(sc, sp) : c \notin active /\ ~ Inadmissible(c, g)}

\* Candidates the governor looks at; one promoted before is never judged again.
Judged(sc, sp, g) ==
  {c \in Candidates(sc, sp) : c \notin EverPromoted /\ ~ Inadmissible(c, g)}

\* Mutant: a contradiction ends only a rule of the other polarity.
StruckByOpposite(live, judged) ==
  {m \in live : \E c \in judged :
     SameSlot(m, c) /\ Contradicted(c) /\ m.polarity # c.polarity}

\* _revoke_conflicting_active_rules: CONTRADICTION_ABSTAIN ends the slot's rule.
Struck(live, judged) ==
  {m \in live : \E c \in judged : SameSlot(m, c) /\ Contradicted(c)}

\* The ACTIVE rule of a slot becomes SUPERSEDED by the one promoted into it.
Displaced(live, promoted) == {m \in live : \E c \in promoted : SameSlot(m, c)}

\* One consolidation transaction, by a worker with the registry g and the space sp.
\* It may run late or twice: the worker holds the claim it read before, and done
\* says whether its mark_complete took effect.
Consolidate(sc, sp, g, done) ==
  LET lapsed == {m \in active : m.scope = sc /\ ExpiredBy(m, now)}
      live == active \ lapsed
      judged == Judged(sc, sp, g)
      struck == Struck(live, judged)
      promoted == {c \in judged : Qualifies(c) /\ NotLate(c, live)}
      displaced == Displaced(live, promoted)
  IN /\ active' = (live \ (struck \cup displaced)) \cup promoted
     /\ expired' = expired \cup lapsed
     /\ revoked' = revoked \cup struck
     /\ superseded' = superseded \cup displaced
     /\ lineage' = lineage \cup {p \in promoted \X displaced : SameSlot(p[2], p[1])}
     /\ projection' = [projection EXCEPT ![sc] = HeadsOf(sc)]
     /\ outbox' = IF done THEN outbox \ {sc} ELSE outbox
     /\ judgedBy' = [judgedBy EXCEPT ![sc] = [registry |-> g, space |-> sp]]
     /\ UNCHANGED <<now, episodeVars>>

-----------------------------------------------------------------------------
(* Environment *)

Tick ==
  /\ now < MaxTime
  /\ now' = now + 1
  /\ UNCHANGED <<episodeVars, ruleVars, projection, outbox, judgedBy>>

\* An operation falls to a process with any registry and of any deployment: which
\* copy a process holds is the subject of RuntimeSecurity.
Serve(g, sp) ==
  \/ \E r \in Receipts : Record(r, sp, g)
  \/ \E r, t \in Receipts : Supersede(r, t, sp, g)
  \/ \E r \in Receipts : Revoke(r, g)
  \/ RetireUntrusted(g)
  \/ \E sc \in Scopes, done \in BOOLEAN : Consolidate(sc, sp, g, done)

Next == (\E g \in GrantSets, sp \in Spaces : Serve(g, sp)) \/ Tick

Spec == Init /\ [][Next]_vars

-----------------------------------------------------------------------------
(* Correctness *)

\* Types of the columns; nothing deeper is claimed here.
TypeOK ==
  /\ now \in 0..MaxTime
  /\ space \in [Receipts -> Spaces \cup {NoSpace}]
  /\ supersedes \in [Receipts -> Receipts \cup {NoReceipt}]
  /\ heads \subseteq Receipts /\ revocations \subseteq Receipts
  /\ active \subseteq MemoryIds /\ superseded \subseteq MemoryIds
  /\ revoked \subseteq MemoryIds /\ expired \subseteq MemoryIds
  /\ lineage \subseteq MemoryIds \X MemoryIds
  /\ projection \in [Scopes -> SUBSET Receipts]
  /\ outbox \subseteq Scopes
  /\ judgedBy \in [Scopes -> Judges \cup {Nobody}]

\* A rule the resolver may read as ACTIVE rests only on episodes that are at
\* that moment current heads of its scope, embedded in its space: the joint
\* effect of the three revocation UPDATEs and of consolidation.
SupportIsCurrent ==
  \A m \in active :
    /\ m.support # {}
    /\ \A e \in m.support :
         e \in heads /\ e.scope = m.scope /\ e.rule = m.rule /\ space[e] = m.space

\* At most one ACTIVE rule per (scope, rule_key, space), POSITIVE and AVOID
\* together: consolidation never relies on the unique index to reject a commit.
OneActivePerSlot ==
  \A m, c \in active : SameSlot(m, c) => m = c

\* Every ACTIVE rule is backed by enough distinct producers that all report the
\* outcome it asserts.
Unanimous ==
  \A m \in active :
    /\ Cardinality(ProducersOf(m.support)) >= MinProducers[m.scope]
    /\ \A e \in m.support :
         e.verdict = (IF m.polarity = "AVOID" THEN "failure" ELSE "success")

\* The head of a (scope, producer, strategy) is unique and no recorded episode
\* of that key is newer, whatever the order in which receipts arrived.
HeadIsWatermark ==
  \A h \in heads : \A e \in Recorded :
    Key(e) = Key(h) => e.observed <= h.observed /\ (e \in heads => e = h)

\* A revoked or superseded episode is history: it is never a head again.
WithdrawnIsHistory ==
  /\ heads \cap revocations = {}
  /\ \A r \in Receipts : supersedes[r] \notin heads

\* Supersession is a chain per producer that moves forward in event time and
\* never forks.
EpisodeLineage ==
  \A r \in Receipts : supersedes[r] # NoReceipt =>
    LET t == supersedes[r] IN
    /\ r \in Recorded /\ t \in Recorded
    /\ t.scope = r.scope /\ t.producer = r.producer /\ t.observed < r.observed
    /\ \A q \in Receipts : supersedes[q] = t => q = r

\* The lineage of rules is what validate_lineage accepts: the parent is
\* SUPERSEDED, of the same slot, rests on older evidence and has one child.
RuleLineage ==
  \A p \in lineage :
    /\ p[1] \in EverPromoted /\ p[2] \in superseded
    /\ SameSlot(p[2], p[1]) /\ ObservedTo(p[2]) < ObservedTo(p[1])
    /\ \A q \in lineage : (p[2] = q[2] \/ p[1] = q[1]) => p = q

\* When no consolidation is owed for a scope, its L2 statistics were built from
\* exactly its present heads: no commit that moves a head forgets the outbox.
SettledProjection ==
  \A sc \in Scopes : sc \notin outbox => projection[sc] = HeadsOf(sc)

\* Current evidence of the slot of rule m that reports the opposite outcome.
Opposing(m) ==
  {h \in Evidence(m.scope, m.rule) :
     h.verdict # (IF m.polarity = "AVOID" THEN "failure" ELSE "success")}

\* docs/evidence/GOVERNED_ADAPTIVE_MEMORY_V7.md:167 promises that independent
\* contradiction revokes the promoted rule.  In a deployment of one embedding space
\* it does in every scope that owes no consolidation, unless the governor abstained
\* before it reached the contradiction check: because an episode of the rule is past
\* MaxAge, or the worker that consolidated last does not know its producer.
FreshContradictionRevokes ==
  \A m \in active :
    m.scope \notin outbox /\ Opposing(m) # {} =>
      \E e \in Evidence(m.scope, m.rule) :
        e.observed + MaxAge < now \/ e.producer \notin judgedBy[m.scope].registry

Unexpired == {m \in active : ~ ExpiredBy(m, now)}

\* A save takes every rule of its scope that is of another space than its own, and
\* owes nothing when its receipt is late.
TakenFromAfar(m) ==
  m \in revoked /\ \E r \in Recorded : r.scope = m.scope /\ space[r] # m.space

\* An agreement is late to a rule that rests on the newest of the same evidence.
LateTo(c, m) ==
  SameSlot(m, c) /\ m.support \subseteq c.support /\ ObservedTo(m) >= ObservedTo(c)

\* Consolidating the scope once more would strike no rule and promote none.
SettledIn(sc, sp, g) ==
  \A c \in Judged(sc, sp, g) :
    /\ Contradicted(c) => \A m \in Unexpired : ~ SameSlot(m, c)
    /\ Qualifies(c) =>
         \E m \in EverPromoted : LateTo(c, m) /\ (m \in active \/ TakenFromAfar(m))

\* A scope that owes no consolidation has the rules its heads call for, judged by
\* the registry and in the space of the worker that consolidated it last: no
\* contradiction waits for revocation and no agreement for promotion (but one whose
\* very rule has ended, or was late to a rule that another deployment took), so a
\* consolidation delivered late or twice does no more than expire rules, and time
\* alone makes nothing due.
NothingOverlooked ==
  \A sc \in Scopes \ outbox :
    judgedBy[sc] # Nobody => SettledIn(sc, judgedBy[sc].space, judgedBy[sc].registry)

\* An episode becomes a head only in the commit that records it, and only when
\* it is newer than the whole history of its key, withdrawn episodes included:
\* no late receipt and no retry resurrects old state.
NoResurrection ==
  [][\A r \in heads' \ heads :
       /\ r \notin Recorded
       /\ \A e \in Recorded : Key(e) = Key(r) => e.observed < r.observed]_vars

\* src/decisionvault/memory/cockroach.py:232-235: an older receipt that arrives
\* late does not become current after a newer supersession removed the head.
LateReceiptStaysHistory ==
  [][\A r \in heads' \ heads : \A s \in Recorded :
       supersedes[s] # NoReceipt /\ Key(supersedes[s]) = Key(r)
         => s.observed < r.observed]_vars

\* The rules, seen as the ledger of promises the resolver reads.
Ledger == INSTANCE RuleLedger WITH
  live <- active, ended <- superseded \cup revoked \cup expired

\* Consolidation, saves, revocations and retirement all keep the ledger's
\* promise.
LedgerSpec == Ledger!Spec

\* The heads, the statistics built from them and the outbox, seen as the contract
\* of consolidation.
Contract == INSTANCE ConsolidationContract WITH
  state <- [sc \in Scopes |-> HeadsOf(sc)], read <- projection, owed <- outbox

\* No save, revocation or retirement over many scopes changes the heads of a
\* scope without leaving it owing, and no obligation ends but by a consolidation
\* of the heads as they then are.
ContractSpec == Contract!Spec

=============================================================================
