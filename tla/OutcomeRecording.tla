--------------------------- MODULE OutcomeRecording ---------------------------
(***************************************************************************)
(* POST /record: how a signed execution receipt becomes exactly one        *)
(* episode although callers retry, several invocations serve the same      *)
(* receipt at once, and answers and commits get lost.                      *)
(*                                                                         *)
(* The handler is check-then-act: it looks the receipt up, then checks its *)
(* age, then validates the supersession, then saves, each in a connection  *)
(* of its own, so every one of them is a step here.  The save is one       *)
(* SERIALIZABLE transaction (see GovernedMemory for what it does to the    *)
(* rules and to the outbox).                                               *)
(*                                                                         *)
(* The id of a receipt is derived from its decision snapshot, so executing *)
(* a snapshot again, even by another agent, signs another receipt with the *)
(* same id, another producer and a later time of issue, which is when the  *)
(* episode recorded from it is observed.                                   *)
(***************************************************************************)
EXTENDS Integers, FiniteSets

CONSTANTS
  Receipts,        \* signed receipts: [id, scope, producer, strategy, observed]
  Replaceable,     \* receipts that may be recorded as a supersession
  EpisodeIds,      \* what uuid4 may draw
  NoTarget,        \* a request without supersedes_episode_id
  NoCall,
  Workers,         \* concurrent invocations
  ReceiptTTL,      \* DEFAULT_RECEIPT_TTL_SECONDS
  Timeout,         \* the Lambda's time limit
  MaxTime,         \* bound on the clock
  MaxFaults        \* bound on failed transactions, lost commits and crashes

Phases == {"verified", "missing", "fresh", "valid", "failed"}
Refused == "refused"

\* An invocation of _record; replay: the receipt was recorded before it began.
Calls ==
  [receipt : Receipts, target : EpisodeIds \cup {NoTarget}, replay : BOOLEAN,
   phase : Phases, age : Nat]

ASSUME ReceiptsAssumption ==
  /\ \A r \in Receipts : r.observed \in Nat
  /\ Replaceable \subseteq Receipts
  /\ NoTarget \notin EpisodeIds \cup Receipts /\ NoCall \notin Calls /\ Refused \notin EpisodeIds

ASSUME NumbersAssumption ==
  ReceiptTTL \in Nat /\ Timeout \in Nat /\ MaxTime \in Nat /\ MaxFaults \in Nat

VARIABLES
  now,
  episodes,   \* decision_episodes: [id, receipt, supersedes, recorded]
  heads,      \* the episodes that are current heads
  revocations, \* the episodes in decision_memory_revocations
  call,       \* what each invocation is doing
  answers,    \* history of replies: [receipt, reply, replay]
  faults

storeVars == <<episodes, heads, revocations>>
vars == <<now, storeVars, call, answers, faults>>

-----------------------------------------------------------------------------
(* State formulae *)

Key(r) == <<r.scope, r.producer, r.strategy>>

\* _episode_by_receipt
Existing(r) == {e \in episodes : e.receipt.id = r.id}

IsNewest(r) == \A e \in episodes : Key(e.receipt) = Key(r) => e.receipt.observed < r.observed

Successors(t) == {e \in episodes : e.supersedes = t}

\* The head that the transaction of save deletes for a supersession.
Superseded(r, t) ==
  {h \in heads :
     /\ h.id = t /\ h.receipt.scope = r.scope /\ h.receipt.producer = r.producer
     /\ h.receipt.observed < r.observed}

\* Mutant: the transaction trusts the validation made before it.
RejectedByReceipt(r, t) == Existing(r) # {}

\* What makes the transaction of save roll back: the two unique indexes and the
\* SupersessionWriteConflicts.
Rejected(r, t) ==
  \/ Existing(r) # {}
  \/ t # NoTarget /\ (~ IsNewest(r) \/ Superseded(r, t) = {} \/ Successors(t) # {})

-----------------------------------------------------------------------------
(* The handler *)

Init ==
  /\ now = 0
  /\ episodes = {} /\ heads = {} /\ revocations = {}
  /\ call = [w \in Workers |-> NoCall]
  /\ answers = {}
  /\ faults = 0

At(w, p) == call[w] # NoCall /\ call[w].phase = p

Goto(w, p) == call' = [call EXCEPT ![w].phase = p]

Answered(w, reply) ==
  [receipt |-> call[w].receipt, reply |-> reply, replay |-> call[w].replay]

Reply(w, reply) ==
  /\ answers' = answers \cup {Answered(w, reply)}
  /\ call' = [call EXCEPT ![w] = NoCall]

\* The episodes a request for r may name: those the caller was told of.  An id
\* nobody was told of is refused like a target that is no head.
Targets(r) ==
  {NoTarget} \cup (IF r \in Replaceable THEN {e.id : e \in episodes} ELSE {})

\* An authenticated agent presents its own receipt; the signature, the scope and
\* the agent are verified, the age is not.
Begin(w, r, t) ==
  /\ call[w] = NoCall
  /\ r.observed <= now /\ t \in Targets(r)
  /\ call' = [call EXCEPT ![w] =
       [receipt |-> r, target |-> t, replay |-> Existing(r) # {},
        phase |-> "verified", age |-> 0]]
  /\ UNCHANGED <<now, storeVars, answers, faults>>

\* A recorded receipt is answered with its episode, however old it is.
AnswerExisting(w) ==
  \E e \in Existing(call[w].receipt) : Reply(w, e.id)

\* Mutant: the age is checked before the lookup.
LookUpIfFresh(w) ==
  /\ At(w, "verified")
  /\ IF now > call[w].receipt.observed + ReceiptTTL
       THEN Reply(w, Refused)
       ELSE IF Existing(call[w].receipt) = {}
              THEN Goto(w, "missing") /\ UNCHANGED answers
              ELSE AnswerExisting(w)
  /\ UNCHANGED <<now, storeVars, faults>>

LookUp(w) ==
  /\ At(w, "verified")
  /\ IF Existing(call[w].receipt) = {}
       THEN Goto(w, "missing") /\ UNCHANGED answers
       ELSE AnswerExisting(w)
  /\ UNCHANGED <<now, storeVars, faults>>

\* Mutant: the second verification leaves the age out as well.
CheckNothing(w) ==
  /\ At(w, "missing")
  /\ Goto(w, "fresh")
  /\ UNCHANGED <<now, storeVars, answers, faults>>

\* The second verification, now with the TTL.
CheckAge(w) ==
  /\ At(w, "missing")
  /\ IF now <= call[w].receipt.observed + ReceiptTTL
       THEN Goto(w, "fresh") /\ UNCHANGED answers
       ELSE Reply(w, Refused)
  /\ UNCHANGED <<now, storeVars, faults>>

\* _validate_supersession: the target is a head recorded by the caller.
Supersedable(r, t) ==
  t = NoTarget \/
  \E h \in heads : h.id = t /\ h.receipt.scope = r.scope /\ h.receipt.producer = r.producer

Validate(w) ==
  /\ At(w, "fresh")
  /\ IF Supersedable(call[w].receipt, call[w].target)
       THEN Goto(w, "valid") /\ UNCHANGED answers
       ELSE Reply(w, Refused)
  /\ UNCHANGED <<now, storeVars, faults>>

Inserted(w, n) ==
  [id |-> n, receipt |-> call[w].receipt, supersedes |-> call[w].target,
   recorded |-> now]

\* The heads after e is saved: its target leaves, and it becomes the head of its
\* key when it is newer than all of its key's history.
HeadsAfter(e) ==
  LET kept == heads \ Superseded(e.receipt, e.supersedes)
  IN IF IsNewest(e.receipt)
       THEN {h \in kept : Key(h.receipt) # Key(e.receipt)} \cup {e}
       ELSE kept

Commit(w, n) ==
  /\ At(w, "valid")
  /\ ~ Rejected(call[w].receipt, call[w].target)
  /\ \A e \in episodes : e.id # n
  /\ episodes' = episodes \cup {Inserted(w, n)}
  /\ heads' = HeadsAfter(Inserted(w, n))
  /\ revocations' = revocations

Save(w, n) ==
  /\ Commit(w, n)
  /\ Reply(w, n)
  /\ UNCHANGED <<now, faults>>

\* The commit takes effect and its acknowledgement is lost.
SaveUnseen(w, n) ==
  /\ faults < MaxFaults /\ faults' = faults + 1
  /\ Commit(w, n)
  /\ Goto(w, "failed")
  /\ UNCHANGED <<now, answers>>

SaveRejected(w) ==
  /\ At(w, "valid")
  /\ Rejected(call[w].receipt, call[w].target)
  /\ Goto(w, "failed")
  /\ UNCHANGED <<now, storeVars, answers, faults>>

SaveFails(w) ==
  /\ faults < MaxFaults /\ faults' = faults + 1
  /\ At(w, "valid")
  /\ Goto(w, "failed")
  /\ UNCHANGED <<now, storeVars, answers>>

\* Mutant: the handler answers with the episode it tried to save.
RecoverBlind(w) ==
  /\ At(w, "failed")
  /\ \E n \in EpisodeIds : Reply(w, n)
  /\ UNCHANGED <<now, storeVars, faults>>

\* except Exception: a writer that won is answered with its episode.
Recover(w) ==
  /\ At(w, "failed")
  /\ IF Existing(call[w].receipt) = {}
       THEN Reply(w, Refused)
       ELSE AnswerExisting(w)
  /\ UNCHANGED <<now, storeVars, faults>>

-----------------------------------------------------------------------------
(* Environment *)

\* The invocation dies unanswered, or a lookup fails and the caller gets a 5xx.
Crash(w) ==
  /\ faults < MaxFaults /\ faults' = faults + 1
  /\ call[w] # NoCall
  /\ call' = [call EXCEPT ![w] = NoCall]
  /\ UNCHANGED <<now, storeVars, answers>>

\* /revoke by the producer, or the retirement of the producer.
Withdraw(h) ==
  /\ heads' = heads \ {h}
  /\ revocations' = revocations \cup {h}
  /\ UNCHANGED <<now, episodes, call, answers, faults>>

\* A second passes; an invocation at its time limit has to end first.
Tick ==
  /\ now < MaxTime
  /\ \A w \in Workers : call[w] # NoCall => call[w].age < Timeout
  /\ now' = now + 1
  /\ call' = [w \in Workers |->
       IF call[w] = NoCall THEN NoCall ELSE [call[w] EXCEPT !.age = @ + 1]]
  /\ UNCHANGED <<storeVars, answers, faults>>

Handle(w) ==
  \/ LookUp(w)
  \/ CheckAge(w)
  \/ Validate(w)
  \/ \E n \in EpisodeIds : Save(w, n)
  \/ \E n \in EpisodeIds : SaveUnseen(w, n)
  \/ SaveRejected(w)
  \/ SaveFails(w)
  \/ Recover(w)

Next ==
  \/ \E w \in Workers, r \in Receipts, t \in EpisodeIds \cup {NoTarget} : Begin(w, r, t)
  \/ \E w \in Workers : Handle(w)
  \/ \E w \in Workers : Crash(w)
  \/ \E h \in heads : Withdraw(h)
  \/ Tick

Spec == Init /\ [][Next]_vars

-----------------------------------------------------------------------------
(* Correctness *)

Episodes ==
  [id : EpisodeIds, receipt : Receipts, supersedes : EpisodeIds \cup {NoTarget},
   recorded : Nat]

TypeOK ==
  /\ now \in 0..MaxTime
  /\ episodes \subseteq Episodes /\ heads \subseteq episodes /\ revocations \subseteq episodes
  /\ call \in [Workers -> Calls \cup {NoCall}]
  /\ answers \subseteq
       [receipt : Receipts, reply : EpisodeIds \cup {Refused}, replay : BOOLEAN]
  /\ faults \in 0..MaxFaults

\* Whatever races, retries and lost commits happen, a receipt id has one episode
\* and every reply that names an episode for it names that one.
RepliesAgree ==
  /\ \A e, f \in episodes : e.receipt.id = f.receipt.id => e = f
  /\ \A a \in answers : a.reply # Refused =>
       \E e \in episodes : e.receipt.id = a.receipt.id /\ e.id = a.reply

\* docs/AWS_LAMBDA_DEPLOY.md:147-150: once a receipt is recorded, a retry that
\* starts afterwards gets its episode: no expiry and no conflict refuses it.
ReplayAnswered == \A a \in answers : a.replay => a.reply # Refused

\* The TTL gates the first recording: check and commit lie in one invocation.
RecordedFresh ==
  \A e \in episodes : e.recorded <= e.receipt.observed + ReceiptTTL + Timeout

\* Two requests that were both validated against the same head cannot both
\* replace it: the supersessions of a producer are chains that never fork, each
\* episode replaced by a newer one of its own producer and no longer a head.
OneSuccessor ==
  /\ \A e, f \in episodes : e.supersedes # NoTarget /\ e.supersedes = f.supersedes => e = f
  /\ \A e \in episodes : e.supersedes # NoTarget =>
       \E t \in episodes \ heads :
         /\ t.id = e.supersedes /\ t.receipt.producer = e.receipt.producer
         /\ t.receipt.observed < e.receipt.observed

\* The tables, seen as the episode store of GovernedMemory, in which an episode is
\* its receipt; no rule is ever promoted, and every process knows
\* every producer.
Scopes == {r.scope : r \in Receipts}
Producers == {r.producer : r \in Receipts}
Strategies == {r.strategy : r \in Receipts}
ReceiptsOf(es) == {e.receipt : e \in es}

\* The episode that the one recorded from r replaced.
Replaced(r) ==
  {t \in episodes : \E e \in episodes : e.receipt = r /\ e.supersedes = t.id}
TheReceipt(es) == IF es = {} THEN NoTarget ELSE (CHOOSE e \in es : TRUE).receipt

Memory == INSTANCE GovernedMemory WITH
  Rules <- {}, Unclassified <- NoTarget, Spaces <- {"own"}, NoSpace <- "none",
  NoReceipt <- NoTarget, MinProducers <- [s \in Scopes |-> 1],
  GrantSets <- {Producers}, MaxAge <- 0,
  ReceiptTTL <- ReceiptTTL + Timeout, FutureSkew <- 0,
  space <- [r \in Receipts |-> IF r \in ReceiptsOf(episodes) THEN "own" ELSE "none"],
  supersedes <- [r \in Receipts |-> TheReceipt(Replaced(r))],
  heads <- ReceiptsOf(heads), revocations <- ReceiptsOf(revocations),
  active <- {}, superseded <- {}, revoked <- {}, expired <- {}, lineage <- {},
  projection <- [s \in Scopes |-> {}],
  outbox <- {r.scope : r \in ReceiptsOf(episodes)},
  judgedBy <- [s \in Scopes |-> [registry |-> {}, space |-> "none"]]

\* The handler that looks up, checks, validates and saves in separate steps, and is
\* retried, raced and cut off, does to the store what the atomic operations of
\* GovernedMemory do, each at most once per receipt, no later than one invocation
\* after the receipt expired.
MemorySpec == Memory!Spec

=============================================================================
