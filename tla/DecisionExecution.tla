-------------------------- MODULE DecisionExecution --------------------------
(***************************************************************************)
(* POST /decide and POST /execute: a decision is signed into a snapshot    *)
(* and executed once, while the memory it was taken from goes on changing. *)
(*                                                                         *)
(* /execute verifies the snapshot, takes the decision again from the       *)
(* present memory without the model advisor, compares the digests, and     *)
(* only then acts: the sandbox signs a receipt at once; the GitHub adapter *)
(* creates a file at a path named by the snapshot and signs a receipt for  *)
(* the file it reads back.  Requests to GitHub may be late or lost, their  *)
(* answers too, and a file shows up in reads some time after it exists.    *)
(*                                                                         *)
(* The state of the memory is identified with the digest of the decision   *)
(* it leads to: decision_state_digest hashes everything the decision       *)
(* depends on, its strategy included.                                      *)
(***************************************************************************)
EXTENDS Integers, FiniteSets

CONSTANTS
  Snapshots,       \* what uuid4 may draw
  NoSnapshot, NoCall, NoFile,
  Agents, Strategies, Abstain,
  MemoryStates,
  Decides,         \* [MemoryStates -> Strategies \cup {Abstain}]: the policy
  Providers,       \* EXECUTION_PROVIDER of the processes, old and new, that serve
  Workers,         \* concurrent invocations
  SnapshotTTL,     \* DECISION_SNAPSHOT_TTL_SECONDS
  Timeout,         \* the Lambda's time limit
  Attempts,        \* reads of _get_existing_with_retry
  MaxTime          \* bound on the clock

ASSUME PolicyAssumption ==
  /\ Decides \in [MemoryStates -> Strategies \cup {Abstain}]
  /\ Abstain \notin Strategies
  /\ Providers \subseteq {"sandbox", "github"}

ASSUME NumbersAssumption ==
  /\ SnapshotTTL \in Nat /\ Timeout \in Nat /\ MaxTime \in Nat
  /\ Attempts \in Nat \ {0}

SignedSnapshots ==
  [agent : Agents, strategy : Strategies, digest : MemoryStates, issued : Nat]

\* An invocation: seen is the memory state it last decided from.
Calls ==
  [agent : Agents, snap : Snapshots \cup {NoSnapshot}, seen : MemoryStates \cup {Abstain},
   phase : {"recalled", "verified", "cleared", "absent", "reading"},
   tries : 0..(Attempts - 1), age : Nat]

\* A request to create the file of a snapshot, and the file it creates; seen and
\* sent are history: what it was cleared against and when it was sent.
Files == [snap : Snapshots, strategy : Strategies, seen : MemoryStates, sent : Nat]

\* seen is history.
SignedReceipts ==
  [provider : {"sandbox", "github"}, snap : Snapshots, agent : Agents,
   strategy : Strategies, issued : Nat, seen : MemoryStates \cup {Abstain}]

ASSUME NamesAssumption ==
  /\ NoSnapshot \notin SignedSnapshots \cup Snapshots
  /\ NoCall \notin Calls /\ NoFile \notin Files
  /\ Abstain \notin MemoryStates

VARIABLES
  now,
  memory,     \* the state of the governed memory
  snapshot,   \* [Snapshots -> the signed snapshot]
  call,       \* what each invocation is doing
  inflight,   \* creations sent to GitHub that may still take effect
  file,       \* [Snapshots -> the file at the snapshot's path]
  visible,    \* snapshots whose file every read returns
  receipts    \* signed receipts

githubVars == <<inflight, file, visible>>
vars == <<now, memory, snapshot, call, githubVars, receipts>>

-----------------------------------------------------------------------------

Init ==
  /\ now = 0
  /\ memory \in MemoryStates
  /\ snapshot = [s \in Snapshots |-> NoSnapshot]
  /\ call = [w \in Workers |-> NoCall]
  /\ inflight = {}
  /\ file = [s \in Snapshots |-> NoFile]
  /\ visible = {}
  /\ receipts = {}

At(w, p) == call[w] # NoCall /\ call[w].phase = p
Goto(w, p) == call' = [call EXCEPT ![w].phase = p]
End(w) == call' = [call EXCEPT ![w] = NoCall]

-----------------------------------------------------------------------------
(* /decide *)

\* The memory is read and the policy decides; an abstention gets no snapshot.
Decide(w, a) ==
  /\ call[w] = NoCall
  /\ Decides[memory] # Abstain
  /\ call' = [call EXCEPT ![w] =
       [agent |-> a, snap |-> NoSnapshot, seen |-> memory, phase |-> "recalled",
        tries |-> 0, age |-> 0]]
  /\ UNCHANGED <<now, memory, snapshot, githubVars, receipts>>

\* The advisor has explained the decision, and the snapshot is signed.
IssueSnapshot(w, s) ==
  /\ At(w, "recalled")
  /\ snapshot[s] = NoSnapshot
  /\ snapshot' = [snapshot EXCEPT ![s] =
       [agent |-> call[w].agent, strategy |-> Decides[call[w].seen],
        digest |-> call[w].seen, issued |-> now]]
  /\ End(w)
  /\ UNCHANGED <<now, memory, githubVars, receipts>>

-----------------------------------------------------------------------------
(* /execute *)

Fresh(s) == now <= snapshot[s].issued + SnapshotTTL

\* Mutant: the age of a snapshot is not checked.
AcceptAnyAge(w, a, s) ==
  /\ call[w] = NoCall
  /\ snapshot[s] # NoSnapshot
  /\ call' = [call EXCEPT ![w] =
       [agent |-> a, snap |-> s, seen |-> Abstain, phase |-> "verified",
        tries |-> 0, age |-> 0]]
  /\ UNCHANGED <<now, memory, snapshot, githubVars, receipts>>

\* verify_decision_snapshot: any agent of the scope may execute it.
Accept(w, a, s) ==
  /\ call[w] = NoCall
  /\ snapshot[s] # NoSnapshot
  /\ Fresh(s)
  /\ call' = [call EXCEPT ![w] =
       [agent |-> a, snap |-> s, seen |-> Abstain, phase |-> "verified",
        tries |-> 0, age |-> 0]]
  /\ UNCHANGED <<now, memory, snapshot, githubVars, receipts>>

\* Mutant: the strategies are compared, the digests are not.
StillDecidedStrategy(s) == Decides[memory] = snapshot[s].strategy

\* The deterministic decision of the present memory is the one that was signed.
StillDecided(s) ==
  Decides[memory] = snapshot[s].strategy /\ memory = snapshot[s].digest

Redecide(w) ==
  /\ At(w, "verified")
  /\ IF StillDecided(call[w].snap)
       THEN call' = [call EXCEPT ![w].phase = "cleared", ![w].seen = memory]
       ELSE End(w)
  /\ UNCHANGED <<now, memory, snapshot, githubVars, receipts>>

\* A receipt is signed; what is signed about the decision comes from the snapshot.
Sign(w, provider) ==
  /\ receipts' = receipts \cup
       {[provider |-> provider, snap |-> call[w].snap, agent |-> call[w].agent,
         strategy |-> snapshot[call[w].snap].strategy, issued |-> now,
         seen |-> call[w].seen]}
  /\ End(w)

SandboxExecute(w) ==
  /\ "sandbox" \in Providers /\ At(w, "cleared")
  /\ Sign(w, "sandbox")
  /\ UNCHANGED <<now, memory, snapshot, githubVars>>

-----------------------------------------------------------------------------
(* GitHubContentsExecutionAdapter.execute *)

\* A read of the snapshot's path may or must find the file.
MayFind(s) == file[s] # NoFile
MayMiss(s) == s \notin visible

\* _verify_file: the content is the document of this snapshot and strategy.
Verified(s) == file[s].strategy = snapshot[s].strategy

Found(w) ==
  LET s == call[w].snap
  IN MayFind(s) /\ (IF Verified(s) THEN Sign(w, "github") ELSE End(w) /\ UNCHANGED receipts)

LookUp(w) ==
  /\ "github" \in Providers /\ At(w, "cleared")
  /\ \/ Found(w)
     \/ MayMiss(call[w].snap) /\ Goto(w, "absent") /\ UNCHANGED receipts
  /\ UNCHANGED <<now, memory, snapshot, githubVars>>

Creation(w) ==
  [snap |-> call[w].snap, strategy |-> snapshot[call[w].snap].strategy,
   seen |-> call[w].seen, sent |-> now]

\* The PUT is sent, once, and answered with 201, with 409 or 422, or not at all:
\* whatever the answer, the adapter goes on to read the path.
Put(w) ==
  /\ At(w, "absent")
  /\ inflight' = inflight \cup {Creation(w)}
  /\ Goto(w, "reading")
  /\ UNCHANGED <<now, memory, snapshot, file, visible, receipts>>

\* Mutant: an accepted or conflicting PUT is taken for proof of the file.
ReadBlind(w) ==
  /\ At(w, "reading")
  /\ Sign(w, "github")
  /\ UNCHANGED <<now, memory, snapshot, githubVars>>

\* _get_existing_with_retry: the path is read until the file shows up.
Read(w) ==
  /\ At(w, "reading")
  /\ \/ Found(w)
     \/ /\ MayMiss(call[w].snap)
        /\ IF call[w].tries + 1 < Attempts
             THEN call' = [call EXCEPT ![w].tries = @ + 1]
             ELSE End(w)
        /\ UNCHANGED receipts
  /\ UNCHANGED <<now, memory, snapshot, githubVars>>

-----------------------------------------------------------------------------
(* Environment *)

\* Any commit of another request: see GovernedMemory.
ChangeMemory(m) ==
  /\ m # memory
  /\ memory' = m
  /\ UNCHANGED <<now, snapshot, call, githubVars, receipts>>

\* GitHub creates the file, unless the path is taken.
Create(c) ==
  /\ inflight' = inflight \ {c}
  /\ file' = IF file[c.snap] = NoFile THEN [file EXCEPT ![c.snap] = c] ELSE file
  /\ UNCHANGED <<now, memory, snapshot, call, visible, receipts>>

Lose(c) ==
  /\ inflight' = inflight \ {c}
  /\ UNCHANGED <<now, memory, snapshot, call, file, visible, receipts>>

Propagate(s) ==
  /\ file[s] # NoFile /\ s \notin visible
  /\ visible' = visible \cup {s}
  /\ UNCHANGED <<now, memory, snapshot, call, inflight, file, receipts>>

\* An HTTP error other than 404, 409 and 422, an exception, a crash: no receipt.
Abandon(w) ==
  /\ call[w] # NoCall
  /\ End(w)
  /\ UNCHANGED <<now, memory, snapshot, githubVars, receipts>>

\* A second passes; an invocation at its time limit has to end first.
Tick ==
  /\ now < MaxTime
  /\ \A w \in Workers : call[w] # NoCall => call[w].age < Timeout
  /\ now' = now + 1
  /\ call' = [w \in Workers |->
       IF call[w] = NoCall THEN NoCall ELSE [call[w] EXCEPT !.age = @ + 1]]
  /\ UNCHANGED <<memory, snapshot, githubVars, receipts>>

Next ==
  \/ \E w \in Workers, a \in Agents : Decide(w, a)
  \/ \E w \in Workers, s \in Snapshots : IssueSnapshot(w, s)
  \/ \E w \in Workers, a \in Agents, s \in Snapshots : Accept(w, a, s)
  \/ \E w \in Workers : Redecide(w)
  \/ \E w \in Workers : SandboxExecute(w)
  \/ \E w \in Workers : LookUp(w)
  \/ \E w \in Workers : Put(w)
  \/ \E w \in Workers : Read(w)
  \/ \E w \in Workers : Abandon(w)
  \/ \E m \in MemoryStates : ChangeMemory(m)
  \/ \E c \in inflight : Create(c)
  \/ \E c \in inflight : Lose(c)
  \/ \E s \in Snapshots : Propagate(s)
  \/ Tick

Spec == Init /\ [][Next]_vars

-----------------------------------------------------------------------------
(* Correctness *)

TypeOK ==
  /\ now \in 0..MaxTime
  /\ memory \in MemoryStates
  /\ snapshot \in [Snapshots -> SignedSnapshots \cup {NoSnapshot}]
  /\ call \in [Workers -> Calls \cup {NoCall}]
  /\ inflight \subseteq Files
  /\ file \in [Snapshots -> Files \cup {NoFile}]
  /\ visible \subseteq Snapshots
  /\ receipts \subseteq SignedReceipts

\* The snapshot s authorises strategy k for a request cleared against memory state
\* m, at time t.
Authorises(s, k, m, t) ==
  /\ snapshot[s] # NoSnapshot
  /\ k = snapshot[s].strategy /\ m = snapshot[s].digest
  /\ Decides[m] = k
  /\ t <= snapshot[s].issued + SnapshotTTL + Timeout

\* Every file, and every creation GitHub may still act on, carries the strategy of
\* its snapshot, was cleared against the memory state that was signed, and was sent
\* before the snapshot and one invocation ran out.
EffectsAuthorised ==
  \A c \in inflight \cup {file[s] : s \in Snapshots} :
    c # NoFile => Authorises(c.snap, c.strategy, c.seen, c.sent)

\* The same for what is signed.
ReceiptsAuthorised ==
  \A r \in receipts : Authorises(r.snap, r.strategy, r.seen, r.issued)

\* A signed external receipt means that the file exists with the strategy it names,
\* however the PUT was answered.
ReceiptsProveEffect ==
  \A r \in receipts : r.provider = "github" =>
    file[r.snap] # NoFile /\ file[r.snap].strategy = r.strategy

=============================================================================
