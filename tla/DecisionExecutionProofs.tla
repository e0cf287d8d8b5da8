------------------------ MODULE DecisionExecutionProofs ------------------------
(***************************************************************************)
(* Proofs about DecisionExecution for any policy, any number of snapshots  *)
(* and invocations, any time limits and either provider.                   *)
(***************************************************************************)
EXTENDS DecisionExecution, TLAPS

\* What an invocation knows at each phase: that its snapshot was signed and was
\* fresh when it began, and what the memory was when it was cleared.
Sound(c) ==
  /\ c \in Calls
  /\ c.age <= Timeout
  /\ c.phase = "recalled" => c.seen \in MemoryStates /\ Decides[c.seen] \in Strategies
  /\ c.phase # "recalled" =>
       /\ c.snap \in Snapshots /\ snapshot[c.snap] # NoSnapshot
       /\ now <= snapshot[c.snap].issued + SnapshotTTL + c.age
  /\ c.phase \in {"cleared", "absent", "reading"} =>
       /\ c.seen \in MemoryStates
       /\ c.seen = snapshot[c.snap].digest
       /\ Decides[c.seen] = snapshot[c.snap].strategy

CallsSound == \A w \in Workers : call[w] # NoCall => Sound(call[w])

FilesInPlace == \A s \in Snapshots : file[s] # NoFile => file[s].snap = s

ExecutionInv ==
  /\ TypeOK /\ CallsSound /\ FilesInPlace
  /\ EffectsAuthorised /\ ReceiptsAuthorised /\ ReceiptsProveEffect

\* A signed snapshot is never replaced.
LEMMA SnapshotsStay ==
  ASSUME TypeOK, [Next]_vars, NEW s \in Snapshots, snapshot[s] # NoSnapshot
  PROVE  snapshot'[s] = snapshot[s]
<1>1. CASE \E w \in Workers, t \in Snapshots : IssueSnapshot(w, t)
  BY <1>1 DEF IssueSnapshot, TypeOK
<1>2. CASE snapshot' = snapshot
  BY <1>2
<1> QED
  BY <1>1, <1>2
  DEF Next, vars, githubVars, Decide, Accept, Redecide, SandboxExecute, LookUp, Put, Read,
      Abandon, ChangeMemory, Create, Lose, Propagate, Tick

\* What a snapshot authorises it goes on to authorise.
LEMMA AuthorityStays ==
  ASSUME TypeOK, [Next]_vars, NEW s \in Snapshots, NEW k, NEW m, NEW t,
         Authorises(s, k, m, t)
  PROVE  Authorises(s, k, m, t)'
BY SnapshotsStay DEF Authorises

\* A signature happens to a sound call of a cleared phase, and yields an
\* authorised receipt.
LEMMA SignedSoundly ==
  ASSUME TypeOK, CallsSound, ReceiptsAuthorised, [Next]_vars, snapshot' = snapshot,
         NEW w \in Workers, call[w] # NoCall,
         call[w].phase \in {"cleared", "absent", "reading"},
         NEW provider \in {"sandbox", "github"}, Sign(w, provider)
  PROVE  /\ receipts' \subseteq SignedReceipts
         /\ ReceiptsAuthorised'
<1> DEFINE c == call[w]
           r == [provider |-> provider, snap |-> c.snap, agent |-> c.agent,
                 strategy |-> snapshot[c.snap].strategy, issued |-> now, seen |-> c.seen]
<1>1. Sound(c) /\ c \in Calls
  BY DEF CallsSound, Sound
<1>2. snapshot[c.snap] \in SignedSnapshots
  BY <1>1 DEF Sound, TypeOK
<1>3. r \in SignedReceipts
  BY <1>1, <1>2 DEF Sound, Calls, SignedSnapshots, SignedReceipts, TypeOK
<1>4. receipts' = receipts \cup {r}
  BY DEF Sign
<1>5. Authorises(r.snap, r.strategy, r.seen, r.issued)
  <2>1. c.age \in Nat /\ now \in Nat /\ snapshot[c.snap].issued \in Nat
    BY <1>1, <1>2 DEF Calls, SignedSnapshots, TypeOK
  <2>2. now <= snapshot[c.snap].issued + SnapshotTTL + Timeout
    BY <1>1, <2>1, NumbersAssumption DEF Sound
  <2> QED
    BY <1>1, <2>2 DEF Sound, Authorises
<1>6. \A q \in receipts' : Authorises(q.snap, q.strategy, q.seen, q.issued)
  BY <1>4, <1>5 DEF ReceiptsAuthorised
<1>7. \A q \in receipts' : Authorises(q.snap, q.strategy, q.seen, q.issued)'
  BY <1>6 DEF Authorises
<1> QED
  BY <1>3, <1>4, <1>7 DEF TypeOK, ReceiptsAuthorised

\* The types and the soundness of calls are preserved.
LEMMA CallsStaySound ==
  ASSUME ExecutionInv, [Next]_vars
  PROVE  TypeOK' /\ CallsSound'
<1> USE DEF ExecutionInv
<1> USE PolicyAssumption, NumbersAssumption, NamesAssumption
<1>0. ASSUME NEW v \in Workers, call'[v] = call[v], now' = now, call[v] # NoCall
      PROVE  Sound(call[v])'
  <2>1. Sound(call[v])
    BY <1>0 DEF CallsSound
  <2>2. call[v].phase # "recalled" => snapshot'[call[v].snap] = snapshot[call[v].snap]
    BY <2>1, SnapshotsStay DEF Sound
  <2> QED
    BY <1>0, <2>1, <2>2 DEF Sound
<1>1. ASSUME NEW w \in Workers, call' = [call EXCEPT ![w] = call'[w]],
             Sound(call[w])', now' = now
      PROVE  call' \in [Workers -> Calls \cup {NoCall}] /\ CallsSound'
  <2>1. call'[w] \in Calls
    BY <1>1 DEF Sound
  <2>2. call' \in [Workers -> Calls \cup {NoCall}]
    BY <1>1, <2>1 DEF TypeOK
  <2>3. ASSUME NEW v \in Workers, call'[v] # NoCall PROVE Sound(call[v])'
    <3>1. CASE v = w
      BY <1>1, <3>1
    <3>2. CASE v # w
      BY <1>0, <1>1, <2>3, <3>2 DEF TypeOK
    <3> QED
      BY <3>1, <3>2
  <2> QED
    BY <2>2, <2>3 DEF CallsSound
<1>2. ASSUME NEW w \in Workers, End(w), now' = now
      PROVE  call' \in [Workers -> Calls \cup {NoCall}] /\ CallsSound'
  BY <1>0, <1>2 DEF TypeOK, CallsSound, End
<1>3. ASSUME call' = call, now' = now PROVE CallsSound'
  BY <1>0, <1>3 DEF CallsSound
<1>4. ASSUME NEW w \in Workers, NEW p \in {"absent", "reading"}, At(w, "cleared") \/ At(w, "absent"),
             Goto(w, p), now' = now, snapshot' = snapshot
      PROVE  call' \in [Workers -> Calls \cup {NoCall}] /\ CallsSound'
  <2>1. call[w] \in Calls /\ Sound(call[w])
    BY <1>4 DEF At, CallsSound, Sound
  <2>2. call'[w] = [call[w] EXCEPT !.phase = p] /\ call' = [call EXCEPT ![w] = call'[w]]
    BY <1>4 DEF Goto, TypeOK
  <2>3. call'[w] \in Calls
    BY <2>1, <2>2 DEF Calls
  <2>4. Sound(call[w])'
    BY <1>4, <2>1, <2>2, <2>3 DEF Sound, Calls, At
  <2> QED
    BY <1>1, <1>4, <2>2, <2>4
<1>5. ASSUME NEW w \in Workers, At(w, "cleared") \/ At(w, "reading"), Found(w),
             now' = now, snapshot' = snapshot
      PROVE  /\ call' \in [Workers -> Calls \cup {NoCall}] /\ CallsSound'
             /\ receipts' \subseteq SignedReceipts
  <2>1. End(w)
    BY <1>5 DEF Found, Sign
  <2>2. CASE Sign(w, "github")
    BY <1>2, <1>5, <2>1, <2>2, SignedSoundly DEF At
  <2>3. CASE receipts' = receipts
    BY <1>2, <1>5, <2>1, <2>3 DEF TypeOK
  <2> QED
    BY <1>5, <2>2, <2>3 DEF Found
<1>6. ASSUME NEW w \in Workers, NEW a \in Agents, Decide(w, a) PROVE TypeOK' /\ CallsSound'
  <2>1. /\ call'[w] = [agent |-> a, snap |-> NoSnapshot, seen |-> memory,
                        phase |-> "recalled", tries |-> 0, age |-> 0]
        /\ call' = [call EXCEPT ![w] = call'[w]]
    BY <1>6 DEF Decide, TypeOK
  <2>2. Sound(call[w])'
    BY <1>6, <2>1 DEF Decide, Calls, Sound, TypeOK
  <2> QED
    BY <1>1, <1>6, <2>1, <2>2 DEF Decide, TypeOK, githubVars
<1>7. ASSUME NEW w \in Workers, NEW s \in Snapshots, IssueSnapshot(w, s)
      PROVE  TypeOK' /\ CallsSound'
  <2>1. Sound(call[w])
    BY <1>7 DEF IssueSnapshot, At, CallsSound
  <2>2. [agent |-> call[w].agent, strategy |-> Decides[call[w].seen],
         digest |-> call[w].seen, issued |-> now] \in SignedSnapshots
    BY <1>7, <2>1 DEF IssueSnapshot, At, Sound, Calls, SignedSnapshots, TypeOK
  <2> QED
    BY <1>2, <1>7, <2>2 DEF IssueSnapshot, TypeOK, githubVars
<1>8. ASSUME NEW w \in Workers, NEW a \in Agents, NEW s \in Snapshots, Accept(w, a, s)
      PROVE  TypeOK' /\ CallsSound'
  <2>1. snapshot[s] \in SignedSnapshots
    BY <1>8 DEF Accept, TypeOK
  <2>2. /\ call'[w] = [agent |-> a, snap |-> s, seen |-> Abstain,
                        phase |-> "verified", tries |-> 0, age |-> 0]
        /\ call' = [call EXCEPT ![w] = call'[w]]
    BY <1>8 DEF Accept, TypeOK
  <2>3. Sound(call[w])'
    BY <1>8, <2>1, <2>2 DEF Accept, Fresh, Calls, Sound, SignedSnapshots, TypeOK
  <2> QED
    BY <1>1, <1>8, <2>2, <2>3 DEF Accept, TypeOK, githubVars
<1>9. ASSUME NEW w \in Workers, Redecide(w) PROVE TypeOK' /\ CallsSound'
  <2>1. CASE StillDecided(call[w].snap)
    <3>1. call[w] \in Calls /\ Sound(call[w])
      BY <1>9 DEF Redecide, At, CallsSound, Sound
    <3>2. /\ call'[w] = [call[w] EXCEPT !.phase = "cleared", !.seen = memory]
          /\ call' = [call EXCEPT ![w] = call'[w]]
      BY <1>9, <2>1 DEF Redecide, TypeOK
    <3>3. call'[w] \in Calls
      BY <3>1, <3>2 DEF Calls, TypeOK
    <3>4. Sound(call[w])'
      BY <1>9, <2>1, <3>1, <3>2, <3>3 DEF Redecide, At, StillDecided, Calls, Sound, TypeOK
    <3> QED
      BY <1>1, <1>9, <3>2, <3>4 DEF Redecide, TypeOK, githubVars
  <2>2. CASE ~ StillDecided(call[w].snap)
    BY <1>2, <1>9, <2>2 DEF Redecide, TypeOK, githubVars
  <2> QED
    BY <2>1, <2>2
<1>10. ASSUME NEW w \in Workers, SandboxExecute(w) PROVE TypeOK' /\ CallsSound'
  <2>1. receipts' \subseteq SignedReceipts
    BY <1>10, SignedSoundly DEF SandboxExecute, At
  <2> QED
    BY <1>2, <1>10, <2>1 DEF SandboxExecute, Sign, TypeOK, githubVars
<1>11. ASSUME NEW w \in Workers, LookUp(w) PROVE TypeOK' /\ CallsSound'
  <2>1. CASE Found(w)
    BY <1>5, <1>11, <2>1 DEF LookUp, TypeOK, githubVars
  <2>2. CASE Goto(w, "absent") /\ receipts' = receipts
    BY <1>4, <1>11, <2>2 DEF LookUp, TypeOK, githubVars
  <2> QED
    BY <1>11, <2>1, <2>2 DEF LookUp
<1>12. ASSUME NEW w \in Workers, Put(w) PROVE TypeOK' /\ CallsSound'
  <2>1. Sound(call[w]) /\ call[w] \in Calls
    BY <1>12 DEF Put, At, CallsSound, Sound
  <2>2. Creation(w) \in Files
    BY <1>12, <2>1 DEF Put, At, Creation, Files, Sound, SignedSnapshots, TypeOK
  <2> QED
    BY <1>4, <1>12, <2>2 DEF Put, TypeOK
<1>13. ASSUME NEW w \in Workers, Read(w) PROVE TypeOK' /\ CallsSound'
  <2>1. CASE Found(w)
    BY <1>5, <1>13, <2>1 DEF Read, TypeOK, githubVars
  <2>2. CASE End(w) /\ receipts' = receipts
    BY <1>2, <1>13, <2>2 DEF Read, TypeOK, githubVars
  <2>3. CASE /\ call[w].tries + 1 < Attempts /\ receipts' = receipts
             /\ call' = [call EXCEPT ![w].tries = @ + 1]
    <3>1. call[w] \in Calls /\ Sound(call[w])
      BY <1>13 DEF Read, At, CallsSound, Sound
    <3>2. /\ call'[w] = [call[w] EXCEPT !.tries = @ + 1]
          /\ call' = [call EXCEPT ![w] = call'[w]]
      BY <1>13, <2>3 DEF Read, TypeOK
    <3>3. call'[w] \in Calls
      BY <2>3, <3>1, <3>2 DEF Calls
    <3>4. Sound(call[w])'
      BY <1>13, <3>1, <3>2, <3>3 DEF Read, Calls, Sound
    <3> QED
      BY <1>1, <1>13, <2>3, <3>2, <3>4 DEF Read, TypeOK, githubVars
  <2> QED
    BY <1>13, <2>1, <2>2, <2>3 DEF Read, End
<1>14. ASSUME NEW w \in Workers, Abandon(w) PROVE TypeOK' /\ CallsSound'
  BY <1>2, <1>14 DEF Abandon, TypeOK, githubVars
<1>15. ASSUME NEW m \in MemoryStates, ChangeMemory(m) PROVE TypeOK' /\ CallsSound'
  BY <1>3, <1>15 DEF ChangeMemory, TypeOK, githubVars
<1>16. ASSUME NEW c \in inflight, Create(c) \/ Lose(c) PROVE TypeOK' /\ CallsSound'
  BY <1>3, <1>16 DEF Create, Lose, TypeOK, Files
<1>17. ASSUME NEW s \in Snapshots, Propagate(s) PROVE TypeOK' /\ CallsSound'
  BY <1>3, <1>17 DEF Propagate, TypeOK
<1>18. ASSUME Tick PROVE TypeOK' /\ CallsSound'
  <2>1. ASSUME NEW w \in Workers, call[w] # NoCall
        PROVE  call'[w] \in Calls /\ Sound(call[w])'
    <3>1. call[w] \in Calls /\ Sound(call[w])
      BY <2>1 DEF CallsSound, Sound
    <3>2. call[w].phase # "recalled" => snapshot[call[w].snap].issued \in Nat
      BY <3>1 DEF Sound, TypeOK, SignedSnapshots
    <3>3. call'[w] = [call[w] EXCEPT !.age = @ + 1] /\ call[w].age < Timeout
      BY <1>18, <2>1 DEF Tick
    <3>4. call'[w] \in Calls
      BY <3>1, <3>3 DEF Calls
    <3>5. now' = now + 1 /\ snapshot' = snapshot /\ now \in Nat /\ call[w].age \in Nat
      BY <1>18, <3>1 DEF Tick, TypeOK, Calls
    <3>6. /\ call'[w].age = call[w].age + 1
          /\ call'[w].phase = call[w].phase /\ call'[w].snap = call[w].snap
          /\ call'[w].seen = call[w].seen
      BY <3>1, <3>3 DEF Calls
    <3>7. call'[w].age <= Timeout
      BY <3>3, <3>5, <3>6
    <3>8. call'[w].phase # "recalled" =>
            now' <= snapshot[call[w].snap].issued + SnapshotTTL + call'[w].age
      BY <3>1, <3>2, <3>5, <3>6 DEF Sound
    <3> QED
      BY <3>1, <3>4, <3>5, <3>6, <3>7, <3>8 DEF Sound
  <2>2. now' \in 0..MaxTime
    BY <1>18 DEF Tick, TypeOK
  <2>3. ASSUME NEW w \in Workers, call[w] = NoCall PROVE call'[w] = NoCall
    BY <1>18, <2>3 DEF Tick
  <2>4. call' \in [Workers -> Calls \cup {NoCall}]
    <3>1. \A w \in Workers : call'[w] \in Calls \cup {NoCall}
      BY <2>1, <2>3
    <3> QED
      BY <1>18, <3>1 DEF Tick
  <2>5. CallsSound'
    BY <2>1, <2>3 DEF CallsSound
  <2> QED
    BY <1>18, <2>2, <2>4, <2>5 DEF Tick, TypeOK, githubVars
<1>19. CASE UNCHANGED vars
  BY <1>3, <1>19 DEF vars, TypeOK, githubVars
<1> QED
  BY <1>6, <1>7, <1>8, <1>9, <1>10, <1>11, <1>12, <1>13, <1>14, <1>15, <1>16, <1>17,
     <1>18, <1>19 DEF Next

\* A file, once created, stays as it is.
LEMMA FilesStay ==
  ASSUME TypeOK, [Next]_vars, NEW s \in Snapshots, file[s] # NoFile
  PROVE  file'[s] = file[s]
<1>1. CASE \E c \in inflight : Create(c)
  BY <1>1 DEF Create, TypeOK
<1>2. CASE file' = file
  BY <1>2
<1> QED
  BY <1>1, <1>2
  DEF Next, vars, githubVars, Decide, IssueSnapshot, Accept, Redecide, SandboxExecute, LookUp,
      Put, Read, Abandon, ChangeMemory, Lose, Propagate, Tick

\* What is in flight and what exists stays authorised.
LEMMA EffectsStayAuthorised ==
  ASSUME ExecutionInv, [Next]_vars
  PROVE  FilesInPlace' /\ EffectsAuthorised'
<1> USE DEF ExecutionInv
<1>1. ASSUME NEW c \in inflight
      PROVE  c \in Files /\ Authorises(c.snap, c.strategy, c.seen, c.sent)'
  <2>1. c \in Files /\ c # NoFile /\ c.snap \in Snapshots
    BY NamesAssumption DEF TypeOK, Files
  <2>2. Authorises(c.snap, c.strategy, c.seen, c.sent)
    BY <2>1 DEF EffectsAuthorised
  <2> QED
    BY <2>1, <2>2, AuthorityStays
<1>2. ASSUME NEW s \in Snapshots, file[s] # NoFile
      PROVE  Authorises(file[s].snap, file[s].strategy, file[s].seen, file[s].sent)'
  <2>1. file[s].snap = s
    BY <1>2 DEF FilesInPlace
  <2>2. Authorises(file[s].snap, file[s].strategy, file[s].seen, file[s].sent)
    BY <1>2 DEF EffectsAuthorised
  <2>3. file'[s] = file[s]
    BY <1>2, FilesStay
  <2>4. ASSUME NEW g, g = file[s]
        PROVE  Authorises(g.snap, g.strategy, g.seen, g.sent)'
    BY <2>1, <2>2, <2>4, AuthorityStays
  <2> QED
    BY <2>3, <2>4
<1>3. ASSUME inflight' \subseteq inflight, file' = file
      PROVE  FilesInPlace' /\ EffectsAuthorised'
  BY <1>1, <1>2, <1>3 DEF FilesInPlace, EffectsAuthorised
<1>4. ASSUME NEW w \in Workers, Put(w) PROVE FilesInPlace' /\ EffectsAuthorised'
  <2> DEFINE c == Creation(w)
  <2>1. Sound(call[w]) /\ call[w] \in Calls /\ call[w].phase = "absent"
    BY <1>4 DEF Put, At, CallsSound, Sound
  <2>2. snapshot[call[w].snap] \in SignedSnapshots
    BY <2>1 DEF Sound, TypeOK
  <2>3. /\ call[w].age \in Nat /\ now \in Nat
        /\ snapshot[call[w].snap].issued \in Nat
        /\ now <= snapshot[call[w].snap].issued + SnapshotTTL + Timeout
    BY <2>1, <2>2, NumbersAssumption DEF Sound, Calls, SignedSnapshots, TypeOK
  <2>4. Authorises(c.snap, c.strategy, c.seen, c.sent)
    BY <2>1, <2>3 DEF Sound, Authorises, Creation
  <2>5. ASSUME NEW d, d = c PROVE Authorises(d.snap, d.strategy, d.seen, d.sent)'
    <3>1. d.snap \in Snapshots
      BY <2>1, <2>5 DEF Creation, Sound
    <3> QED
      BY <2>4, <2>5, <3>1, AuthorityStays
  <2>6. inflight' = inflight \cup {c} /\ file' = file
    BY <1>4 DEF Put
  <2> QED
    BY <1>1, <1>2, <2>5, <2>6 DEF FilesInPlace, EffectsAuthorised
<1>5. ASSUME NEW c \in inflight, Create(c) PROVE FilesInPlace' /\ EffectsAuthorised'
  <2>1. inflight' \subseteq inflight
    BY <1>5 DEF Create
  <2>2. c \in Files /\ c.snap \in Snapshots
    BY DEF TypeOK, Files
  <2>3. ASSUME NEW s \in Snapshots, file'[s] # NoFile
        PROVE  /\ file'[s].snap = s
               /\ Authorises(file[s].snap, file[s].strategy, file[s].seen, file[s].sent)'
    <3>1. CASE file[s] # NoFile
      BY <1>2, <3>1, FilesStay DEF FilesInPlace
    <3>2. CASE file[s] = NoFile
      <4>1. file'[s] = c /\ c.snap = s
        BY <1>5, <2>2, <2>3, <3>2 DEF Create, TypeOK
      <4> QED
        BY <1>1, <4>1
    <3> QED
      BY <3>1, <3>2
  <2> QED
    BY <1>1, <2>1, <2>3 DEF FilesInPlace, EffectsAuthorised
<1>6. ASSUME NEW c \in inflight, Lose(c) PROVE FilesInPlace' /\ EffectsAuthorised'
  BY <1>3, <1>6 DEF Lose
<1>7. CASE inflight' = inflight /\ file' = file
  BY <1>3, <1>7
<1> QED
  BY <1>4, <1>5, <1>6, <1>7
  DEF Next, vars, githubVars, Decide, IssueSnapshot, Accept, Redecide, SandboxExecute, LookUp,
      Read, Abandon, ChangeMemory, Propagate, Tick

\* A receipt is signed by the sandbox, or for a file that was read and verified.
LEMMA OnlySignedReceipts ==
  ASSUME [Next]_vars, receipts' # receipts
  PROVE  \E w \in Workers, provider \in {"sandbox", "github"} :
           /\ call[w] # NoCall /\ call[w].phase \in {"cleared", "reading"}
           /\ Sign(w, provider) /\ snapshot' = snapshot /\ file' = file
           /\ provider = "sandbox" \/
                (file[call[w].snap] # NoFile /\ Verified(call[w].snap))
<1>1. CASE \E w \in Workers : SandboxExecute(w)
  BY <1>1 DEF SandboxExecute, At, githubVars
<1>2. ASSUME NEW w \in Workers, LookUp(w) \/ Read(w)
      PROVE  /\ call[w] # NoCall /\ call[w].phase \in {"cleared", "reading"}
             /\ Sign(w, "github") /\ snapshot' = snapshot /\ file' = file
             /\ file[call[w].snap] # NoFile /\ Verified(call[w].snap)
  BY <1>2 DEF LookUp, Read, At, Found, MayFind, githubVars
<1> QED
  BY <1>1, <1>2
  DEF Next, vars, githubVars, Decide, IssueSnapshot, Accept, Redecide, Put, Abandon,
      ChangeMemory, Create, Lose, Propagate, Tick

\* Receipts stay authorised and go on to prove their file.
LEMMA ReceiptsStayAuthorised ==
  ASSUME ExecutionInv, [Next]_vars
  PROVE  ReceiptsAuthorised' /\ ReceiptsProveEffect'
<1> USE DEF ExecutionInv
<1>1. ASSUME NEW r \in receipts
      PROVE  /\ Authorises(r.snap, r.strategy, r.seen, r.issued)'
             /\ r.provider = "github" =>
                  file'[r.snap] # NoFile /\ file'[r.snap].strategy = r.strategy
  <2>1. r.snap \in Snapshots
    BY DEF TypeOK, SignedReceipts
  <2>2. Authorises(r.snap, r.strategy, r.seen, r.issued)'
    BY <2>1, AuthorityStays DEF ReceiptsAuthorised
  <2>3. r.provider = "github" =>
          file'[r.snap] # NoFile /\ file'[r.snap].strategy = r.strategy
    BY <2>1, FilesStay DEF ReceiptsProveEffect
  <2> QED
    BY <2>2, <2>3
<1>2. CASE receipts' = receipts
  BY <1>1, <1>2 DEF ReceiptsAuthorised, ReceiptsProveEffect
<1>3. CASE receipts' # receipts
  <2>1. PICK w \in Workers, provider \in {"sandbox", "github"} :
          /\ call[w] # NoCall /\ call[w].phase \in {"cleared", "reading"}
          /\ Sign(w, provider) /\ snapshot' = snapshot /\ file' = file
          /\ provider = "sandbox" \/
               (file[call[w].snap] # NoFile /\ Verified(call[w].snap))
    BY <1>3, OnlySignedReceipts
  <2>2. ReceiptsAuthorised'
    BY <2>1, SignedSoundly
  <2>3. ASSUME NEW r \in receipts', r \notin receipts, r.provider = "github"
        PROVE  file'[r.snap] # NoFile /\ file'[r.snap].strategy = r.strategy
    BY <2>1, <2>3 DEF Sign, Verified
  <2>4. ReceiptsProveEffect'
    BY <1>1, <2>3 DEF ReceiptsProveEffect
  <2> QED
    BY <2>2, <2>4
<1> QED
  BY <1>2, <1>3

-----------------------------------------------------------------------------

LEMMA InitiallyInvariant == Init => ExecutionInv
BY NumbersAssumption
DEF Init, ExecutionInv, TypeOK, CallsSound, FilesInPlace, EffectsAuthorised,
    ReceiptsAuthorised, ReceiptsProveEffect

LEMMA StepsKeepInvariant == ExecutionInv /\ [Next]_vars => ExecutionInv'
BY CallsStaySound, EffectsStayAuthorised, ReceiptsStayAuthorised DEF ExecutionInv

THEOREM Invariance == Spec => []ExecutionInv
BY InitiallyInvariant, StepsKeepInvariant, PTL DEF Spec

\* Every variable keeps to its type; in particular a receipt only ever names a
\* snapshot that was signed with a strategy (execution.py 300-424).
THEOREM TypeCorrect == Spec => []TypeOK
BY Invariance, PTL DEF ExecutionInv

\* Nothing reaches GitHub, now or late, but what its snapshot names, cleared against
\* the signed state of the memory, within the snapshot's time and one invocation
\* (aws_lambda.py 1562-1592, execution_adapters.py 225-273).
THEOREM EffectsAreAuthorised == Spec => []EffectsAuthorised
BY Invariance, PTL DEF ExecutionInv

\* The same of every receipt either provider signs (execution.py 300-424).
THEOREM ReceiptsAreAuthorised == Spec => []ReceiptsAuthorised
BY Invariance, PTL DEF ExecutionInv

\* A GitHub receipt is only signed for a file that exists with the strategy it names
\* (execution_adapters.py 182-273).
THEOREM ReceiptsProveTheEffect == Spec => []ReceiptsProveEffect
BY Invariance, PTL DEF ExecutionInv

=============================================================================
