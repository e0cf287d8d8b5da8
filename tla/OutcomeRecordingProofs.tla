------------------------ MODULE OutcomeRecordingProofs ------------------------
(***************************************************************************)
(* Proofs about OutcomeRecording for any receipts, any number of           *)
(* invocations and faults, and any time limits.                            *)
(***************************************************************************)
EXTENDS OutcomeRecording, TLAPS

\* What an invocation knows: a replay is answered by its lookup, and an invocation
\* that may save saw its receipt fresh at most its own age ago.
Sound(c) ==
  /\ c \in Calls
  /\ c.age <= Timeout
  /\ c.replay => c.phase = "verified" /\ Existing(c.receipt) # {}
  /\ c.phase \in {"fresh", "valid"} => now <= c.receipt.observed + ReceiptTTL + c.age

CallsSound == \A w \in Workers : call[w] # NoCall => Sound(call[w])

RecordingInv ==
  /\ TypeOK /\ CallsSound
  /\ RepliesAgree /\ ReplayAnswered /\ RecordedFresh /\ OneSuccessor

\* The only way a store changes: a commit, or a withdrawal that takes a head away.
LEMMA StoreSteps ==
  ASSUME [Next]_vars
  PROVE  \/ storeVars' = storeVars
         \/ \E w \in Workers, n \in EpisodeIds : Commit(w, n)
         \/ \E h \in heads :
              /\ heads' = heads \ {h} /\ revocations' = revocations \cup {h}
              /\ episodes' = episodes
BY DEF Next, Handle, vars, storeVars, Begin, LookUp, CheckAge, Validate, Save, SaveUnseen,
       SaveRejected, SaveFails, Recover, Crash, Withdraw, Tick

\* What was recorded stays recorded.
LEMMA EpisodesStay ==
  ASSUME [Next]_vars
  PROVE  episodes \subseteq episodes'
BY StoreSteps DEF Commit, storeVars

\* A commit inserts a new episode of its receipt, which had none, and the only new
\* head it can make is that episode.
LEMMA CommitFacts ==
  ASSUME TypeOK, NEW w \in Workers, NEW n \in EpisodeIds, Commit(w, n), call[w] \in Calls
  PROVE  LET e == Inserted(w, n)
         IN /\ e \in Episodes /\ e \notin episodes
            /\ episodes' = episodes \cup {e}
            /\ heads' \subseteq heads \cup {e} /\ heads' \subseteq episodes'
            /\ revocations' = revocations
            /\ Existing(e.receipt) = {}
<1> DEFINE e == Inserted(w, n)
<1>1. e \in Episodes
  BY DEF TypeOK, Inserted, Episodes, Calls
<1>2. e.id = n /\ e \notin episodes
  BY DEF Inserted, Commit
<1>3. episodes' = episodes \cup {e} /\ heads' = HeadsAfter(e) /\ revocations' = revocations
  BY DEF Commit
<1>4. heads' \subseteq heads \cup {e}
  BY <1>3 DEF HeadsAfter
<1>5. Existing(e.receipt) = {}
  BY DEF Commit, Rejected, Inserted
<1> QED
  BY <1>1, <1>2, <1>3, <1>4, <1>5 DEF TypeOK

-----------------------------------------------------------------------------
(* Invocations *)

LEMMA CallsStaySound ==
  ASSUME TypeOK, CallsSound, [Next]_vars
  PROVE  call' \in [Workers -> Calls \cup {NoCall}] /\ CallsSound'
<1> USE ReceiptsAssumption, NumbersAssumption
<1>1. ASSUME NEW v \in Workers, call[v] # NoCall, call'[v] = call[v], now' = now
      PROVE  Sound(call[v])'
  BY <1>1, EpisodesStay DEF CallsSound, Sound, Existing
<1>2. ASSUME NEW w \in Workers, call' = [call EXCEPT ![w] = call'[w]], Sound(call[w])',
             now' = now
      PROVE  call' \in [Workers -> Calls \cup {NoCall}] /\ CallsSound'
  <2>1. call'[w] \in Calls
    BY <1>2 DEF Sound
  <2>2. call' \in [Workers -> Calls \cup {NoCall}]
    BY <1>2, <2>1 DEF TypeOK
  <2>3. ASSUME NEW v \in Workers, call'[v] # NoCall PROVE Sound(call[v])'
    <3>1. CASE v = w
      BY <1>2, <3>1
    <3>2. CASE v # w
      BY <1>1, <1>2, <2>3, <3>2 DEF TypeOK
    <3> QED
      BY <3>1, <3>2
  <2> QED
    BY <2>2, <2>3 DEF CallsSound
<1>3. ASSUME NEW w \in Workers, call' = [call EXCEPT ![w] = NoCall], now' = now
      PROVE  call' \in [Workers -> Calls \cup {NoCall}] /\ CallsSound'
  BY <1>1, <1>3 DEF TypeOK, CallsSound
<1>4. ASSUME call' = call, now' = now
      PROVE  call' \in [Workers -> Calls \cup {NoCall}] /\ CallsSound'
  BY <1>1, <1>4 DEF TypeOK, CallsSound
<1>5. ASSUME NEW w \in Workers, NEW p \in Phases, call[w] # NoCall, ~ call[w].replay,
             Goto(w, p), now' = now,
             p \in {"fresh", "valid"} =>
               now <= call[w].receipt.observed + ReceiptTTL + call[w].age
      PROVE  call' \in [Workers -> Calls \cup {NoCall}] /\ CallsSound'
  <2>1. call[w] \in Calls /\ Sound(call[w])
    BY <1>5 DEF CallsSound, Sound
  <2>2. call'[w] = [call[w] EXCEPT !.phase = p] /\ call' = [call EXCEPT ![w] = call'[w]]
    BY <1>5 DEF Goto, TypeOK
  <2>3. call'[w] \in Calls
    BY <2>1, <2>2 DEF Calls
  <2>4. Sound(call[w])'
    BY <1>5, <2>1, <2>2, <2>3 DEF Sound, Calls
  <2> QED
    BY <1>2, <1>5, <2>2, <2>4
<1>6. ASSUME NEW w \in Workers, NEW r \in Receipts, NEW t \in EpisodeIds \cup {NoTarget},
             Begin(w, r, t)
      PROVE  call' \in [Workers -> Calls \cup {NoCall}] /\ CallsSound'
  <2>1. /\ call'[w] = [receipt |-> r, target |-> t, replay |-> Existing(r) # {},
                        phase |-> "verified", age |-> 0]
        /\ call' = [call EXCEPT ![w] = call'[w]] /\ now' = now /\ episodes' = episodes
    BY <1>6 DEF Begin, TypeOK, storeVars
  <2>2. call'[w] \in Calls
    BY <2>1 DEF Calls, Phases
  <2>3. /\ call'[w].receipt = r /\ call'[w].phase = "verified" /\ call'[w].age = 0
        /\ call'[w].replay = (Existing(r) # {})
    BY <2>1
  <2>4. Existing(r)' = Existing(r)
    BY <2>1 DEF Existing
  <2>5. Sound(call[w])'
    <3>1. call'[w].age <= Timeout /\ call'[w].phase \notin {"fresh", "valid"}
      BY <2>3
    <3>2. call'[w].replay => Existing(call[w].receipt)' # {}
      <4>1. Existing(call[w].receipt)' = Existing(r)
        BY <2>3, <2>4
      <4> QED
        BY <2>3, <4>1, Zenon
    <3> QED
      BY <2>2, <2>3, <3>1, <3>2 DEF Sound
  <2> QED
    BY <1>2, <2>1, <2>5
<1>7. ASSUME NEW w \in Workers, At(w, "missing") \/ At(w, "fresh") \/ At(w, "valid")
      PROVE  call[w] # NoCall /\ ~ call[w].replay
  BY <1>7 DEF At, CallsSound, Sound
<1>8. ASSUME NEW w \in Workers, LookUp(w)
      PROVE  call' \in [Workers -> Calls \cup {NoCall}] /\ CallsSound'
  <2>1. CASE Existing(call[w].receipt) = {}
    <3>1. ~ call[w].replay
      BY <1>8, <2>1 DEF LookUp, At, CallsSound, Sound
    <3>2. call[w] # NoCall /\ Goto(w, "missing") /\ now' = now
      BY <1>8, <2>1 DEF LookUp, At
    <3> QED
      BY <1>5, <3>1, <3>2 DEF Phases
  <2>2. CASE Existing(call[w].receipt) # {}
    BY <1>3, <1>8, <2>2 DEF LookUp, AnswerExisting, Reply
  <2> QED
    BY <2>1, <2>2
<1>9. ASSUME NEW w \in Workers, CheckAge(w)
      PROVE  call' \in [Workers -> Calls \cup {NoCall}] /\ CallsSound'
  <2>1. CASE now <= call[w].receipt.observed + ReceiptTTL
    <3>1. /\ call[w] # NoCall /\ ~ call[w].replay
          /\ call[w].age \in Nat /\ call[w].receipt.observed \in Nat /\ now \in Nat
      BY <1>7, <1>9 DEF CheckAge, At, CallsSound, Sound, Calls, TypeOK
    <3>2. now <= call[w].receipt.observed + ReceiptTTL + call[w].age
      BY <2>1, <3>1
    <3> QED
      BY <1>5, <1>9, <2>1, <3>1, <3>2 DEF CheckAge, Phases
  <2>2. CASE ~ (now <= call[w].receipt.observed + ReceiptTTL)
    BY <1>3, <1>9, <2>2 DEF CheckAge, Reply
  <2> QED
    BY <2>1, <2>2
<1>10. ASSUME NEW w \in Workers, Validate(w)
       PROVE  call' \in [Workers -> Calls \cup {NoCall}] /\ CallsSound'
  <2>1. CASE Supersedable(call[w].receipt, call[w].target)
    BY <1>5, <1>7, <1>10, <2>1 DEF Validate, At, Phases, CallsSound, Sound
  <2>2. CASE ~ Supersedable(call[w].receipt, call[w].target)
    BY <1>3, <1>10, <2>2 DEF Validate, Reply
  <2> QED
    BY <2>1, <2>2
<1>11. ASSUME NEW w \in Workers, NEW n \in EpisodeIds, Save(w, n)
       PROVE  call' \in [Workers -> Calls \cup {NoCall}] /\ CallsSound'
  BY <1>3, <1>11 DEF Save, Reply
<1>12. ASSUME NEW w \in Workers,
              SaveRejected(w) \/ SaveFails(w) \/ \E n \in EpisodeIds : SaveUnseen(w, n)
       PROVE  call' \in [Workers -> Calls \cup {NoCall}] /\ CallsSound'
  <2>1. At(w, "valid") /\ Goto(w, "failed") /\ now' = now
    BY <1>12 DEF SaveRejected, SaveFails, SaveUnseen, Commit
  <2> QED
    BY <1>5, <1>7, <2>1 DEF Phases
<1>13. ASSUME NEW w \in Workers, Recover(w) \/ Crash(w)
       PROVE  call' \in [Workers -> Calls \cup {NoCall}] /\ CallsSound'
  BY <1>3, <1>13 DEF Recover, Crash, AnswerExisting, Reply
<1>14. ASSUME Tick
       PROVE  call' \in [Workers -> Calls \cup {NoCall}] /\ CallsSound'
  <2>1. ASSUME NEW w \in Workers, call[w] # NoCall
        PROVE  call'[w] \in Calls /\ Sound(call[w])'
    <3>1. call[w] \in Calls /\ Sound(call[w])
      BY <2>1 DEF CallsSound, Sound
    <3>2. call'[w] = [call[w] EXCEPT !.age = @ + 1] /\ call[w].age < Timeout
      BY <1>14, <2>1 DEF Tick
    <3>3. call'[w] \in Calls
      BY <3>1, <3>2 DEF Calls
    <3>4. /\ now' = now + 1 /\ episodes' = episodes
          /\ now \in Nat /\ call[w].age \in Nat /\ call[w].receipt.observed \in Nat
      BY <1>14, <3>1 DEF Tick, TypeOK, Calls, storeVars
    <3>5. /\ call'[w].age = call[w].age + 1 /\ call'[w].phase = call[w].phase
          /\ call'[w].receipt = call[w].receipt /\ call'[w].replay = call[w].replay
      BY <3>1, <3>2 DEF Calls
    <3>6. call'[w].age <= Timeout
      BY <3>2, <3>4, <3>5
    <3>7. call'[w].phase \in {"fresh", "valid"} =>
            now' <= call'[w].receipt.observed + ReceiptTTL + call'[w].age
      BY <3>1, <3>4, <3>5 DEF Sound
    <3> QED
      BY <3>1, <3>3, <3>4, <3>5, <3>6, <3>7 DEF Sound, Existing
  <2>2. ASSUME NEW w \in Workers, call[w] = NoCall PROVE call'[w] = NoCall
    BY <1>14, <2>2 DEF Tick
  <2>3. \A w \in Workers : call'[w] \in Calls \cup {NoCall}
    BY <2>1, <2>2
  <2> QED
    BY <1>14, <2>1, <2>2, <2>3 DEF Tick, CallsSound
<1>15. ASSUME NEW h \in heads, Withdraw(h)
       PROVE  call' \in [Workers -> Calls \cup {NoCall}] /\ CallsSound'
  BY <1>4, <1>15 DEF Withdraw
<1>16. CASE UNCHANGED vars
  BY <1>4, <1>16 DEF vars
<1> QED
  BY <1>6, <1>8, <1>9, <1>10, <1>11, <1>12, <1>13, <1>14, <1>15, <1>16 DEF Next, Handle

-----------------------------------------------------------------------------
(* Answers *)

\* Every new reply names an episode of its receipt, or refuses a call that began
\* before the receipt was recorded.
LEMMA NewAnswers ==
  ASSUME TypeOK, CallsSound, [Next]_vars, NEW a \in answers', a \notin answers
  PROVE  \E w \in Workers :
           /\ call[w] # NoCall /\ a.receipt = call[w].receipt /\ a.replay = call[w].replay
           /\ a \in [receipt : Receipts, reply : EpisodeIds \cup {Refused}, replay : BOOLEAN]
           /\ \/ a.reply = Refused /\ ~ call[w].replay
              \/ \E e \in episodes' : e.receipt.id = a.receipt.id /\ e.id = a.reply
<1> DEFINE Named(w) ==
      /\ call[w] # NoCall /\ a.receipt = call[w].receipt /\ a.replay = call[w].replay
      /\ a \in [receipt : Receipts, reply : EpisodeIds \cup {Refused}, replay : BOOLEAN]
      /\ \/ a.reply = Refused /\ ~ call[w].replay
         \/ \E e \in episodes' : e.receipt.id = a.receipt.id /\ e.id = a.reply
<1>1. ASSUME NEW w \in Workers, call[w] # NoCall, ~ call[w].replay, Reply(w, Refused)
      PROVE  Named(w)
  <2>1. call[w] \in Calls
    BY <1>1 DEF TypeOK
  <2> QED
    BY <1>1, <2>1 DEF Reply, Answered, Calls
<1>2. ASSUME NEW w \in Workers, call[w] # NoCall, AnswerExisting(w)
      PROVE  Named(w)
  <2>1. PICK e \in Existing(call[w].receipt) : Reply(w, e.id)
    BY <1>2 DEF AnswerExisting
  <2>2. e \in episodes' /\ e.receipt.id = call[w].receipt.id /\ e.id \in EpisodeIds
    BY <2>1, EpisodesStay DEF Existing, TypeOK, Episodes
  <2>3. call[w] \in Calls
    BY <1>2 DEF TypeOK
  <2>4. a = [receipt |-> call[w].receipt, reply |-> e.id, replay |-> call[w].replay]
    BY <2>1 DEF Reply, Answered
  <2> QED
    BY <1>2, <2>2, <2>3, <2>4 DEF Calls
<1>3. ASSUME NEW w \in Workers, At(w, "missing") \/ At(w, "fresh") \/ At(w, "valid")
                                \/ At(w, "failed")
      PROVE  call[w] # NoCall /\ ~ call[w].replay
  BY <1>3 DEF At, CallsSound, Sound
<1>4. ASSUME NEW w \in Workers, LookUp(w) PROVE Named(w)
  BY <1>2, <1>4 DEF LookUp, At
<1>5. ASSUME NEW w \in Workers, CheckAge(w) \/ Validate(w) PROVE Named(w)
  BY <1>1, <1>3, <1>5 DEF CheckAge, Validate
<1>6. ASSUME NEW w \in Workers, Recover(w) PROVE Named(w)
  BY <1>1, <1>2, <1>3, <1>6 DEF Recover
<1>7. ASSUME NEW w \in Workers, NEW n \in EpisodeIds, Save(w, n) PROVE Named(w)
  <2>1. call[w] \in Calls /\ call[w] # NoCall
    BY <1>7 DEF Save, Commit, At, TypeOK
  <2>2. a = [receipt |-> call[w].receipt, reply |-> n, replay |-> call[w].replay]
    BY <1>7 DEF Save, Reply, Answered
  <2>3. /\ Inserted(w, n) \in episodes' /\ Inserted(w, n).id = n
        /\ Inserted(w, n).receipt = call[w].receipt
    BY <1>7 DEF Save, Commit, Inserted
  <2>4. \E e \in episodes' : e.receipt.id = a.receipt.id /\ e.id = a.reply
    BY <2>2, <2>3
  <2>5. a \in [receipt : Receipts, reply : EpisodeIds \cup {Refused}, replay : BOOLEAN]
    BY <2>1, <2>2 DEF Calls
  <2> QED
    BY <2>1, <2>2, <2>4, <2>5
<1>8. \E w \in Workers : \/ LookUp(w) \/ CheckAge(w) \/ Validate(w) \/ Recover(w)
                         \/ \E n \in EpisodeIds : Save(w, n)
  BY DEF Next, Handle, vars, Begin, SaveUnseen, SaveRejected, SaveFails, Crash, Withdraw, Tick
<1> QED
  BY <1>4, <1>5, <1>6, <1>7, <1>8

-----------------------------------------------------------------------------
(* The invariant *)

LEMMA StoreStaysSound ==
  ASSUME RecordingInv, [Next]_vars
  PROVE  /\ episodes' \subseteq Episodes /\ heads' \subseteq episodes'
         /\ revocations' \subseteq episodes'
         /\ \A e, f \in episodes' : e.receipt.id = f.receipt.id => e = f
         /\ RecordedFresh' /\ OneSuccessor'
<1> USE DEF RecordingInv
<1>1. CASE storeVars' = storeVars
  BY <1>1 DEF storeVars, TypeOK, RepliesAgree, RecordedFresh, OneSuccessor
<1>2. ASSUME NEW h \in heads, heads' = heads \ {h},
             revocations' = revocations \cup {h}, episodes' = episodes
      PROVE  /\ heads' \subseteq episodes' /\ revocations' \subseteq episodes'
             /\ RecordedFresh' /\ OneSuccessor'
  BY <1>2 DEF TypeOK, RecordedFresh, OneSuccessor
<1>3. ASSUME NEW w \in Workers, NEW n \in EpisodeIds, Commit(w, n)
      PROVE  /\ episodes' \subseteq Episodes /\ heads' \subseteq episodes'
             /\ revocations' \subseteq episodes'
             /\ \A e, f \in episodes' : e.receipt.id = f.receipt.id => e = f
             /\ RecordedFresh' /\ OneSuccessor'
  <2>1. /\ call[w] \in Calls /\ call[w].phase = "valid" /\ call[w].age <= Timeout
        /\ now <= call[w].receipt.observed + ReceiptTTL + call[w].age
    BY <1>3 DEF Commit, At, CallsSound, Sound
  <2>2. PICK e : e = Inserted(w, n)
    OBVIOUS
  <2>3. /\ e \in Episodes /\ e \notin episodes
        /\ episodes' = episodes \cup {e}
        /\ heads' \subseteq heads \cup {e} /\ heads' \subseteq episodes'
        /\ revocations' = revocations
        /\ Existing(e.receipt) = {}
    BY <1>3, <2>1, <2>2, CommitFacts
  <2>4. \A f, g \in episodes' : f.receipt.id = g.receipt.id => f = g
    BY <2>3 DEF RepliesAgree, Existing
  <2>5. e.recorded <= e.receipt.observed + ReceiptTTL + Timeout
    <3>1. e.recorded = now /\ e.receipt = call[w].receipt
      BY <2>2 DEF Inserted
    <3>2. /\ now \in Nat /\ call[w].age \in Nat /\ call[w].receipt.observed \in Nat
          /\ ReceiptTTL \in Nat /\ Timeout \in Nat
      BY <2>1, ReceiptsAssumption, NumbersAssumption DEF TypeOK, Calls
    <3> QED
      BY <2>1, <3>1, <3>2
  <2>6. RecordedFresh'
    BY <2>3, <2>5 DEF RecordedFresh
  <2>7. ASSUME e.supersedes # NoTarget
        PROVE  /\ Successors(e.supersedes) = {}
               /\ \E t \in episodes' \ heads' :
                    /\ t.id = e.supersedes /\ t.receipt.producer = e.receipt.producer
                    /\ t.receipt.observed < e.receipt.observed
    <3>1. Successors(e.supersedes) = {} /\ Superseded(e.receipt, e.supersedes) # {}
      BY <1>3, <2>2, <2>7 DEF Commit, Rejected, Inserted
    <3>2. heads' = HeadsAfter(e)
      BY <1>3, <2>2 DEF Commit
    <3>3. PICK t \in Superseded(e.receipt, e.supersedes) : TRUE
      BY <3>1
    <3>4. t \in episodes /\ t # e
      BY <2>3, <3>3 DEF Superseded, TypeOK
    <3>5. t \notin heads'
      BY <3>2, <3>3, <3>4 DEF HeadsAfter
    <3> QED
      BY <2>3, <3>1, <3>3, <3>4, <3>5 DEF Superseded
  <2>8. ASSUME NEW f \in episodes, f.supersedes # NoTarget
        PROVE  \E t \in episodes' \ heads' :
                 /\ t.id = f.supersedes /\ t.receipt.producer = f.receipt.producer
                 /\ t.receipt.observed < f.receipt.observed
    BY <2>3, <2>8 DEF OneSuccessor
  <2>9. \A f, g \in episodes' :
          f.supersedes # NoTarget /\ f.supersedes = g.supersedes => f = g
    BY <2>3, <2>7 DEF OneSuccessor, Successors
  <2>10. OneSuccessor'
    BY <2>3, <2>7, <2>8, <2>9 DEF OneSuccessor
  <2> QED
    BY <2>3, <2>4, <2>6, <2>10 DEF TypeOK
<1> QED
  BY <1>1, <1>2, <1>3, StoreSteps DEF TypeOK, RepliesAgree

LEMMA AnswersStaySound ==
  ASSUME RecordingInv, [Next]_vars
  PROVE  /\ answers' \subseteq
              [receipt : Receipts, reply : EpisodeIds \cup {Refused}, replay : BOOLEAN]
         /\ \A a \in answers' : a.reply # Refused =>
              \E e \in episodes' : e.receipt.id = a.receipt.id /\ e.id = a.reply
         /\ ReplayAnswered'
<1> USE DEF RecordingInv
<1>1. ASSUME NEW a \in answers', a \notin answers
      PROVE  /\ a \in [receipt : Receipts, reply : EpisodeIds \cup {Refused}, replay : BOOLEAN]
             /\ a.reply # Refused =>
                  \E e \in episodes' : e.receipt.id = a.receipt.id /\ e.id = a.reply
             /\ a.replay => a.reply # Refused
  <2>1. PICK w \in Workers :
          /\ call[w] # NoCall /\ a.receipt = call[w].receipt /\ a.replay = call[w].replay
          /\ a \in [receipt : Receipts, reply : EpisodeIds \cup {Refused}, replay : BOOLEAN]
          /\ \/ a.reply = Refused /\ ~ call[w].replay
             \/ \E e \in episodes' : e.receipt.id = a.receipt.id /\ e.id = a.reply
    BY <1>1, NewAnswers
  <2>2. episodes' \subseteq Episodes /\ Refused \notin EpisodeIds
    BY StoreStaysSound, ReceiptsAssumption
  <2> QED
    BY <2>1, <2>2 DEF Episodes
<1>2. ASSUME NEW a \in answers
      PROVE  /\ a.reply # Refused =>
                  \E e \in episodes' : e.receipt.id = a.receipt.id /\ e.id = a.reply
             /\ a.replay => a.reply # Refused
  BY EpisodesStay DEF RepliesAgree, ReplayAnswered
<1> QED
  BY <1>1, <1>2 DEF TypeOK, ReplayAnswered

LEMMA CountersStayBounded ==
  ASSUME TypeOK, [Next]_vars
  PROVE  now' \in 0..MaxTime /\ faults' \in 0..MaxFaults
BY NumbersAssumption
DEF TypeOK, Next, Handle, vars, storeVars, Begin, LookUp, CheckAge, Validate, Save, SaveUnseen,
    SaveRejected, SaveFails, Recover, Crash, Withdraw, Tick

LEMMA InitiallyInvariant == Init => RecordingInv
BY NumbersAssumption
DEF Init, RecordingInv, TypeOK, CallsSound, RepliesAgree, ReplayAnswered, RecordedFresh,
    OneSuccessor

LEMMA StepsKeepInvariant == RecordingInv /\ [Next]_vars => RecordingInv'
<1> SUFFICES ASSUME RecordingInv, [Next]_vars PROVE RecordingInv'
  OBVIOUS
<1>1. TypeOK'
  BY StoreStaysSound, AnswersStaySound, CallsStaySound, CountersStayBounded
  DEF RecordingInv, TypeOK
<1>2. RepliesAgree'
  BY StoreStaysSound, AnswersStaySound DEF RepliesAgree
<1> QED
  BY <1>1, <1>2, StoreStaysSound, AnswersStaySound, CallsStaySound DEF RecordingInv

THEOREM Invariance == Spec => []RecordingInv
BY InitiallyInvariant, StepsKeepInvariant, PTL DEF Spec

\* Every variable keeps to its type; in particular every head is a recorded episode
\* (cockroach.py 150-386).
THEOREM TypeCorrect == Spec => []TypeOK
BY Invariance, PTL DEF RecordingInv

\* A receipt has one episode and every successful reply names it, whatever races,
\* retries and lost acknowledgements happen (aws_lambda.py 1897-2044).
THEOREM AllRepliesAgree == Spec => []RepliesAgree
BY Invariance, PTL DEF RecordingInv

\* A retry that begins after the recording is never refused (aws_lambda.py 1911-1940).
THEOREM ReplaysAreAnswered == Spec => []ReplayAnswered
BY Invariance, PTL DEF RecordingInv

\* A receipt is first recorded within its lifetime and one invocation
\* (aws_lambda.py 1941-2019).
THEOREM RecordingIsTimely == Spec => []RecordedFresh
BY Invariance, PTL DEF RecordingInv

\* An episode is replaced at most once, by its own agent, with a newer receipt, and
\* never comes back (cockroach.py 150-386, aws_lambda.py 1728-1770).
THEOREM SupersessionIsLinear == Spec => []OneSuccessor
BY Invariance, PTL DEF RecordingInv

-----------------------------------------------------------------------------
(* The store of GovernedMemory *)

\* A drawn id names one episode, a revoked episode is no head, and no receipt that
\* an invocation holds is from the future.
StoreInv ==
  /\ \A e, f \in episodes : e.id = f.id => e = f
  /\ heads \cap revocations = {}
  /\ \A w \in Workers : call[w] # NoCall => call[w].receipt.observed <= now

LEMMA StoreInvStep ==
  ASSUME RecordingInv, StoreInv, [Next]_vars
  PROVE  StoreInv'
<1> USE DEF RecordingInv
<1>1. /\ \A e, f \in episodes' : e.id = f.id => e = f
      /\ heads' \cap revocations' = {}
  <2>1. CASE storeVars' = storeVars
    BY <2>1 DEF StoreInv, storeVars
  <2>2. ASSUME NEW w \in Workers, NEW n \in EpisodeIds, Commit(w, n)
        PROVE  /\ \A e, f \in episodes' : e.id = f.id => e = f
               /\ heads' \cap revocations' = {}
    <3>1. call[w] \in Calls
      BY <2>2 DEF Commit, At, TypeOK
    <3>2. PICK e : e = Inserted(w, n)
      OBVIOUS
    <3>3. e.id = n /\ \A f \in episodes : f.id # n
      BY <2>2, <3>2 DEF Commit, Inserted
    <3>4. /\ e \notin episodes /\ episodes' = episodes \cup {e}
          /\ heads' \subseteq heads \cup {e} /\ revocations' = revocations
      BY <2>2, <3>1, <3>2, CommitFacts
    <3> QED
      BY <3>3, <3>4 DEF StoreInv, TypeOK
  <2>3. ASSUME NEW h \in heads, heads' = heads \ {h}, revocations' = revocations \cup {h},
               episodes' = episodes
        PROVE  /\ \A e, f \in episodes' : e.id = f.id => e = f
               /\ heads' \cap revocations' = {}
    BY <2>3 DEF StoreInv
  <2> QED
    BY <2>1, <2>2, <2>3, StoreSteps
<1>2. ASSUME NEW w \in Workers, call'[w] # NoCall
      PROVE  call'[w].receipt.observed <= now'
  <2>1. now \in Nat /\ (now' = now \/ now' = now + 1)
    BY DEF TypeOK, Next, Handle, vars, storeVars, Begin, LookUp, CheckAge, Validate, Save,
           SaveUnseen, SaveRejected, SaveFails, Recover, Crash, Withdraw, Tick
  <2>2. ASSUME call[w] # NoCall, call'[w].receipt = call[w].receipt
        PROVE  call'[w].receipt.observed <= now'
    <3>1. call[w].receipt.observed \in Nat /\ call[w].receipt.observed <= now
      BY <2>2, ReceiptsAssumption DEF StoreInv, TypeOK, Calls
    <3> QED
      BY <2>1, <2>2, <3>1
  <2>3. ASSUME NEW v \in Workers, NEW r \in Receipts, NEW t \in EpisodeIds \cup {NoTarget},
               Begin(v, r, t)
        PROVE  call'[w].receipt.observed <= now'
    <3>1. CASE w = v
      BY <2>3, <3>1 DEF Begin, TypeOK
    <3>2. CASE w # v
      BY <1>2, <2>2, <2>3, <3>2 DEF Begin, TypeOK
    <3> QED
      BY <3>1, <3>2
  <2>4. ASSUME NEW v \in Workers, call' = [call EXCEPT ![v] = NoCall]
        PROVE  call'[w].receipt.observed <= now'
    BY <1>2, <2>2, <2>4 DEF TypeOK
  <2>5. ASSUME NEW v \in Workers, NEW p, At(v, p), NEW q, Goto(v, q)
        PROVE  call'[w].receipt.observed <= now'
    <3>1. call[w] # NoCall
      BY <1>2, <2>5 DEF Goto, At, TypeOK
    <3>2. call'[w].receipt = call[w].receipt
      BY <2>5, <3>1 DEF Goto, TypeOK, Calls
    <3> QED
      BY <2>2, <3>1, <3>2
  <2>6. ASSUME NEW v \in Workers, Handle(v) \/ Crash(v)
        PROVE  call'[w].receipt.observed <= now'
    BY <2>4, <2>5, <2>6
       DEF Handle, LookUp, CheckAge, Validate, Save, SaveUnseen, SaveRejected, SaveFails,
           Recover, Crash, Commit, AnswerExisting, Reply
  <2>7. CASE Tick
    <3>1. call[w] # NoCall /\ call'[w] = [call[w] EXCEPT !.age = @ + 1]
      BY <1>2, <2>7 DEF Tick
    <3>2. call'[w].receipt = call[w].receipt
      BY <3>1 DEF TypeOK, Calls
    <3> QED
      BY <2>2, <3>1, <3>2
  <2>8. CASE UNCHANGED call
    BY <1>2, <2>2, <2>8
  <2> QED
    BY <2>3, <2>6, <2>7, <2>8 DEF Next, Withdraw, vars
<1> QED
  BY <1>1, <1>2 DEF StoreInv

\* Whatever the mapping asks of the tables at once.
LEMMA MappedStore ==
  ASSUME RecordingInv, StoreInv
  PROVE  /\ Memory!Recorded = ReceiptsOf(episodes)
         /\ \A e, f \in episodes : e.receipt = f.receipt => e = f
         /\ \A e \in episodes : e.receipt \in Receipts /\ e.id \in EpisodeIds
         /\ heads \subseteq episodes /\ revocations \subseteq episodes
         /\ \A r : Memory!IsNewest(r) <=> IsNewest(r)
<1>1. \A e, f \in episodes : e.receipt = f.receipt => e = f
  BY DEF RecordingInv, RepliesAgree
<1>2. \A e \in episodes : e.receipt \in Receipts /\ e.id \in EpisodeIds
  BY DEF RecordingInv, TypeOK, Episodes
<1>3. Memory!Recorded = ReceiptsOf(episodes)
  BY <1>2 DEF Memory!Recorded, ReceiptsOf
<1>4. ASSUME NEW r PROVE Memory!IsNewest(r) <=> IsNewest(r)
  BY <1>3 DEF Memory!IsNewest, IsNewest, ReceiptsOf, Memory!Key, Key
<1> QED
  BY <1>1, <1>2, <1>3, <1>4 DEF RecordingInv, TypeOK

\* What a commit inserts, in the terms of GovernedMemory's save.
LEMMA CommitIsSave ==
  ASSUME RecordingInv, StoreInv, NEW w \in Workers, NEW n \in EpisodeIds, Commit(w, n),
         now' = now
  PROVE  \E r \in Receipts :
           \/ Memory!Record(r, "own", Producers)
           \/ \E t \in Receipts : Memory!Supersede(r, t, "own", Producers)
<1>0. PICK e, r, gone :
        e = Inserted(w, n) /\ r = call[w].receipt /\ gone = Superseded(r, call[w].target)
  OBVIOUS
<1>1. /\ call[w] \in Calls /\ call[w].age <= Timeout /\ r \in Receipts /\ r.observed <= now
      /\ now <= r.observed + ReceiptTTL + call[w].age
      /\ call[w].target \in EpisodeIds \cup {NoTarget}
  BY <1>0 DEF Commit, At, RecordingInv, CallsSound, Sound, StoreInv, Calls
<1>2. /\ e.receipt = r /\ e.supersedes = call[w].target /\ e.id = n
      /\ e \notin episodes /\ \A f \in episodes : f.id # n
  BY <1>0 DEF Inserted, Commit
<1>3. /\ episodes' = episodes \cup {e} /\ heads' = HeadsAfter(e) /\ revocations' = revocations
      /\ r \notin ReceiptsOf(episodes)
  BY <1>0, <1>2 DEF Commit, Rejected, Existing, ReceiptsOf
<1>4. Memory!Recordable(r, Producers)
  <2>1. r.observed \in Nat /\ now \in Nat /\ call[w].age \in Nat /\ ReceiptTTL \in Nat
        /\ Timeout \in Nat
    BY <1>1, ReceiptsAssumption, NumbersAssumption DEF Calls, RecordingInv, TypeOK
  <2>2. now <= r.observed + (ReceiptTTL + Timeout) /\ r.observed <= now + 0
    BY <1>1, <2>1
  <2>3. r.producer \in Producers
    BY <1>1 DEF Producers
  <2> QED
    BY <1>3, <2>2, <2>3, MappedStore DEF Memory!Recordable
<1>5. ReceiptsOf(episodes)' = ReceiptsOf(episodes) \cup {r}
  BY <1>2, <1>3 DEF ReceiptsOf
<1>6. ASSUME NEW q \in Receipts, q # r PROVE Replaced(q)' = Replaced(q)
  <2>1. \A f \in episodes : f.supersedes # n
    BY <1>2, ReceiptsAssumption DEF RecordingInv, OneSuccessor
  <2> QED
    BY <1>2, <1>3, <1>6, <2>1 DEF Replaced
<1>7. Replaced(r)' = {t \in episodes : t.id = e.supersedes}
  <2>1. e.supersedes # n
    <3>1. CASE e.supersedes = NoTarget
      BY <3>1, ReceiptsAssumption
    <3>2. CASE e.supersedes # NoTarget
      <4>1. gone # {}
        BY <1>0, <1>2, <3>2 DEF Commit, Rejected
      <4>2. PICK t \in gone : t \in episodes /\ t.id = e.supersedes
        BY <1>0, <1>2, <4>1, MappedStore DEF Superseded
      <4> QED
        BY <1>2, <4>2
    <3> QED
      BY <3>1, <3>2
  <2>2. \A f \in episodes : f.receipt # r
    BY <1>3 DEF ReceiptsOf
  <2> QED
    BY <1>2, <1>3, <2>1, <2>2 DEF Replaced
<1>8. ReceiptsOf(heads)' = Memory!HeadsAfter(r, ReceiptsOf(heads \ gone))
  <2>1. CASE IsNewest(r)
    <3>1. \A h \in heads : Key(h.receipt) = Key(r) => ~ (r.observed <= h.receipt.observed)
      BY <1>1, <2>1, MappedStore, ReceiptsAssumption DEF IsNewest
    <3>2. Memory!HeadsAfter(r, ReceiptsOf(heads \ gone))
            = {h \in ReceiptsOf(heads \ gone) : Key(h) # Key(r)} \cup {r}
      BY <2>1, <3>1, MappedStore DEF Memory!HeadsAfter, Memory!Upsert, Memory!Key, Key, ReceiptsOf
    <3>3. heads' = {h \in heads \ gone : Key(h.receipt) # Key(r)} \cup {e}
      BY <1>0, <1>2, <1>3, <2>1 DEF HeadsAfter
    <3> QED
      BY <1>2, <3>2, <3>3 DEF ReceiptsOf
  <2>2. CASE ~ IsNewest(r)
    BY <1>0, <1>2, <1>3, <2>2, MappedStore DEF HeadsAfter, Memory!HeadsAfter
  <2> QED
    BY <2>1, <2>2
<1> DEFINE owed == {q.scope : q \in ReceiptsOf(episodes)}
<1>9. owed' = IF Memory!IsNewest(r) THEN owed \cup {r.scope} ELSE owed
  <2>1. ~ IsNewest(r) => r.scope \in owed
    BY DEF IsNewest, Key, ReceiptsOf
  <2> QED
    BY <1>5, <2>1, MappedStore
<1>10. ReceiptsOf(revocations)' = ReceiptsOf(revocations)
  BY <1>3 DEF ReceiptsOf
<1> DEFINE replaced == [q \in Receipts |-> TheReceipt(Replaced(q))]
           spaces == [q \in Receipts |-> IF q \in ReceiptsOf(episodes) THEN "own" ELSE "none"]
<1>11. spaces' = [spaces EXCEPT ![r] = "own"]
  BY <1>1, <1>5
<1>12. ASSUME NEW target, TheReceipt(Replaced(r)') = target
       PROVE  replaced' = [replaced EXCEPT ![r] = target]
  <2>1. \A q \in Receipts : q # r => TheReceipt(Replaced(q))' = TheReceipt(Replaced(q))
    BY <1>6
  <2> QED
    BY <1>1, <1>12, <2>1
<1>13. CASE call[w].target = NoTarget
  <2>1. Replaced(r)' = {} /\ gone = {}
    BY <1>0, <1>2, <1>7, <1>13, MappedStore, ReceiptsAssumption DEF Superseded
  <2>2. replaced' = [replaced EXCEPT ![r] = NoTarget]
    BY <1>12, <2>1 DEF TheReceipt
  <2>3. ReceiptsOf(heads)' = Memory!HeadsAfter(r, ReceiptsOf(heads))
    BY <1>8, <2>1
  <2>4. Memory!Record(r, "own", Producers)
    BY <1>4, <1>9, <1>10, <1>11, <2>2, <2>3
       DEF Memory!Record, Memory!Save, Memory!Unsupported
  <2> QED
    BY <1>1, <2>4
<1>14. CASE call[w].target # NoTarget
  <2>1. IsNewest(r) /\ gone # {}
    BY <1>0, <1>14 DEF Commit, Rejected
  <2>2. PICK t \in gone : TRUE
    BY <2>1
  <2>3. /\ t \in heads /\ t \in episodes /\ t.id = e.supersedes
        /\ t.receipt.scope = r.scope /\ t.receipt.producer = r.producer
        /\ t.receipt.observed < r.observed
    BY <1>0, <1>2, <2>2, MappedStore DEF Superseded
  <2>4. \A f \in episodes : f.id = e.supersedes => f = t
    BY <2>3 DEF StoreInv
  <2>5. gone = {t} /\ Replaced(r)' = {t}
    <3>1. \A f \in gone : f \in episodes /\ f.id = e.supersedes
      BY <1>0, <1>2, MappedStore DEF Superseded
    <3>2. gone = {t}
      BY <2>2, <2>4, <3>1
    <3>3. {f \in episodes : f.id = e.supersedes} = {t}
      BY <2>3, <2>4
    <3> QED
      BY <1>7, <3>2, <3>3
  <2>6. replaced' = [replaced EXCEPT ![r] = t.receipt]
    <3>1. TheReceipt({t}) = t.receipt
      BY DEF TheReceipt
    <3> QED
      BY <1>12, <2>5, <3>1
  <2>7. ReceiptsOf(heads)' = Memory!HeadsAfter(r, ReceiptsOf(heads) \ {t.receipt})
    <3>1. ReceiptsOf(heads \ gone) = ReceiptsOf(heads) \ {t.receipt}
      BY <2>3, <2>5, MappedStore DEF ReceiptsOf
    <3> QED
      BY <1>8, <3>1
  <2>8. Memory!MaySupersede(r, t.receipt)
    BY <2>1, <2>3, MappedStore DEF Memory!MaySupersede, ReceiptsOf
  <2>9. Memory!Supersede(r, t.receipt, "own", Producers) /\ t.receipt \in Receipts
    BY <1>4, <1>9, <1>10, <1>11, <2>3, <2>6, <2>7, <2>8, MappedStore
       DEF Memory!Supersede, Memory!Save, Memory!Unsupported
  <2> QED
    BY <1>1, <2>9
<1> QED
  BY <1>13, <1>14

LEMMA WithdrawalIsRevocation ==
  ASSUME RecordingInv, StoreInv, NEW h \in heads, Withdraw(h)
  PROVE  \E r \in Receipts : Memory!Revoke(r, Producers)
<1> DEFINE r == h.receipt
<1>1. h \in episodes /\ r \in Receipts /\ h \notin revocations
  BY MappedStore DEF StoreInv
<1>2. /\ ReceiptsOf(heads)' = ReceiptsOf(heads) \ {r}
      /\ ReceiptsOf(revocations)' = ReceiptsOf(revocations) \cup {r}
      /\ episodes' = episodes /\ now' = now
  BY <1>1, MappedStore DEF Withdraw, ReceiptsOf
<1>3. /\ r \in ReceiptsOf(heads) /\ r \notin ReceiptsOf(revocations) /\ r \in ReceiptsOf(episodes)
      /\ r.producer \in Producers
  BY <1>1, MappedStore DEF ReceiptsOf, Producers
<1>4. Memory!Withdraw({r})
  BY <1>2, <1>3 DEF Memory!Withdraw, Memory!SupportedBy, Memory!Owed, ReceiptsOf, Replaced
<1> QED
  BY <1>1, <1>3, <1>4 DEF Memory!Revoke

LEMMA MemoryStep ==
  ASSUME RecordingInv, StoreInv, [Next]_vars
  PROVE  [Memory!Next]_(Memory!vars)
<1> SUFFICES Memory!Next \/ UNCHANGED Memory!vars
  OBVIOUS
<1>0. Memory!Serve(Producers, "own") => Memory!Next
  BY DEF Memory!Next
<1>1. ASSUME UNCHANGED <<now, storeVars>> PROVE UNCHANGED Memory!vars
  BY <1>1 DEF storeVars, Memory!vars, Memory!episodeVars, Memory!ruleVars, ReceiptsOf, Replaced
<1>2. ASSUME NEW w \in Workers, NEW n \in EpisodeIds, Save(w, n) \/ SaveUnseen(w, n)
      PROVE  Memory!Next
  BY <1>0, <1>2, CommitIsSave DEF Save, SaveUnseen, Memory!Serve
<1>3. ASSUME NEW h \in heads, Withdraw(h) PROVE Memory!Next
  BY <1>0, <1>3, WithdrawalIsRevocation DEF Memory!Serve
<1>4. CASE Tick
  <2>1. Memory!Tick
    BY <1>4 DEF Tick, storeVars, Memory!Tick, Memory!episodeVars, Memory!ruleVars, ReceiptsOf,
                Replaced
  <2> QED
    BY <2>1 DEF Memory!Next
<1> QED
  BY <1>1, <1>2, <1>3, <1>4
     DEF Next, Handle, vars, Begin, LookUp, CheckAge, Validate, SaveRejected, SaveFails,
         Recover, Crash

\* /record, in however many invocations, steps and retries, does to the store what
\* GovernedMemory says its atomic operations do (aws_lambda.py 1897-2044,
\* cockroach.py 150-492): what is proved there of heads, history and supersession
\* holds of the handler.
THEOREM RecordingImplementsStore == Spec => MemorySpec
<1>1. Init => Memory!Init
  <2> SUFFICES ASSUME Init PROVE Memory!Init
    OBVIOUS
  <2>1. ReceiptsOf(episodes) = {} /\ ReceiptsOf(heads) = {} /\ ReceiptsOf(revocations) = {}
    BY DEF Init, ReceiptsOf
  <2>2. \A r \in Receipts : Replaced(r) = {}
    BY DEF Init, Replaced
  <2>3. TheReceipt({}) = NoTarget
    BY DEF TheReceipt
  <2>4. [r \in Receipts |-> TheReceipt(Replaced(r))] = [r \in Receipts |-> NoTarget]
    BY <2>2, <2>3
  <2>5. now = 0
    BY DEF Init
  <2> QED
    BY <2>1, <2>4, <2>5 DEF Memory!Init, Memory!Nobody
<1>2. Init => StoreInv
  BY DEF Init, StoreInv
<1> QED
  BY <1>1, <1>2, StoreInvStep, MemoryStep, Invariance, PTL DEF Spec, MemorySpec, Memory!Spec

=============================================================================
