------------------------- MODULE EffectQueue_proofs -------------------------
(***************************************************************************)
(* Proofs about EffectQueue, for any keys, any number of dispatchers, and  *)
(* any limit on the attempts.                                              *)
(***************************************************************************)
EXTENDS EffectQueue, FiniteSetTheorems, TLAPS

Busy(d) == tick[d].pc \in {"take", "relay", "check", "settle"}

\* A dispatcher that has read a row holds its key and a reading of it with attempts
\* left; only free rows are read.
InHand ==
  \A d \in Dispatchers : Busy(d) =>
    /\ tick[d].key \in Keys
    /\ tick[d].seen \in Seen
    /\ tick[d].seen.status \in {"pending", "attempting"}
    /\ tick[d].seen.attempts < MaxAttempts

\* A success that is not settled yet is a success with the payload of its reading.
AnswerKnown ==
  \A d \in Dispatchers : tick[d].pc \in {"check", "settle"} =>
    /\ tick[d].outcome \in Outcomes
    /\ tick[d].outcome = "done" => tick[d].seen.gen \in sent[tick[d].key]

\* A row that may still be attempted has attempts left.
AttemptsLeft ==
  \A k \in Keys : queue[k].status \in {"pending", "attempting"} =>
    queue[k].attempts < MaxAttempts

IInv ==
  /\ TypeOK
  /\ InHand
  /\ AnswerKnown
  /\ AttemptsLeft
  /\ SettledWasSent

-----------------------------------------------------------------------------
(* The initial states, and the steps that leave the table alone.           *)

LEMMA InitIInv == Init => IInv
<1> SUFFICES ASSUME Init PROVE IInv  OBVIOUS
<1> USE EffectAssumption
<1>1. TypeOK
  BY DEF Init, TypeOK, Tick, IdleTick, NoSeen, NoRow, Generations
<1>2. InHand /\ AnswerKnown
  BY DEF Init, InHand, AnswerKnown, Busy, IdleTick
<1>3. AttemptsLeft /\ SettledWasSent
  BY DEF Init, AttemptsLeft, SettledWasSent, NoRow
<1>4. QED  BY <1>1, <1>2, <1>3 DEF IInv

\* A dispatcher that lets go of its row needs no more than the type of its state.
LEMMA LettingGo ==
  ASSUME IInv, NEW d \in Dispatchers, NEW t \in Tick,
         t.pc \in {"idle", "next"},
         tick' = [tick EXCEPT ![d] = t],
         UNCHANGED <<queue, sent, failed>>
  PROVE  IInv'
<1>1. TypeOK'  BY DEF IInv, TypeOK
<1>2. \A e \in Dispatchers : tick'[e] = IF e = d THEN t ELSE tick[e]
  BY DEF IInv, TypeOK
<1>3. InHand'  BY <1>2 DEF IInv, InHand, Busy
<1>4. AnswerKnown'  BY <1>2 DEF IInv, AnswerKnown
<1>5. AttemptsLeft' /\ SettledWasSent'
  BY DEF IInv, AttemptsLeft, SettledWasSent
<1>6. QED  BY <1>1, <1>3, <1>4, <1>5 DEF IInv

LEMMA IdleTyped == IdleTick \in Tick
  BY DEF IdleTick, Tick, NoSeen

LEMMA VisitedTyped ==
  ASSUME TypeOK, NEW d \in Dispatchers, NEW k
  PROVE  Visited(d, k) \in Tick /\ Visited(d, k).pc = "next"
<1>1. tick[d].todo \in SUBSET Keys /\ tick[d].late \in SUBSET Keys
  BY DEF TypeOK, Tick
<1>2. QED  BY <1>1 DEF Visited, IdleTick, Tick, NoSeen

\* What SeenOf() reads from a row that may be attempted.
LEMMA ReadingTyped ==
  ASSUME IInv, NEW k \in Keys, queue[k].status \in {"pending", "attempting"}
  PROVE  /\ SeenOf(queue[k]) \in Seen
         /\ SeenOf(queue[k]).status = queue[k].status
         /\ SeenOf(queue[k]).gen = queue[k].gen
         /\ SeenOf(queue[k]).attempts < MaxAttempts
<1>1. queue[k] \in Row  BY DEF IInv, TypeOK, NoRow
<1>2. queue[k].attempts < MaxAttempts  BY DEF IInv, AttemptsLeft
<1>3. QED  BY <1>1, <1>2 DEF SeenOf, Row, Seen

\* Rows only become late for the ticks that still have to visit them.
LEMMA LateTyped ==
  ASSUME TypeOK, NEW k \in Keys
  PROVE  /\ LateFor(k) \in [Dispatchers -> Tick]
         /\ \A d \in Dispatchers :
              /\ LateFor(k)[d].pc = tick[d].pc
              /\ LateFor(k)[d].key = tick[d].key
              /\ LateFor(k)[d].seen = tick[d].seen
              /\ LateFor(k)[d].outcome = tick[d].outcome
<1> SUFFICES ASSUME NEW d \in Dispatchers
             PROVE  /\ LateFor(k)[d] \in Tick
                    /\ LateFor(k)[d].pc = tick[d].pc
                    /\ LateFor(k)[d].key = tick[d].key
                    /\ LateFor(k)[d].seen = tick[d].seen
                    /\ LateFor(k)[d].outcome = tick[d].outcome
  BY DEF LateFor
<1>1. tick[d] \in Tick  BY DEF TypeOK
<1>2. LateFor(k)[d] = tick[d] \/
      LateFor(k)[d] = [tick[d] EXCEPT !.late = tick[d].late \cup {k}]
  BY DEF LateFor
<1>3. QED  BY <1>1, <1>2 DEF Tick

LEMMA LateStep ==
  ASSUME IInv, NEW k \in Keys,
         tick' = tick \/ tick' = LateFor(k),
         queue' \in [Keys -> Row \cup {NoRow}], AttemptsLeft', SettledWasSent',
         UNCHANGED <<sent, failed>>
  PROVE  IInv'
<1>1. /\ tick' \in [Dispatchers -> Tick]
      /\ \A d \in Dispatchers : /\ tick'[d].pc = tick[d].pc
                               /\ tick'[d].key = tick[d].key
                               /\ tick'[d].seen = tick[d].seen
                               /\ tick'[d].outcome = tick[d].outcome
  <2>1. CASE tick' = tick  BY <2>1 DEF IInv, TypeOK
  <2>2. CASE tick' = LateFor(k)  BY <2>2, LateTyped DEF IInv
  <2>3. QED  BY <2>1, <2>2
<1>2. TypeOK'  BY <1>1 DEF IInv, TypeOK
<1>3. InHand'  BY <1>1 DEF IInv, InHand, Busy
<1>4. AnswerKnown'  BY <1>1 DEF IInv, AnswerKnown
<1>5. QED  BY <1>2, <1>3, <1>4 DEF IInv

-----------------------------------------------------------------------------
(* A row changes, and no dispatcher's reading of one does.                 *)

LEMMA RowStep ==
  ASSUME IInv, NEW k \in Keys, NEW row \in Row,
         queue' = [queue EXCEPT ![k] = row],
         row.status \in {"pending", "attempting"} => row.attempts < MaxAttempts,
         row.status = "settled" => row.gen \in sent[k],
         UNCHANGED <<sent, failed>>
  PROVE  /\ queue' \in [Keys -> Row \cup {NoRow}]
         /\ AttemptsLeft'
         /\ SettledWasSent'
<1>1. queue' \in [Keys -> Row \cup {NoRow}]  BY DEF IInv, TypeOK
<1>2. \A l \in Keys : queue'[l] = IF l = k THEN row ELSE queue[l]
  BY DEF IInv, TypeOK
<1>3. AttemptsLeft'  BY <1>2 DEF IInv, AttemptsLeft
<1>4. SettledWasSent'  BY <1>2 DEF IInv, SettledWasSent
<1>5. QED  BY <1>1, <1>3, <1>4

LEMMA EnqueueStep ==
  ASSUME IInv, NEW k \in Keys, NEW due \in BOOLEAN, Enqueue(k, due)
  PROVE  IInv'
<1> USE EffectAssumption
<1>1. queue[k] \in Row \cup {NoRow} /\ queue[k].gen < MaxGeneration
  BY DEF IInv, TypeOK, Enqueue
<1>2. queue[k].gen \in 0..MaxGeneration /\ queue[k].due \in BOOLEAN
  <2>1. CASE queue[k] \in Row  BY <2>1 DEF Row, Generations
  <2>2. CASE queue[k] = NoRow  BY <2>2 DEF NoRow
  <2>3. QED  BY <1>1, <2>1, <2>2
<1>3. Enqueued(queue[k], due) \in Row
  BY <1>1, <1>2 DEF Enqueued, Row, Generations, EffectStatus
<1>4. /\ queue' \in [Keys -> Row \cup {NoRow}]
      /\ AttemptsLeft' /\ SettledWasSent'
  <2>1. queue' = [queue EXCEPT ![k] = Enqueued(queue[k], due)]
    BY DEF Enqueue, IInv, TypeOK
  <2>2. /\ Enqueued(queue[k], due).status = "pending"
        /\ Enqueued(queue[k], due).attempts = 0
    BY DEF Enqueued
  <2> DEFINE row == Enqueued(queue[k], due)
  <2>3. row.status # "settled" /\ row.attempts < MaxAttempts /\ row \in Row
    BY <1>3, <2>2
  <2>4. queue' = [queue EXCEPT ![k] = row] /\ UNCHANGED <<sent, failed>>
    BY <2>1 DEF Enqueue
  <2> HIDE DEF row
  <2>5. QED  BY <2>3, <2>4, RowStep
<1>5. tick' = tick \/ tick' = LateFor(k)  BY DEF Enqueue
<1>6. QED  BY <1>4, <1>5, LateStep DEF Enqueue

LEMMA TimeStep ==
  ASSUME IInv, NEW k \in Keys, BecomesDue(k) \/ ClaimGoesStale(k)
  PROVE  IInv'
<1>1. queue[k] \in Row
  BY DEF IInv, TypeOK, BecomesDue, ClaimGoesStale, NoRow
<1> DEFINE dueRow   == [queue[k] EXCEPT !.due = TRUE]
           staleRow == [queue[k] EXCEPT !.stale = TRUE]
<1>2. PICK row \in {dueRow, staleRow} : queue' = [queue EXCEPT ![k] = row]
  BY DEF BecomesDue, ClaimGoesStale, IInv, TypeOK
<1>3. /\ row \in Row /\ row.status = queue[k].status
      /\ row.attempts = queue[k].attempts /\ row.gen = queue[k].gen
  BY <1>1, <1>2 DEF Row
<1>4. /\ queue' \in [Keys -> Row \cup {NoRow}]
      /\ AttemptsLeft' /\ SettledWasSent'
  BY <1>2, <1>3, RowStep
  DEF IInv, AttemptsLeft, SettledWasSent, BecomesDue, ClaimGoesStale
<1>5. tick' = LateFor(k)  BY DEF BecomesDue, ClaimGoesStale
<1>6. QED  BY <1>4, <1>5, LateStep DEF BecomesDue, ClaimGoesStale

-----------------------------------------------------------------------------
(* The steps of a claim.                                                   *)

LEMMA ClaimReadStep ==
  ASSUME IInv, NEW d \in Dispatchers, NEW k \in Keys, ClaimRead(d, k)
  PROVE  IInv'
<1> DEFINE t == [Visited(d, k) EXCEPT !.pc = "take", !.key = k, !.seen = SeenOf(queue[k])]
<1>1. queue[k].status \in {"pending", "attempting"}
  BY DEF ClaimRead, Due, Stale
<1>2. Visited(d, k) \in Tick  BY VisitedTyped DEF IInv
<1>3. /\ t \in Tick /\ t.pc = "take" /\ t.key = k /\ t.seen = SeenOf(queue[k])
  BY <1>1, <1>2, ReadingTyped DEF Tick
<1>4. tick' = [tick EXCEPT ![d] = t] /\ UNCHANGED <<queue, sent, failed>>
  BY DEF ClaimRead
<1> HIDE DEF t
<1>5. \A e \in Dispatchers : tick'[e] = IF e = d THEN t ELSE tick[e]
  BY <1>4 DEF IInv, TypeOK
<1>6. TypeOK'  BY <1>3, <1>4 DEF IInv, TypeOK
<1>7. InHand'  BY <1>1, <1>3, <1>5, ReadingTyped DEF IInv, InHand, Busy
<1>8. AnswerKnown'  BY <1>3, <1>4, <1>5 DEF IInv, AnswerKnown
<1>9. QED  BY <1>4, <1>6, <1>7, <1>8 DEF IInv, AttemptsLeft, SettledWasSent

LEMMA TakeStep ==
  ASSUME IInv, NEW d \in Dispatchers, Take(d)
  PROVE  IInv'
<1> DEFINE k == tick[d].key
<1>0. k \in Keys /\ tick[d].seen \in Seen /\ tick[d].seen.status \in {"pending", "attempting"}
  BY DEF Take, IInv, InHand, Busy
<1>1. CASE ~Wins(d)
  BY <1>1, VisitedTyped, LettingGo DEF Take, IInv
<1>2. CASE Wins(d)
  <2> DEFINE t == [tick[d] EXCEPT !.pc = "relay"]
  <2>1. queue[k].status \in {"pending", "attempting"}
    BY <1>0, <1>2 DEF Wins, Unchanged
  <2>2. queue[k] \in Row  BY <1>0, <2>1 DEF IInv, TypeOK, NoRow
  <2>3. /\ Taken(queue[k]) \in Row
        /\ Taken(queue[k]).status = "attempting"
        /\ Taken(queue[k]).attempts = queue[k].attempts
    BY <2>2 DEF Taken, Row, EffectStatus
  <2>4. /\ queue' \in [Keys -> Row \cup {NoRow}]
        /\ AttemptsLeft' /\ SettledWasSent'
    <3>1. queue' = [queue EXCEPT ![k] = Taken(queue[k])]
      BY <1>0, <1>2 DEF Take, IInv, TypeOK
    <3>2. queue[k].attempts < MaxAttempts  BY <1>0, <2>1 DEF IInv, AttemptsLeft
    <3>3. QED  BY <1>0, <2>3, <3>1, <3>2, RowStep DEF Take
  <2>5. /\ t \in Tick /\ t.pc = "relay" /\ t.key = tick[d].key /\ t.seen = tick[d].seen
    BY DEF IInv, TypeOK, Tick
  <2>6. tick' = [tick EXCEPT ![d] = t]  BY <1>2 DEF Take
  <2> HIDE DEF t
  <2>7. \A e \in Dispatchers : tick'[e] = IF e = d THEN t ELSE tick[e]
    BY <2>6 DEF IInv, TypeOK
  <2>8. TypeOK'  BY <2>4, <2>5, <2>6 DEF Take, IInv, TypeOK
  <2>9. InHand'
    BY <2>5, <2>7 DEF IInv, InHand, Busy, Take
  <2>10. AnswerKnown'  BY <2>5, <2>7 DEF IInv, AnswerKnown, Take
  <2>11. QED  BY <2>4, <2>8, <2>9, <2>10 DEF IInv
<1>3. QED  BY <1>1, <1>2

-----------------------------------------------------------------------------
(* The delivery.                                                           *)

LEMMA RelayStep ==
  ASSUME IInv, NEW d \in Dispatchers, NEW outcome \in Outcomes, Relay(d, outcome)
  PROVE  IInv'
<1> USE EffectAssumption
<1> DEFINE k == tick[d].key
           g == tick[d].seen.gen
           t == [tick[d] EXCEPT !.pc = "check", !.outcome = outcome]
<1>1. k \in Keys /\ tick[d].seen \in Seen
  BY DEF Relay, IInv, InHand, Busy
<1>2. g \in Generations  BY <1>1 DEF Seen
<1>3. sent' = sent \/ sent' = [sent EXCEPT ![k] = sent[k] \cup {g}]
  BY DEF Relay
<1>4. /\ sent' \in [Keys -> SUBSET Generations]
      /\ \A l \in Keys : sent[l] \subseteq sent'[l]
  <2>1. sent \in [Keys -> SUBSET Generations]  BY DEF IInv, TypeOK
  <2>2. CASE sent' = sent  BY <2>1, <2>2
  <2>3. CASE sent' = [sent EXCEPT ![k] = sent[k] \cup {g}]
    <3>1. sent[k] \cup {g} \in SUBSET Generations  BY <1>1, <1>2, <2>1
    <3>2. sent' \in [Keys -> SUBSET Generations]  BY <2>1, <2>3, <3>1
    <3>3. \A l \in Keys : sent'[l] = IF l = k THEN sent[k] \cup {g} ELSE sent[l]
      BY <2>1, <2>3
    <3>4. QED  BY <3>2, <3>3
  <2>4. QED  BY <1>3, <2>2, <2>3
<1>5. outcome = "done" => g \in sent'[k]
  BY <1>1 DEF Relay, IInv, TypeOK
<1>6. failed' \in [Keys -> [Generations -> 0..MaxAttempts]]
  <2>1. failed \in [Keys -> [Generations -> 0..MaxAttempts]]  BY DEF IInv, TypeOK
  <2>2. CASE failed' = failed  BY <2>1, <2>2
  <2>3. CASE failed[k][g] < MaxAttempts /\ failed' = [failed EXCEPT ![k][g] = failed[k][g] + 1]
    <3>1. failed[k] \in [Generations -> 0..MaxAttempts]  BY <1>1, <2>1
    <3>2. failed[k][g] + 1 \in 0..MaxAttempts  BY <1>2, <2>3, <3>1
    <3>3. [failed[k] EXCEPT ![g] = failed[k][g] + 1] \in [Generations -> 0..MaxAttempts]
      BY <3>1, <3>2
    <3>4. QED  BY <1>1, <2>1, <2>3, <3>3
  <2>4. QED  BY <2>2, <2>3 DEF Relay
<1>7. t \in Tick /\ t.pc = "check" /\ t.key = k /\ t.seen = tick[d].seen /\ t.outcome = outcome
  BY DEF IInv, TypeOK, Tick
<1>8. tick' = [tick EXCEPT ![d] = t] /\ UNCHANGED queue  BY DEF Relay
<1> HIDE DEF t
<1>9. \A e \in Dispatchers : tick'[e] = IF e = d THEN t ELSE tick[e]
  BY <1>8 DEF IInv, TypeOK
<1>10. TypeOK'  BY <1>4, <1>6, <1>7, <1>8 DEF IInv, TypeOK
<1>11. InHand'  BY <1>7, <1>9 DEF IInv, InHand, Busy, Relay
<1>12. AnswerKnown'
  <2> SUFFICES ASSUME NEW e \in Dispatchers, tick'[e].pc \in {"check", "settle"}
               PROVE  /\ tick'[e].outcome \in Outcomes
                      /\ tick'[e].outcome = "done" => tick'[e].seen.gen \in sent'[tick'[e].key]
    BY DEF AnswerKnown
  <2>1. CASE e = d  BY <1>5, <1>7, <1>9, <2>1
  <2>2. CASE e # d
    <3>1. tick'[e] = tick[e]  BY <1>9, <2>2
    <3>2. tick[e].key \in Keys  BY <3>1 DEF IInv, InHand, Busy
    <3>3. QED  BY <1>4, <3>1, <3>2 DEF IInv, AnswerKnown
  <2>3. QED  BY <2>1, <2>2
<1>13. AttemptsLeft' /\ SettledWasSent'
  BY <1>4, <1>8 DEF IInv, AttemptsLeft, SettledWasSent
<1>14. QED  BY <1>10, <1>11, <1>12, <1>13 DEF IInv

-----------------------------------------------------------------------------
(* The settlement.                                                         *)

LEMMA SettleReadStep ==
  ASSUME IInv, NEW d \in Dispatchers, SettleRead(d)
  PROVE  IInv'
<1> DEFINE k == tick[d].key
           t == [tick[d] EXCEPT !.pc = "settle", !.seen = SeenOf(queue[k])]
<1>0. k \in Keys  BY DEF SettleRead, IInv, InHand, Busy
<1>1. CASE ~Applies(d)
  BY <1>1, VisitedTyped, LettingGo DEF SettleRead, IInv
<1>2. CASE Applies(d)
  <2>1. queue[k].status = "attempting" /\ queue[k].gen = tick[d].seen.gen
    BY <1>2 DEF Applies, Unchanged
  <2>2. /\ SeenOf(queue[k]) \in Seen /\ SeenOf(queue[k]).status = "attempting"
        /\ SeenOf(queue[k]).gen = tick[d].seen.gen
        /\ SeenOf(queue[k]).attempts < MaxAttempts
    BY <1>0, <2>1, ReadingTyped
  <2>3. /\ t \in Tick /\ t.pc = "settle" /\ t.key = k /\ t.seen = SeenOf(queue[k])
        /\ t.outcome = tick[d].outcome
    BY <2>2 DEF IInv, TypeOK, Tick
  <2>4. tick' = [tick EXCEPT ![d] = t] /\ UNCHANGED <<queue, sent, failed>>
    BY <1>2 DEF SettleRead
  <2> HIDE DEF t
  <2>5. \A e \in Dispatchers : tick'[e] = IF e = d THEN t ELSE tick[e]
    BY <2>4 DEF IInv, TypeOK
  <2>6. TypeOK'  BY <2>3, <2>4 DEF IInv, TypeOK
  <2>7. InHand'  BY <1>0, <2>2, <2>3, <2>5 DEF IInv, InHand, Busy
  <2>8. AnswerKnown'
    BY <2>2, <2>3, <2>4, <2>5 DEF IInv, AnswerKnown, SettleRead
  <2>9. QED  BY <2>4, <2>6, <2>7, <2>8 DEF IInv, AttemptsLeft, SettledWasSent
<1>3. QED  BY <1>1, <1>2

\* What settle() writes: a row of the same payload, settled only by a success, open
\* only with attempts left.
LEMMA SettledRow ==
  ASSUME NEW row \in Row, NEW seen \in Seen, seen.attempts < MaxAttempts,
         row.attempts < MaxAttempts, NEW outcome \in Outcomes
  PROVE  LET new == Settled(row, seen, outcome) IN
         /\ new \in Row
         /\ new.gen = row.gen
         /\ new.status = "settled" => outcome = "done"
         /\ new.status \in {"pending", "attempting"} => new.attempts < MaxAttempts
<1> USE EffectAssumption
<1>1. /\ seen.attempts \in 0..MaxAttempts /\ row.attempts \in 0..MaxAttempts
      /\ outcome \in {"done", "failed", "later"}
  BY DEF Seen, Row
<1>2. CASE outcome = "done"
  BY <1>1, <1>2 DEF Settled, Row, EffectStatus
<1>3. CASE outcome = "later"
  BY <1>1, <1>3 DEF Settled, Row, EffectStatus
<1>4. CASE outcome = "failed"
  <2> DEFINE n == seen.attempts + 1
             ended(status) == [row EXCEPT !.status = status, !.stale = FALSE]
             last  == [ended("failed") EXCEPT !.attempts = n]
             again == [ended("pending") EXCEPT !.attempts = n, !.due = FALSE]
  <2>1. n \in 0..MaxAttempts  BY <1>1
  <2>2. Settled(row, seen, outcome) = IF GivesUp(n) THEN last ELSE again
    BY <1>4 DEF Settled
  <2>3. ~GivesUp(n) => n < MaxAttempts  BY <2>1 DEF GivesUp
  <2> HIDE DEF n
  <2>4. last \in Row /\ last.gen = row.gen /\ last.status = "failed"
    BY <2>1 DEF Row, EffectStatus
  <2>5. /\ again \in Row /\ again.gen = row.gen
        /\ again.status = "pending" /\ again.attempts = n
    BY <2>1 DEF Row, EffectStatus
  <2> HIDE DEF last, again
  <2>6. QED  BY <2>2, <2>3, <2>4, <2>5
<1>5. QED  BY <1>1, <1>2, <1>3, <1>4

LEMMA SettleStep ==
  ASSUME IInv, NEW d \in Dispatchers, Settle(d)
  PROVE  IInv'
<1> DEFINE k    == tick[d].key
           seen == tick[d].seen
           out  == tick[d].outcome
           new  == Settled(queue[k], seen, out)
<1>0. /\ k \in Keys /\ seen \in Seen /\ seen.attempts < MaxAttempts
      /\ out \in Outcomes /\ (out = "done" => seen.gen \in sent[k])
  BY DEF Settle, IInv, InHand, AnswerKnown, Busy
<1>1. tick' = [tick EXCEPT ![d] = Visited(d, k)] /\ UNCHANGED <<sent, failed>>
  BY DEF Settle
<1>2. CASE ~Applies(d)
  BY <1>1, <1>2, VisitedTyped, LettingGo DEF Settle, IInv
<1>3. CASE Applies(d)
  <2>1. queue[k].status = "attempting" /\ queue[k].gen = seen.gen
    BY <1>3 DEF Applies, Unchanged
  <2>2. queue[k] \in Row  BY <1>0, <2>1 DEF IInv, TypeOK, NoRow
  <2>3. queue[k].attempts < MaxAttempts  BY <1>0, <2>1 DEF IInv, AttemptsLeft
  <2>4. /\ new \in Row /\ new.gen = seen.gen
        /\ new.status = "settled" => out = "done"
        /\ new.status \in {"pending", "attempting"} => new.attempts < MaxAttempts
    BY <1>0, <2>1, <2>2, <2>3, SettledRow
  <2>5. queue' = [queue EXCEPT ![k] = new]
    BY <1>3 DEF Settle
  <2> HIDE DEF new
  <2>6. /\ queue' \in [Keys -> Row \cup {NoRow}]
        /\ AttemptsLeft' /\ SettledWasSent'
    BY <1>0, <1>1, <2>4, <2>5, RowStep
  <2>7. Visited(d, k) \in Tick /\ Visited(d, k).pc = "next"
    BY VisitedTyped DEF IInv
  <2>8. \A e \in Dispatchers : tick'[e] = IF e = d THEN Visited(d, k) ELSE tick[e]
    BY <1>1 DEF IInv, TypeOK
  <2>9. TypeOK'  BY <1>1, <2>6, <2>7 DEF IInv, TypeOK
  <2>10. InHand'  BY <2>7, <2>8 DEF IInv, InHand, Busy
  <2>11. AnswerKnown'  BY <1>1, <2>7, <2>8 DEF IInv, AnswerKnown
  <2>12. QED  BY <2>6, <2>9, <2>10, <2>11 DEF IInv
<1>4. QED  BY <1>2, <1>3

-----------------------------------------------------------------------------
LEMMA NextIInv == IInv /\ [Next]_effectVars => IInv'
<1> SUFFICES ASSUME IInv, [Next]_effectVars PROVE IInv'  OBVIOUS
<1>1. CASE UNCHANGED effectVars
  BY <1>1
  DEF effectVars, IInv, TypeOK, InHand, AnswerKnown, AttemptsLeft, SettledWasSent, Busy
<1>2. ASSUME NEW k \in Keys, NEW due \in BOOLEAN, Enqueue(k, due) PROVE IInv'
  BY <1>2, EnqueueStep
<1>3. ASSUME NEW d \in Dispatchers, ListDue(d) PROVE IInv'
  <2> DEFINE t == [IdleTick EXCEPT !.pc = "next", !.todo = Candidates]
  <2>1. t \in Tick /\ t.pc = "next"
    BY IdleTyped DEF IdleTick, Tick, Candidates
  <2>2. QED  BY <1>3, <2>1, LettingGo DEF ListDue
<1>4. ASSUME NEW d \in Dispatchers, Step(d) PROVE IInv'
  <2>1. CASE EndTick(d)
    BY <2>1, IdleTyped, LettingGo DEF EndTick, IdleTick
  <2>2. ASSUME NEW k \in Keys, ClaimRead(d, k) PROVE IInv'
    BY <2>2, ClaimReadStep
  <2>3. ASSUME NEW k \in Keys, ClaimRefused(d, k) PROVE IInv'
    BY <2>3, VisitedTyped, LettingGo DEF ClaimRefused, IInv
  <2>4. CASE Take(d)  BY <2>4, TakeStep
  <2>5. ASSUME NEW outcome \in Outcomes, Relay(d, outcome) PROVE IInv'
    BY <2>5, RelayStep
  <2>6. CASE SettleRead(d)  BY <2>6, SettleReadStep
  <2>7. CASE Settle(d)  BY <2>7, SettleStep
  <2>8. QED  BY <1>4, <2>1, <2>2, <2>3, <2>4, <2>5, <2>6, <2>7 DEF Step
<1>5. ASSUME NEW d \in Dispatchers, Abort(d) PROVE IInv'
  BY <1>5, IdleTyped, LettingGo DEF Abort, IdleTick
<1>6. ASSUME NEW k \in Keys, BecomesDue(k) \/ ClaimGoesStale(k) PROVE IInv'
  BY <1>6, TimeStep
<1>7. QED  BY <1>1, <1>2, <1>3, <1>4, <1>5, <1>6 DEF Next

LEMMA Inductive == Spec => []IInv
<1>1. QED  BY InitIInv, NextIInv, PTL DEF Spec

\* Every state has its type; attempts never exceed the limit, though settle() counts
\* from a reading that another process may have overtaken.
THEOREM TypeCorrect == Spec => []TypeOK
<1>1. IInv => TypeOK  BY DEF IInv
<1>2. QED  BY <1>1, Inductive, PTL

\* An effect is closed only by a delivery of the payload it holds, for any number of
\* processes that claim it, take it over and settle it late (EffectQueue.settle).
THEOREM SettledSent == Spec => []SettledWasSent
<1>1. IInv => SettledWasSent  BY DEF IInv
<1>2. QED  BY <1>1, Inductive, PTL

-----------------------------------------------------------------------------
(* Giving up.  The attempts of a row are counted by the settlements, from  *)
(* readings that may be old; the deliveries are counted when they fail.    *)
(* What connects the two are the failures that are still in hand: those    *)
(* delivered and not settled yet.                                          *)

\* The dispatcher in state t has a failed delivery of this payload to settle.
HoldsFailure(t, k, g) ==
  t.pc \in {"check", "settle"} /\ t.key = k /\ t.seen.gen = g /\ t.outcome = "failed"

FailuresInHand(k, g) == {d \in Dispatchers : HoldsFailure(tick[d], k, g)}

\* n failures of this payload were settled at the most; no more than MaxAttempts count.
Covers(k, g, n) ==
  failed[k][g] = MaxAttempts \/ n + Cardinality(FailuresInHand(k, g)) <= failed[k][g]

\* Nobody has a reading of a payload that is still to come.
OwnGeneration ==
  \A d \in Dispatchers : Busy(d) => tick[d].seen.gen <= queue[tick[d].key].gen

FewInHand == \A k \in Keys, g \in Generations : IsFiniteSet(FailuresInHand(k, g))

\* The attempts of a row, and those a settlement has read, were failed deliveries that
\* are not in hand any more.
RowsCovered ==
  \A k \in Keys, g \in Generations : g = queue[k].gen => Covers(k, g, queue[k].attempts)

ReadingsCovered ==
  \A d \in Dispatchers, k \in Keys, g \in Generations :
    tick[d].pc = "settle" /\ tick[d].key = k /\ tick[d].seen.gen = g =>
      Covers(k, g, tick[d].seen.attempts)

CountInv ==
  /\ IInv
  /\ OwnGeneration
  /\ FewInHand
  /\ RowsCovered
  /\ ReadingsCovered
  /\ GivesUpOnlyAfterFailures

LEMMA InitCount == Init => CountInv
<1> SUFFICES ASSUME Init PROVE CountInv  OBVIOUS
<1> USE EffectAssumption
<1>1. \A k, g : FailuresInHand(k, g) = {}
  BY DEF Init, FailuresInHand, HoldsFailure, IdleTick
<1>2. FewInHand  BY <1>1, FS_EmptySet DEF FewInHand
<1>3. OwnGeneration /\ ReadingsCovered
  BY DEF Init, OwnGeneration, ReadingsCovered, Busy, IdleTick
<1>4. RowsCovered
  BY DEF Init, RowsCovered, NoRow, Generations
<1>5. GivesUpOnlyAfterFailures
  BY DEF Init, GivesUpOnlyAfterFailures, NoRow
<1>6. QED  BY <1>2, <1>3, <1>4, <1>5, InitIInv DEF CountInv

\* What is in hand is counted in natural numbers.
LEMMA HandCounted ==
  ASSUME CountInv, NEW k \in Keys, NEW g \in Generations
  PROVE  /\ Cardinality(FailuresInHand(k, g)) \in Nat
         /\ failed[k][g] \in 0..MaxAttempts
<1>1. IsFiniteSet(FailuresInHand(k, g))  BY DEF CountInv, FewInHand
<1>2. QED  BY <1>1, FS_CardinalityType DEF CountInv, IInv, TypeOK

\* A failure that leaves the hand, settled or given up, covers one attempt more.
LEMMA FewerInHand ==
  ASSUME CountInv, NEW k \in Keys, NEW g \in Generations, UNCHANGED failed,
         FailuresInHand(k, g)' \subseteq FailuresInHand(k, g), NEW n \in Nat
  PROVE  /\ IsFiniteSet(FailuresInHand(k, g))'
         /\ Covers(k, g, n) => Covers(k, g, n)'
         /\ \A d \in FailuresInHand(k, g) :
              d \notin FailuresInHand(k, g)' /\ Covers(k, g, n) => Covers(k, g, n + 1)'
<1> DEFINE S == FailuresInHand(k, g)
           T == FailuresInHand(k, g)'
<1>1. IsFiniteSet(S)  BY DEF CountInv, FewInHand
<1>2. T \in SUBSET S  OBVIOUS
<1> HIDE DEF S, T
<1>3. /\ IsFiniteSet(T) /\ Cardinality(T) <= Cardinality(S)
      /\ Cardinality(S) = Cardinality(T) => S = T
  BY <1>1, <1>2, FS_Subset
<1>4. Cardinality(S) \in Nat /\ Cardinality(T) \in Nat
  BY <1>1, <1>3, FS_CardinalityType
<1>5. failed[k][g] \in 0..MaxAttempts  BY DEF CountInv, IInv, TypeOK
<1>6. /\ Covers(k, g, n) <=> failed[k][g] = MaxAttempts \/ n + Cardinality(S) <= failed[k][g]
      /\ Covers(k, g, n)' <=> failed[k][g] = MaxAttempts \/ n + Cardinality(T) <= failed[k][g]
      /\ Covers(k, g, n + 1)' <=>
           failed[k][g] = MaxAttempts \/ n + 1 + Cardinality(T) <= failed[k][g]
  BY DEF Covers, S, T
<1>7. Covers(k, g, n) => Covers(k, g, n)'
  BY <1>3, <1>4, <1>5, <1>6, EffectAssumption
<1>8. ASSUME NEW d \in S, d \notin T, Covers(k, g, n)  PROVE Covers(k, g, n + 1)'
  <2>1. Cardinality(T) < Cardinality(S)  BY <1>3, <1>4, <1>8
  <2>2. QED  BY <1>4, <1>5, <1>6, <1>8, <2>1, EffectAssumption
<1>9. QED  BY <1>3, <1>7, <1>8 DEF S, T

\* What is in hand is no more than before.
LEMMA HandsOf ==
  ASSUME CountInv, UNCHANGED failed,
         \A d \in Dispatchers, k \in Keys, g \in Generations :
           HoldsFailure(tick'[d], k, g) => HoldsFailure(tick[d], k, g)
  PROVE  /\ FewInHand'
         /\ \A k \in Keys, g \in Generations, n \in Nat : Covers(k, g, n) => Covers(k, g, n)'
<1> SUFFICES ASSUME NEW k \in Keys, NEW g \in Generations, NEW n \in Nat
             PROVE  /\ IsFiniteSet(FailuresInHand(k, g))'
                    /\ Covers(k, g, n) => Covers(k, g, n)'
  <2>1. 0 \in Nat  OBVIOUS
  <2>2. QED  BY <2>1 DEF FewInHand
<1>1. FailuresInHand(k, g)' \subseteq FailuresInHand(k, g)  BY DEF FailuresInHand
<1>2. QED  BY <1>1, FewerInHand

LEMMA RowsAreNumbers ==
  ASSUME TypeOK, NEW k \in Keys
  PROVE  queue[k].attempts \in 0..MaxAttempts /\ queue[k].gen \in Int
<1>1. CASE queue[k] \in Row  BY <1>1 DEF Row, Generations
<1>2. CASE queue[k] = NoRow  BY <1>2, EffectAssumption DEF NoRow
<1>3. QED  BY <1>1, <1>2 DEF TypeOK

\* The payloads, the attempts and the readings are as before, and so is who gave up.
LEMMA CalmStep ==
  ASSUME CountInv, IInv', UNCHANGED failed, OwnGeneration',
         \A d \in Dispatchers, k \in Keys, g \in Generations :
           HoldsFailure(tick'[d], k, g) => HoldsFailure(tick[d], k, g),
         \A d \in Dispatchers : tick'[d].pc = "settle" =>
           tick[d].pc = "settle" /\ tick'[d].key = tick[d].key /\ tick'[d].seen = tick[d].seen,
         \A k \in Keys : /\ queue'[k].gen = queue[k].gen
                         /\ queue'[k].attempts = queue[k].attempts
                         /\ queue'[k].status = "failed" => queue[k].status = "failed"
  PROVE  CountInv'
<1>1. /\ FewInHand'
      /\ \A k \in Keys, g \in Generations, n \in Nat : Covers(k, g, n) => Covers(k, g, n)'
  BY HandsOf
<1>2. RowsCovered'
  <2> SUFFICES ASSUME NEW k \in Keys, NEW g \in Generations, g = queue'[k].gen
               PROVE  Covers(k, g, queue[k].attempts)'
    BY DEF RowsCovered
  <2>1. PICK n \in Nat : n = queue[k].attempts
    BY RowsAreNumbers DEF CountInv, IInv
  <2>2. Covers(k, g, n)  BY <2>1 DEF CountInv, RowsCovered, Covers
  <2>3. Covers(k, g, n)'  BY <1>1, <2>2
  <2>4. QED  BY <2>1, <2>3 DEF Covers
<1>3. ReadingsCovered'
  <2> SUFFICES ASSUME NEW d \in Dispatchers, NEW k \in Keys, NEW g \in Generations,
                      tick'[d].pc = "settle", tick'[d].key = k, tick'[d].seen.gen = g
               PROVE  Covers(k, g, tick[d].seen.attempts)'
    BY DEF ReadingsCovered
  <2>0. tick[d].pc = "settle" /\ tick[d].key = k /\ tick'[d].seen = tick[d].seen
    OBVIOUS
  <2>1. PICK n \in Nat : n = tick[d].seen.attempts
    BY <2>0 DEF CountInv, IInv, InHand, Busy, Seen
  <2>2. Covers(k, g, n)  BY <2>0, <2>1 DEF CountInv, ReadingsCovered, Covers
  <2>3. Covers(k, g, n)'  BY <1>1, <2>2
  <2>4. QED  BY <2>0, <2>1, <2>3 DEF Covers
<1>4. GivesUpOnlyAfterFailures'
  BY DEF CountInv, GivesUpOnlyAfterFailures
<1>5. QED  BY <1>1, <1>2, <1>3, <1>4 DEF CountInv

\* A dispatcher that lets go of its row, whatever it held.
LEMMA LettingGoCount ==
  ASSUME CountInv, IInv', NEW d \in Dispatchers, NEW t \in Tick,
         t.pc \in {"idle", "next"},
         tick' = [tick EXCEPT ![d] = t],
         UNCHANGED <<queue, sent, failed>>
  PROVE  CountInv'
<1>1. \A e \in Dispatchers : tick'[e] = IF e = d THEN t ELSE tick[e]
  BY DEF CountInv, IInv, TypeOK
<1>2. OwnGeneration'  BY <1>1 DEF CountInv, OwnGeneration, Busy
<1>3. \A e \in Dispatchers, k \in Keys, g \in Generations :
        HoldsFailure(tick'[e], k, g) => HoldsFailure(tick[e], k, g)
  BY <1>1 DEF HoldsFailure
<1>4. QED  BY <1>1, <1>2, <1>3, CalmStep

\* Time passes.
LEMMA TimeCount ==
  ASSUME CountInv, IInv', NEW k \in Keys, BecomesDue(k) \/ ClaimGoesStale(k)
  PROVE  CountInv'
<1>1. /\ tick' = LateFor(k) /\ UNCHANGED failed
      /\ \A d \in Dispatchers : /\ tick'[d].pc = tick[d].pc
                               /\ tick'[d].key = tick[d].key
                               /\ tick'[d].seen = tick[d].seen
                               /\ tick'[d].outcome = tick[d].outcome
  BY LateTyped DEF BecomesDue, ClaimGoesStale, CountInv, IInv
<1>2. \A l \in Keys : /\ queue'[l].gen = queue[l].gen
                      /\ queue'[l].attempts = queue[l].attempts
                      /\ queue'[l].status = "failed" => queue[l].status = "failed"
  <2>1. queue[k] \in Row
    BY DEF CountInv, IInv, TypeOK, BecomesDue, ClaimGoesStale, NoRow
  <2> DEFINE dueRow   == [queue[k] EXCEPT !.due = TRUE]
             staleRow == [queue[k] EXCEPT !.stale = TRUE]
  <2>2. PICK row \in {dueRow, staleRow} : queue' = [queue EXCEPT ![k] = row]
    BY DEF BecomesDue, ClaimGoesStale, CountInv, IInv, TypeOK
  <2>3. row.gen = queue[k].gen /\ row.attempts = queue[k].attempts
        /\ row.status = queue[k].status
    BY <2>1, <2>2 DEF Row
  <2>4. \A l \in Keys : queue'[l] = IF l = k THEN row ELSE queue[l]
    BY <2>2 DEF CountInv, IInv, TypeOK
  <2>5. QED  BY <2>3, <2>4
<1>3. OwnGeneration'
  <2>1. ASSUME NEW d \in Dispatchers, Busy(d)'
        PROVE  tick'[d].seen.gen <= queue'[tick'[d].key].gen
    <3>1. Busy(d)  BY <1>1, <2>1 DEF Busy
    <3>2. tick[d].key \in Keys  BY <3>1 DEF CountInv, IInv, InHand
    <3>3. QED  BY <1>1, <1>2, <3>1, <3>2 DEF CountInv, OwnGeneration
  <2>2. QED  BY <2>1 DEF OwnGeneration
<1>4. \A d \in Dispatchers, l \in Keys, g \in Generations :
        HoldsFailure(tick'[d], l, g) => HoldsFailure(tick[d], l, g)
  BY <1>1 DEF HoldsFailure
<1>5. QED  BY <1>1, <1>2, <1>3, <1>4, CalmStep

\* The steps of a claim: a reading is of the payload the row has, or had.
LEMMA ClaimReadCount ==
  ASSUME CountInv, IInv', NEW d \in Dispatchers, NEW k \in Keys, ClaimRead(d, k)
  PROVE  CountInv'
<1> DEFINE t == [Visited(d, k) EXCEPT !.pc = "take", !.key = k, !.seen = SeenOf(queue[k])]
<1>1. Visited(d, k) \in Tick  BY VisitedTyped DEF CountInv, IInv
<1>2. t.pc = "take" /\ t.key = k /\ t.seen = SeenOf(queue[k])  BY <1>1 DEF Tick
<1>3. tick' = [tick EXCEPT ![d] = t] /\ UNCHANGED <<queue, sent, failed>>
  BY DEF ClaimRead
<1> HIDE DEF t
<1>4. \A e \in Dispatchers : tick'[e] = IF e = d THEN t ELSE tick[e]
  BY <1>3 DEF CountInv, IInv, TypeOK
<1>5. SeenOf(queue[k]).gen <= queue[k].gen
  BY RowsAreNumbers DEF CountInv, IInv, SeenOf
<1>6. OwnGeneration'
  BY <1>2, <1>3, <1>4, <1>5 DEF CountInv, OwnGeneration, Busy
<1>7. \A e \in Dispatchers, l \in Keys, g \in Generations :
        HoldsFailure(tick'[e], l, g) => HoldsFailure(tick[e], l, g)
  BY <1>2, <1>4 DEF HoldsFailure
<1>8. QED  BY <1>2, <1>3, <1>4, <1>6, <1>7, CalmStep

LEMMA TakeCount ==
  ASSUME CountInv, IInv', NEW d \in Dispatchers, Take(d)
  PROVE  CountInv'
<1> DEFINE k == tick[d].key
<1>1. CASE ~Wins(d)
  BY <1>1, VisitedTyped, LettingGoCount DEF Take, CountInv, IInv
<1>2. CASE Wins(d)
  <2> DEFINE t == [tick[d] EXCEPT !.pc = "relay"]
  <2>1. k \in Keys /\ tick[d].seen.status \in {"pending", "attempting"}
    BY DEF Take, CountInv, IInv, InHand, Busy
  <2>2. queue[k] \in Row
    BY <1>2, <2>1 DEF Wins, Unchanged, CountInv, IInv, TypeOK, NoRow
  <2>3. /\ t.pc = "relay" /\ t.key = k /\ t.seen = tick[d].seen
    BY DEF CountInv, IInv, TypeOK, Tick
  <2>4. /\ tick' = [tick EXCEPT ![d] = t] /\ UNCHANGED failed
        /\ queue' = [queue EXCEPT ![k] = Taken(queue[k])]
    BY <1>2 DEF Take
  <2>5. /\ Taken(queue[k]).gen = queue[k].gen
        /\ Taken(queue[k]).attempts = queue[k].attempts
        /\ Taken(queue[k]).status = "attempting"
    BY <2>2 DEF Taken, Row
  <2> HIDE DEF t
  <2>6. /\ \A e \in Dispatchers : tick'[e] = IF e = d THEN t ELSE tick[e]
        /\ \A l \in Keys : queue'[l] = IF l = k THEN Taken(queue[k]) ELSE queue[l]
    BY <2>1, <2>4 DEF CountInv, IInv, TypeOK
  <2>7. \A l \in Keys : /\ queue'[l].gen = queue[l].gen
                        /\ queue'[l].attempts = queue[l].attempts
                        /\ queue'[l].status = "failed" => queue[l].status = "failed"
    BY <2>5, <2>6
  <2>8. OwnGeneration'
    <3>1. ASSUME NEW e \in Dispatchers, Busy(e)'
          PROVE  tick'[e].seen.gen <= queue'[tick'[e].key].gen
      <4>1. Busy(e) /\ tick'[e].key = tick[e].key /\ tick'[e].seen = tick[e].seen
        BY <2>3, <2>6, <3>1 DEF Busy, Take
      <4>2. tick[e].key \in Keys  BY <4>1 DEF CountInv, IInv, InHand
      <4>3. QED  BY <2>7, <4>1, <4>2 DEF CountInv, OwnGeneration
    <3>2. QED  BY <3>1 DEF OwnGeneration
  <2>9. \A e \in Dispatchers, l \in Keys, g \in Generations :
          HoldsFailure(tick'[e], l, g) => HoldsFailure(tick[e], l, g)
    BY <2>3, <2>6 DEF HoldsFailure
  <2>10. \A e \in Dispatchers : tick'[e].pc = "settle" =>
           tick[e].pc = "settle" /\ tick'[e].key = tick[e].key /\ tick'[e].seen = tick[e].seen
    BY <2>3, <2>6
  <2>11. QED  BY <2>4, <2>7, <2>8, <2>9, <2>10, CalmStep
<1>3. QED  BY <1>1, <1>2

\* A new payload starts without failures, and nobody holds one of it.
LEMMA EnqueueCount ==
  ASSUME CountInv, IInv', NEW k \in Keys, NEW due \in BOOLEAN, Enqueue(k, due)
  PROVE  CountInv'
<1> DEFINE row == Enqueued(queue[k], due)
<1>1. /\ row.gen = queue[k].gen + 1 /\ row.attempts = 0 /\ row.status = "pending"
      /\ queue[k].gen \in Int
  BY RowsAreNumbers DEF Enqueued, CountInv, IInv
<1>2. /\ queue' = [queue EXCEPT ![k] = row] /\ UNCHANGED failed
      /\ tick' = tick \/ tick' = LateFor(k)
  BY DEF Enqueue
<1> HIDE DEF row
<1>3. \A l \in Keys : queue'[l] = IF l = k THEN row ELSE queue[l]
  BY <1>2 DEF CountInv, IInv, TypeOK
<1>4. \A d \in Dispatchers : /\ tick'[d].pc = tick[d].pc
                             /\ tick'[d].key = tick[d].key
                             /\ tick'[d].seen = tick[d].seen
                             /\ tick'[d].outcome = tick[d].outcome
  BY <1>2, LateTyped DEF CountInv, IInv
<1>5. /\ FewInHand'
      /\ \A l \in Keys, g \in Generations, n \in Nat : Covers(l, g, n) => Covers(l, g, n)'
  <2>1. \A d \in Dispatchers, l \in Keys, g \in Generations :
          HoldsFailure(tick'[d], l, g) => HoldsFailure(tick[d], l, g)
    BY <1>4 DEF HoldsFailure
  <2>2. QED  BY <1>2, <2>1, HandsOf
<1>6. OwnGeneration'
  <2>1. ASSUME NEW d \in Dispatchers, Busy(d)'
        PROVE  tick'[d].seen.gen <= queue'[tick'[d].key].gen
    <3>1. /\ Busy(d) /\ tick[d].key \in Keys /\ tick[d].seen.gen \in Int
      BY <1>4, <2>1 DEF Busy, CountInv, IInv, InHand, Seen, Generations
    <3>2. tick[d].seen.gen <= queue[tick[d].key].gen  BY <3>1 DEF CountInv, OwnGeneration
    <3>3. QED  BY <1>1, <1>3, <1>4, <3>1, <3>2
  <2>2. QED  BY <2>1 DEF OwnGeneration
<1>7. RowsCovered'
  <2> SUFFICES ASSUME NEW l \in Keys, NEW g \in Generations, g = queue'[l].gen
               PROVE  Covers(l, g, queue[l].attempts)'
    BY DEF RowsCovered
  <2>1. CASE l = k
    <3>1. FailuresInHand(l, g) = {}
      <4>1. ASSUME NEW d \in Dispatchers, HoldsFailure(tick[d], l, g)  PROVE FALSE
        <5>1. Busy(d) /\ tick[d].key = k /\ tick[d].seen.gen = g
          BY <2>1, <4>1 DEF HoldsFailure, Busy
        <5>2. g <= queue[k].gen  BY <5>1 DEF CountInv, OwnGeneration
        <5>3. g = queue[k].gen + 1  BY <1>1, <1>3, <2>1
        <5>4. QED  BY <1>1, <5>2, <5>3
      <4>2. QED  BY <4>1 DEF FailuresInHand
    <3>2. Covers(l, g, 0)
      BY <3>1, FS_EmptySet, HandCounted DEF Covers
    <3>3. Covers(l, g, 0)'
      <4>1. 0 \in Nat  OBVIOUS
      <4>2. QED  BY <1>5, <3>2, <4>1
    <3>4. queue'[l].attempts = 0  BY <1>1, <1>3, <2>1
    <3>5. QED  BY <3>3, <3>4 DEF Covers
  <2>2. CASE l # k
    <3>1. queue'[l] = queue[l]  BY <1>3, <2>2
    <3>2. PICK n \in Nat : n = queue[l].attempts
      BY RowsAreNumbers DEF CountInv, IInv
    <3>3. Covers(l, g, n)  BY <3>1, <3>2 DEF CountInv, RowsCovered, Covers
    <3>4. Covers(l, g, n)'  BY <1>5, <3>3
    <3>5. QED  BY <3>1, <3>2, <3>4 DEF Covers
  <2>3. QED  BY <2>1, <2>2
<1>8. ReadingsCovered'
  <2> SUFFICES ASSUME NEW d \in Dispatchers, NEW l \in Keys, NEW g \in Generations,
                      tick'[d].pc = "settle", tick'[d].key = l, tick'[d].seen.gen = g
               PROVE  Covers(l, g, tick[d].seen.attempts)'
    BY DEF ReadingsCovered
  <2>0. tick[d].pc = "settle" /\ tick[d].key = l /\ tick'[d].seen = tick[d].seen
    BY <1>4
  <2>1. PICK n \in Nat : n = tick[d].seen.attempts
    BY <2>0 DEF CountInv, IInv, InHand, Busy, Seen
  <2>2. Covers(l, g, n)  BY <2>0, <2>1 DEF CountInv, ReadingsCovered, Covers
  <2>3. Covers(l, g, n)'  BY <1>5, <2>2
  <2>4. QED  BY <2>0, <2>1, <2>3 DEF Covers
<1>9. GivesUpOnlyAfterFailures'
  BY <1>1, <1>2, <1>3 DEF CountInv, GivesUpOnlyAfterFailures
<1>10. QED  BY <1>5, <1>6, <1>7, <1>8, <1>9 DEF CountInv

\* A delivery: a failure is counted and taken in hand at once.
LEMMA RelayCount ==
  ASSUME CountInv, IInv', NEW d \in Dispatchers, NEW outcome \in Outcomes, Relay(d, outcome)
  PROVE  CountInv'
<1> USE EffectAssumption
<1> DEFINE t == [tick[d] EXCEPT !.pc = "check", !.outcome = outcome]
<1>1. PICK k \in Keys, g \in Generations : k = tick[d].key /\ g = tick[d].seen.gen
  BY DEF Relay, CountInv, IInv, InHand, Busy, Seen
<1>2. /\ tick' = [tick EXCEPT ![d] = t] /\ UNCHANGED queue
      /\ t.pc = "check" /\ t.key = k /\ t.seen = tick[d].seen /\ t.outcome = outcome
  BY <1>1 DEF Relay, CountInv, IInv, TypeOK, Tick
<1> HIDE DEF t
<1>3. \A e \in Dispatchers : tick'[e] = IF e = d THEN t ELSE tick[e]
  BY <1>2 DEF CountInv, IInv, TypeOK
<1>4. /\ \A l \in Keys, h \in Generations :
           failed'[l][h] = IF outcome = "failed" /\ l = k /\ h = g /\ failed[k][g] < MaxAttempts
                           THEN failed[k][g] + 1 ELSE failed[l][h]
      /\ failed[k][g] \in 0..MaxAttempts
  <2>1. failed \in [Keys -> [Generations -> 0..MaxAttempts]]
    BY DEF CountInv, IInv, TypeOK
  <2>2. CASE ~(outcome = "failed" /\ failed[k][g] < MaxAttempts)
    BY <1>1, <2>1, <2>2 DEF Relay
  <2>3. CASE outcome = "failed" /\ failed[k][g] < MaxAttempts
    <3>1. failed' = [failed EXCEPT ![k][g] = failed[k][g] + 1]  BY <1>1, <2>3 DEF Relay
    <3>2. QED  BY <2>1, <2>3, <3>1
  <2>4. QED  BY <2>2, <2>3
<1>5. \A l \in Keys, h \in Generations :
        /\ IsFiniteSet(FailuresInHand(l, h)')
        /\ \A n \in Nat : Covers(l, h, n) => Covers(l, h, n)'
  <2> SUFFICES ASSUME NEW l \in Keys, NEW h \in Generations
               PROVE  /\ IsFiniteSet(FailuresInHand(l, h)')
                      /\ \A n \in Nat : Covers(l, h, n) => Covers(l, h, n)'
    OBVIOUS
  <2>1. IsFiniteSet(FailuresInHand(l, h))  BY DEF CountInv, FewInHand
  <2>2. failed[l][h] \in 0..MaxAttempts /\ Cardinality(FailuresInHand(l, h)) \in Nat
    BY HandCounted
  <2>3. CASE l = k /\ h = g /\ outcome = "failed"
    <3>1. FailuresInHand(l, h)' = FailuresInHand(l, h) \cup {d}
      BY <1>1, <1>2, <1>3, <2>3 DEF FailuresInHand, HoldsFailure
    <3>2. d \notin FailuresInHand(l, h)  BY DEF FailuresInHand, HoldsFailure, Relay
    <3>3. /\ IsFiniteSet(FailuresInHand(l, h)')
          /\ Cardinality(FailuresInHand(l, h)') = Cardinality(FailuresInHand(l, h)) + 1
      BY <2>1, <3>1, <3>2, FS_AddElement
    <3>4. failed'[l][h] = IF failed[l][h] < MaxAttempts THEN failed[l][h] + 1 ELSE failed[l][h]
      BY <1>4, <2>3
    <3>5. QED  BY <2>2, <3>3, <3>4 DEF Covers
  <2>4. CASE ~(l = k /\ h = g /\ outcome = "failed")
    <3>1. FailuresInHand(l, h)' = FailuresInHand(l, h)
      <4>1. \A e \in Dispatchers : HoldsFailure(tick'[e], l, h) = HoldsFailure(tick[e], l, h)
        BY <1>1, <1>2, <1>3, <2>4 DEF HoldsFailure, Relay
      <4>2. QED  BY <4>1 DEF FailuresInHand
    <3>2. failed'[l][h] = failed[l][h]  BY <1>4, <2>4
    <3>3. QED  BY <2>1, <3>1, <3>2 DEF Covers
  <2>5. QED  BY <2>3, <2>4
<1>6. FewInHand'  BY <1>5 DEF FewInHand
<1>7. OwnGeneration'
  <2>1. ASSUME NEW e \in Dispatchers, Busy(e)'
        PROVE  tick'[e].seen.gen <= queue'[tick'[e].key].gen
    <3>1. Busy(e) /\ tick'[e].key = tick[e].key /\ tick'[e].seen = tick[e].seen
      BY <1>1, <1>2, <1>3, <2>1 DEF Busy, Relay
    <3>2. QED  BY <1>2, <3>1 DEF CountInv, OwnGeneration
  <2>2. QED  BY <2>1 DEF OwnGeneration
<1>8. RowsCovered'
  <2> SUFFICES ASSUME NEW l \in Keys, NEW h \in Generations, h = queue[l].gen
               PROVE  Covers(l, h, queue[l].attempts)'
    BY <1>2 DEF RowsCovered
  <2>1. PICK n \in Nat : n = queue[l].attempts  BY RowsAreNumbers DEF CountInv, IInv
  <2>2. Covers(l, h, n)  BY <2>1 DEF CountInv, RowsCovered, Covers
  <2>3. Covers(l, h, n)'  BY <1>5, <2>2
  <2>4. QED  BY <1>2, <2>1, <2>3 DEF Covers
<1>9. ReadingsCovered'
  <2> SUFFICES ASSUME NEW e \in Dispatchers, NEW l \in Keys, NEW h \in Generations,
                      tick'[e].pc = "settle", tick'[e].key = l, tick'[e].seen.gen = h
               PROVE  Covers(l, h, tick[e].seen.attempts)'
    BY DEF ReadingsCovered
  <2>0. tick'[e] = tick[e]  BY <1>2, <1>3
  <2>1. PICK n \in Nat : n = tick[e].seen.attempts
    BY <2>0 DEF CountInv, IInv, InHand, Busy, Seen
  <2>2. Covers(l, h, n)  BY <2>0, <2>1 DEF CountInv, ReadingsCovered, Covers
  <2>3. Covers(l, h, n)'  BY <1>5, <2>2
  <2>4. QED  BY <2>0, <2>1, <2>3 DEF Covers
<1>10. GivesUpOnlyAfterFailures'
  <2> SUFFICES ASSUME NEW l \in Keys, queue[l].status = "failed"
               PROVE  failed'[l][queue[l].gen] >= MaxAttempts
    BY <1>2 DEF GivesUpOnlyAfterFailures
  <2>1. queue[l].gen \in Generations
    BY DEF CountInv, IInv, TypeOK, Row, NoRow
  <2>2. failed[l][queue[l].gen] >= MaxAttempts
    BY DEF CountInv, GivesUpOnlyAfterFailures
  <2>3. QED  BY <1>4, <2>1, <2>2
<1>11. QED  BY <1>6, <1>7, <1>8, <1>9, <1>10 DEF CountInv

\* The reading of a settlement takes over the attempts of the row.
LEMMA SettleReadCount ==
  ASSUME CountInv, IInv', NEW d \in Dispatchers, SettleRead(d)
  PROVE  CountInv'
<1>1. CASE ~Applies(d)
  BY <1>1, VisitedTyped, LettingGoCount DEF SettleRead, CountInv, IInv
<1>2. CASE Applies(d)
  <2>1. PICK k \in Keys, g \in Generations : k = tick[d].key /\ g = tick[d].seen.gen
    BY DEF SettleRead, CountInv, IInv, InHand, Busy, Seen
  <2> DEFINE t == [tick[d] EXCEPT !.pc = "settle", !.seen = SeenOf(queue[k])]
  <2>2. queue[k].gen = g  BY <1>2, <2>1 DEF Applies, Unchanged
  <2>3. /\ tick' = [tick EXCEPT ![d] = t] /\ UNCHANGED <<queue, sent, failed>>
        /\ t.pc = "settle" /\ t.key = k /\ t.seen = SeenOf(queue[k])
        /\ t.outcome = tick[d].outcome
    BY <1>2, <2>1 DEF SettleRead, CountInv, IInv, TypeOK, Tick
  <2> HIDE DEF t
  <2>4. \A e \in Dispatchers : tick'[e] = IF e = d THEN t ELSE tick[e]
    BY <2>3 DEF CountInv, IInv, TypeOK
  <2>5. t.seen.gen = g /\ t.seen.attempts = queue[k].attempts
    BY <2>2, <2>3 DEF SeenOf
  <2>6. /\ FewInHand'
        /\ \A l \in Keys, h \in Generations, n \in Nat : Covers(l, h, n) => Covers(l, h, n)'
    <3>1. \A e \in Dispatchers, l \in Keys, h \in Generations :
            HoldsFailure(tick'[e], l, h) => HoldsFailure(tick[e], l, h)
      BY <2>1, <2>3, <2>4, <2>5 DEF HoldsFailure, SettleRead
    <3>2. QED  BY <2>3, <3>1, HandsOf
  <2>7. OwnGeneration'
    <3>1. ASSUME NEW e \in Dispatchers, Busy(e)'
          PROVE  tick'[e].seen.gen <= queue'[tick'[e].key].gen
      <4>1. /\ Busy(e) /\ tick'[e].key = tick[e].key
            /\ tick'[e].seen.gen = tick[e].seen.gen
        BY <2>1, <2>3, <2>4, <2>5, <3>1 DEF Busy, SettleRead
      <4>2. QED  BY <2>3, <4>1 DEF CountInv, OwnGeneration
    <3>2. QED  BY <3>1 DEF OwnGeneration
  <2>8. ASSUME NEW l \in Keys, NEW h \in Generations, h = queue[l].gen
        PROVE  Covers(l, h, queue[l].attempts)'
    <3>1. PICK n \in Nat : n = queue[l].attempts  BY RowsAreNumbers DEF CountInv, IInv
    <3>2. Covers(l, h, n)  BY <2>8, <3>1 DEF CountInv, RowsCovered, Covers
    <3>3. Covers(l, h, n)'  BY <2>6, <3>2
    <3>4. QED  BY <2>3, <3>1, <3>3 DEF Covers
  <2>9. RowsCovered'  BY <2>3, <2>8 DEF RowsCovered
  <2>10. ReadingsCovered'
    <3> SUFFICES ASSUME NEW e \in Dispatchers, NEW l \in Keys, NEW h \in Generations,
                        tick'[e].pc = "settle", tick'[e].key = l, tick'[e].seen.gen = h
                 PROVE  Covers(l, h, tick[e].seen.attempts)'
      BY DEF ReadingsCovered
    <3>1. CASE e = d
      <4>1. l = k /\ h = g /\ tick'[e].seen.attempts = queue[k].attempts
        BY <2>3, <2>4, <2>5, <3>1
      <4>2. Covers(k, g, queue[k].attempts)'  BY <2>2, <2>8
      <4>3. QED  BY <2>3, <4>1, <4>2 DEF Covers
    <3>2. CASE e # d
      <4>0. tick'[e] = tick[e]  BY <2>4, <3>2
      <4>1. PICK n \in Nat : n = tick[e].seen.attempts
        BY <4>0 DEF CountInv, IInv, InHand, Busy, Seen
      <4>2. Covers(l, h, n)  BY <4>0, <4>1 DEF CountInv, ReadingsCovered, Covers
      <4>3. Covers(l, h, n)'  BY <2>6, <4>2
      <4>4. QED  BY <4>0, <4>1, <4>3 DEF Covers
    <3>3. QED  BY <3>1, <3>2
  <2>11. GivesUpOnlyAfterFailures'  BY <2>3 DEF CountInv, GivesUpOnlyAfterFailures
  <2>12. QED  BY <2>6, <2>7, <2>9, <2>10, <2>11 DEF CountInv
<1>3. QED  BY <1>1, <1>2

\* The settlement itself: the failure that leaves the hand covers the attempt that is
\* added to the reading.
LEMMA SettleCount ==
  ASSUME CountInv, IInv', NEW d \in Dispatchers, Settle(d)
  PROVE  CountInv'
<1>1. CASE ~Applies(d)
  BY <1>1, VisitedTyped, LettingGoCount DEF Settle, CountInv, IInv
<1>2. CASE Applies(d)
  <2>1. PICK k \in Keys, g \in Generations, n \in Nat :
          k = tick[d].key /\ g = tick[d].seen.gen /\ n = tick[d].seen.attempts
    BY DEF Settle, CountInv, IInv, InHand, Busy, Seen
  <2> DEFINE out == tick[d].outcome
             new == Settled(queue[k], tick[d].seen, out)
  <2>2. /\ queue[k].gen = g /\ queue[k].status = "attempting" /\ queue[k] \in Row
        /\ out \in {"done", "later", "failed"}
    <3>1. out \in Outcomes  BY DEF Settle, CountInv, IInv, AnswerKnown
    <3>2. queue[k].gen = g /\ queue[k].status = "attempting"
      BY <1>2, <2>1 DEF Applies, Unchanged
    <3>3. queue[k] \in Row  BY <3>2 DEF CountInv, IInv, TypeOK, NoRow
    <3>4. QED  BY <3>1, <3>2, <3>3, EffectAssumption
  <2>3. /\ tick' = [tick EXCEPT ![d] = Visited(d, k)] /\ UNCHANGED <<sent, failed>>
        /\ queue' = [queue EXCEPT ![k] = new]
    BY <1>2, <2>1 DEF Settle
  <2>4. /\ new.gen = g
        /\ out # "failed" => new.attempts = queue[k].attempts /\ new.status # "failed"
        /\ out = "failed" => new.attempts = n + 1
        /\ new.status = "failed" => out = "failed" /\ n + 1 >= MaxAttempts
    <3>1. CASE out = "done"  BY <2>2, <3>1 DEF Settled, Row
    <3>2. CASE out = "later"  BY <2>2, <3>2 DEF Settled, Row
    <3>3. CASE out = "failed"
      <4> DEFINE last  == [queue[k] EXCEPT !.status = "failed", !.stale = FALSE,
                                           !.attempts = n + 1]
                 again == [queue[k] EXCEPT !.status = "pending", !.stale = FALSE,
                                           !.attempts = n + 1, !.due = FALSE]
      <4>1. new = IF GivesUp(n + 1) THEN last ELSE again
        BY <2>1, <2>2, <3>3 DEF Settled, Row
      <4>2. /\ last.gen = g /\ last.status = "failed" /\ last.attempts = n + 1
            /\ again.gen = g /\ again.status = "pending" /\ again.attempts = n + 1
        BY <2>2 DEF Row
      <4> HIDE DEF last, again, new
      <4>3. QED  BY <3>3, <4>1, <4>2 DEF GivesUp
    <3>4. QED  BY <2>2, <3>1, <3>2, <3>3
  <2> HIDE DEF new
  <2>5. /\ \A e \in Dispatchers : tick'[e] = IF e = d THEN Visited(d, k) ELSE tick[e]
        /\ \A l \in Keys : queue'[l] = IF l = k THEN new ELSE queue[l]
        /\ Visited(d, k).pc = "next"
    BY <2>3, VisitedTyped DEF CountInv, IInv, TypeOK
  <2>6. \A e \in Dispatchers, l \in Keys, h \in Generations :
          HoldsFailure(tick'[e], l, h) => HoldsFailure(tick[e], l, h)
    BY <2>5 DEF HoldsFailure
  <2>7. /\ FewInHand'
        /\ \A l \in Keys, h \in Generations, m \in Nat : Covers(l, h, m) => Covers(l, h, m)'
    BY <2>3, <2>6, HandsOf
  <2>8. OwnGeneration'
    <3>1. ASSUME NEW e \in Dispatchers, Busy(e)'
          PROVE  tick'[e].seen.gen <= queue'[tick'[e].key].gen
      <4>1. Busy(e) /\ tick'[e] = tick[e] /\ tick[e].key \in Keys
        BY <2>5, <3>1 DEF Busy, CountInv, IInv, InHand
      <4>2. queue'[tick[e].key].gen = queue[tick[e].key].gen
        BY <2>2, <2>4, <2>5, <4>1
      <4>3. QED  BY <4>1, <4>2 DEF CountInv, OwnGeneration
    <3>2. QED  BY <3>1 DEF OwnGeneration
  <2>9. out = "failed" => Covers(k, g, n + 1)'
    <3> SUFFICES ASSUME out = "failed" PROVE Covers(k, g, n + 1)'  OBVIOUS
    <3>1. d \in FailuresInHand(k, g) /\ d \notin FailuresInHand(k, g)'
      BY <2>1, <2>5 DEF FailuresInHand, HoldsFailure, Settle
    <3>2. Covers(k, g, n)  BY <2>1 DEF Settle, CountInv, ReadingsCovered, Covers
    <3>3. FailuresInHand(k, g)' \subseteq FailuresInHand(k, g)  BY <2>6 DEF FailuresInHand
    <3>4. QED  BY <2>3, <3>1, <3>2, <3>3, FewerInHand
  <2>10. RowsCovered'
    <3> SUFFICES ASSUME NEW l \in Keys, NEW h \in Generations, h = queue'[l].gen
                 PROVE  Covers(l, h, queue[l].attempts)'
      BY DEF RowsCovered
    <3>1. CASE l = k /\ out = "failed"
      <4>1. h = g /\ queue'[l].attempts = n + 1  BY <2>4, <2>5, <3>1
      <4>2. QED  BY <2>9, <3>1, <4>1 DEF Covers
    <3>2. CASE ~(l = k /\ out = "failed")
      <4>1. queue'[l].gen = queue[l].gen /\ queue'[l].attempts = queue[l].attempts
        BY <2>2, <2>4, <2>5, <3>2
      <4>2. PICK m \in Nat : m = queue[l].attempts  BY RowsAreNumbers DEF CountInv, IInv
      <4>3. Covers(l, h, m)  BY <4>1, <4>2 DEF CountInv, RowsCovered, Covers
      <4>4. Covers(l, h, m)'  BY <2>7, <4>3
      <4>5. QED  BY <4>1, <4>2, <4>4 DEF Covers
    <3>3. QED  BY <3>1, <3>2
  <2>11. ReadingsCovered'
    <3> SUFFICES ASSUME NEW e \in Dispatchers, NEW l \in Keys, NEW h \in Generations,
                        tick'[e].pc = "settle", tick'[e].key = l, tick'[e].seen.gen = h
                 PROVE  Covers(l, h, tick[e].seen.attempts)'
      BY DEF ReadingsCovered
    <3>0. tick'[e] = tick[e]  BY <2>5
    <3>1. PICK m \in Nat : m = tick[e].seen.attempts
      BY <3>0 DEF CountInv, IInv, InHand, Busy, Seen
    <3>2. Covers(l, h, m)  BY <3>0, <3>1 DEF CountInv, ReadingsCovered, Covers
    <3>3. Covers(l, h, m)'  BY <2>7, <3>2
    <3>4. QED  BY <3>0, <3>1, <3>3 DEF Covers
  <2>12. GivesUpOnlyAfterFailures'
    <3> SUFFICES ASSUME NEW l \in Keys, queue'[l].status = "failed"
                 PROVE  failed'[l][queue'[l].gen] >= MaxAttempts
      BY DEF GivesUpOnlyAfterFailures
    <3>1. CASE l # k
      BY <2>3, <2>5, <3>1 DEF CountInv, GivesUpOnlyAfterFailures
    <3>2. CASE l = k
      <4>1. out = "failed" /\ n + 1 >= MaxAttempts /\ queue'[l].gen = g
        BY <2>4, <2>5, <3>2
      <4>2. /\ Cardinality(FailuresInHand(k, g)') \in Nat
            /\ failed'[k][g] \in 0..MaxAttempts
        <5>1. IsFiniteSet(FailuresInHand(k, g)')  BY <2>7 DEF FewInHand
        <5>2. QED  BY <2>3, <5>1, FS_CardinalityType DEF CountInv, IInv, TypeOK
      <4>3. failed'[k][g] = MaxAttempts
              \/ n + 1 + Cardinality(FailuresInHand(k, g)') <= failed'[k][g]
        BY <2>9, <4>1 DEF Covers
      <4>4. QED  BY <3>2, <4>1, <4>2, <4>3, EffectAssumption
    <3>3. QED  BY <3>1, <3>2
  <2>13. QED  BY <2>7, <2>8, <2>10, <2>11, <2>12 DEF CountInv
<1>3. QED  BY <1>1, <1>2

LEMMA NextCount == CountInv /\ [Next]_effectVars => CountInv'
<1> SUFFICES ASSUME CountInv, [Next]_effectVars PROVE CountInv'  OBVIOUS
<1>0. IInv'  BY NextIInv DEF CountInv
<1>1. CASE UNCHANGED effectVars
  <2>1. OwnGeneration'  BY <1>1 DEF effectVars, CountInv, OwnGeneration, Busy
  <2>2. \A d \in Dispatchers, k \in Keys, g \in Generations :
          HoldsFailure(tick'[d], k, g) => HoldsFailure(tick[d], k, g)
    BY <1>1 DEF effectVars
  <2>3. QED  BY <1>0, <1>1, <2>1, <2>2, CalmStep DEF effectVars
<1>2. ASSUME NEW k \in Keys, NEW due \in BOOLEAN, Enqueue(k, due) PROVE CountInv'
  BY <1>0, <1>2, EnqueueCount
<1>3. ASSUME NEW d \in Dispatchers, ListDue(d) PROVE CountInv'
  <2> DEFINE t == [IdleTick EXCEPT !.pc = "next", !.todo = Candidates]
  <2>1. t \in Tick /\ t.pc = "next"
    BY IdleTyped DEF IdleTick, Tick, Candidates
  <2>2. QED  BY <1>0, <1>3, <2>1, LettingGoCount DEF ListDue
<1>4. ASSUME NEW d \in Dispatchers, Step(d) PROVE CountInv'
  <2>1. CASE EndTick(d)
    BY <1>0, <2>1, IdleTyped, LettingGoCount DEF EndTick, IdleTick
  <2>2. ASSUME NEW k \in Keys, ClaimRead(d, k) PROVE CountInv'
    BY <1>0, <2>2, ClaimReadCount
  <2>3. ASSUME NEW k \in Keys, ClaimRefused(d, k) PROVE CountInv'
    BY <1>0, <2>3, VisitedTyped, LettingGoCount DEF ClaimRefused, CountInv, IInv
  <2>4. CASE Take(d)  BY <1>0, <2>4, TakeCount
  <2>5. ASSUME NEW outcome \in Outcomes, Relay(d, outcome) PROVE CountInv'
    BY <1>0, <2>5, RelayCount
  <2>6. CASE SettleRead(d)  BY <1>0, <2>6, SettleReadCount
  <2>7. CASE Settle(d)  BY <1>0, <2>7, SettleCount
  <2>8. QED  BY <1>4, <2>1, <2>2, <2>3, <2>4, <2>5, <2>6, <2>7 DEF Step
<1>5. ASSUME NEW d \in Dispatchers, Abort(d) PROVE CountInv'
  BY <1>0, <1>5, IdleTyped, LettingGoCount DEF Abort, IdleTick
<1>6. ASSUME NEW k \in Keys, BecomesDue(k) \/ ClaimGoesStale(k) PROVE CountInv'
  BY <1>0, <1>6, TimeCount
<1>7. QED  BY <1>1, <1>2, <1>3, <1>4, <1>5, <1>6 DEF Next

\* An effect is given up only after the limit of failed deliveries of its present
\* payload, for any number of processes that take its claim over from one another and
\* settle from readings of the row that are out of date (EffectQueue.settle).
THEOREM GivenUpAfterFailures == Spec => []GivesUpOnlyAfterFailures
<1>1. CountInv => GivesUpOnlyAfterFailures  BY DEF CountInv
<1>2. QED  BY <1>1, InitCount, NextCount, PTL DEF Spec

=============================================================================
