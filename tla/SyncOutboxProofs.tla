--------------------------- MODULE SyncOutboxProofs ---------------------------
(***************************************************************************)
(* The outbox loses nothing, for any events, keys, batch size, backoff and *)
(* number of faults.  How long a row waits plays no part in the proof.     *)
(***************************************************************************)
EXTENDS SyncOutbox, TLAPS

Fields == {"state", "attempts", "wait"}

\* The rows are records, of events that were handed over; only such events are
\* ever applied.
Shape ==
  /\ DOMAIN outbox \subseteq enqueued
  /\ outbox = [e \in DOMAIN outbox |-> outbox[e]]
  /\ \A e \in DOMAIN outbox : DOMAIN outbox[e] = Fields
  /\ applied \subseteq enqueued

\* The worker has an answer about e and has not marked its row yet.
Told(e) == pc = "mark" /\ answer.kind = "results" /\ e \in batch

\* What is being pushed is still waiting; what is applied and waiting is being
\* answered, or its answer was lost.
Waits ==
  /\ \A e \in batch : Waiting(e)
  /\ \A e \in applied : Waiting(e) => e \in unheard \/ Told(e)

\* The answer is true of the server.
AnswerTrue ==
  \A e \in batch : Told(e) =>
    /\ answer.result[e] \in {"accepted", "duplicate"} => \E f \in applied : IdempotencyKey[f] = IdempotencyKey[e]
    /\ answer.result[e] \notin {"accepted", "duplicate"} => e \notin applied

OutboxInv == Shape /\ Waits /\ AnswerTrue /\ NothingLost

(***************************************************************************)
(* Changes of the table                                                    *)
(***************************************************************************)
\* A mark sets the state of one row.
LEMMA MarkEffect ==
  ASSUME NEW e \in DOMAIN outbox, NEW state, NEW wait, Shape, Mark(e, state, wait)
  PROVE  /\ DOMAIN outbox' = DOMAIN outbox
         /\ outbox' = [f \in DOMAIN outbox' |-> outbox'[f]]
         /\ \A f \in DOMAIN outbox : DOMAIN outbox'[f] = Fields
         /\ outbox'[e].state = state
         /\ \A f \in DOMAIN outbox \ {e} : outbox'[f] = outbox[f]
  BY DEF Mark, Shape, Fields

\* A deletion takes one row away.
LEMMA DeleteEffect ==
  ASSUME NEW e \in DOMAIN outbox, Shape, Delete(e)
  PROVE  /\ DOMAIN outbox' = DOMAIN outbox \ {e}
         /\ outbox' = [f \in DOMAIN outbox' |-> outbox'[f]]
         /\ \A f \in DOMAIN outbox' : outbox'[f] = outbox[f] /\ DOMAIN outbox'[f] = Fields
  BY DEF Delete, Shape

\* Time changes no state.
LEMMA TickEffect ==
  ASSUME Shape, Tick
  PROVE  /\ DOMAIN outbox' = DOMAIN outbox
         /\ outbox' = [f \in DOMAIN outbox' |-> outbox'[f]]
         /\ \A f \in DOMAIN outbox : outbox'[f].state = outbox[f].state /\ DOMAIN outbox'[f] = Fields
  BY DEF Tick, Shape, Fields

(***************************************************************************)
(* The invariant                                                           *)
(***************************************************************************)
\* Nothing has been handed over at the start.
LEMMA InitInv == Init => OutboxInv
  BY DEF Init, OutboxInv, Shape, Waits, AnswerTrue, NothingLost, Waiting, Told, NoAnswer

\* A new row waits, and its event was never applied.
LEMMA EnqueueInv ==
  ASSUME OutboxInv, NEW e \in Events, Enqueue(e)
  PROVE  OutboxInv'
<1>1. /\ DOMAIN outbox' = DOMAIN outbox \union {e}
      /\ outbox' = [f \in DOMAIN outbox' |-> outbox'[f]]
      /\ outbox'[e].state = "pending"
      /\ e \notin applied /\ e \notin DOMAIN outbox
      /\ \A f \in DOMAIN outbox : outbox'[f] = outbox[f]
      /\ \A f \in DOMAIN outbox' : DOMAIN outbox'[f] = Fields
  BY DEF OutboxInv, Shape, Enqueue, Fields
<1>2. Shape'
  BY <1>1 DEF OutboxInv, Shape, Enqueue
<1>3. Waits'
  BY <1>1 DEF OutboxInv, Waits, Waiting, Told, Enqueue
<1>4. AnswerTrue'
  BY DEF OutboxInv, AnswerTrue, Told, Enqueue
<1>5. NothingLost'
  BY <1>1 DEF OutboxInv, NothingLost, Enqueue
<1>q. QED BY <1>2, <1>3, <1>4, <1>5 DEF OutboxInv

\* Only due rows are pushed.
LEMMA BeginInv == OutboxInv /\ Begin => OutboxInv'
<1> SUFFICES ASSUME OutboxInv, Begin PROVE OutboxInv'
  OBVIOUS
<1>1. Shape'
  BY DEF OutboxInv, Shape, Begin
<1>2. Waits'
  BY DEF OutboxInv, Waits, Waiting, Told, Begin, Pending, Due
<1>3. AnswerTrue'
  BY DEF AnswerTrue, Told, Begin
<1>4. NothingLost'
  BY DEF OutboxInv, NothingLost, Begin
<1>q. QED BY <1>1, <1>2, <1>3, <1>4 DEF OutboxInv

\* What is not a duplicate was not applied before; what is applied and in the batch
\* is answered.
LEMMA AnsweredInv == OutboxInv /\ Push /\ Answered => OutboxInv'
<1> SUFFICES ASSUME OutboxInv, Push, Answered PROVE OutboxInv'
  OBVIOUS
<1>1. PICK result \in [batch -> Results] :
        /\ \A e \in batch : result[e] = "duplicate" <=> \E f \in applied : IdempotencyKey[f] = IdempotencyKey[e]
        /\ applied' = applied \union {e \in batch : result[e] = "accepted"}
        /\ answer' = [kind |-> "results", result |-> result]
        /\ unheard' = unheard \ batch
  BY DEF Answered
<1>2. pc = "push" /\ pc' = "mark" /\ UNCHANGED <<outbox, batch, enqueued>>
  BY DEF Push
<1>3. batch \subseteq DOMAIN outbox
  BY DEF OutboxInv, Waits, Waiting
<1>4. Shape'
  BY <1>1, <1>2, <1>3 DEF OutboxInv, Shape
<1>5. Waits'
  BY <1>1, <1>2 DEF OutboxInv, Waits, Waiting, Told
<1>6. AnswerTrue'
  BY <1>1, <1>2 DEF AnswerTrue, Told
<1>7. NothingLost'
  BY <1>1, <1>2 DEF OutboxInv, NothingLost, Waits, Waiting
<1>q. QED BY <1>4, <1>5, <1>6, <1>7 DEF OutboxInv

\* What is applied without an answer is unheard of.
LEMMA UnansweredInv == OutboxInv /\ Push /\ Unanswered => OutboxInv'
<1> SUFFICES ASSUME OutboxInv, Push, Unanswered PROVE OutboxInv'
  OBVIOUS
<1>1. PICK done \in SUBSET batch : applied' = applied \union done /\ unheard' = unheard \union done
  BY DEF Unanswered
<1>2. answer'.kind # "results"
  BY DEF Unanswered, Failures
<1>3. pc = "push" /\ pc' = "mark" /\ UNCHANGED <<outbox, batch, enqueued>>
  BY DEF Push
<1>4. batch \subseteq DOMAIN outbox
  BY DEF OutboxInv, Waits, Waiting
<1>5. Shape'
  BY <1>1, <1>3, <1>4 DEF OutboxInv, Shape
<1>6. Waits'
  BY <1>1, <1>3 DEF OutboxInv, Waits, Waiting, Told
<1>7. AnswerTrue'
  BY <1>2 DEF AnswerTrue, Told
<1>8. NothingLost'
  BY <1>1, <1>3 DEF OutboxInv, NothingLost, Waits, Waiting
<1>q. QED BY <1>5, <1>6, <1>7, <1>8 DEF OutboxInv

\* A row may be tried again, or is set aside if its event was not applied or that was
\* not heard of.
LEMMA MarkInv ==
  ASSUME OutboxInv, NEW e \in batch, NEW state, NEW wait, Mark(e, state, wait),
         batch' = batch \ {e}, UNCHANGED <<pc, answer, applied, enqueued, unheard>>,
         state = "retryable" \/ e \notin applied \/ e \in unheard,
         Told(e) => e \notin applied
  PROVE  OutboxInv'
<1>1. e \in DOMAIN outbox
  BY DEF OutboxInv, Waits, Waiting
<1>2. /\ DOMAIN outbox' = DOMAIN outbox
      /\ outbox' = [f \in DOMAIN outbox' |-> outbox'[f]]
      /\ \A f \in DOMAIN outbox : DOMAIN outbox'[f] = Fields
      /\ outbox'[e].state = state
      /\ \A f \in DOMAIN outbox \ {e} : outbox'[f] = outbox[f]
  BY <1>1, MarkEffect DEF OutboxInv
<1>3. Shape'
  BY <1>2 DEF OutboxInv, Shape
<1>4. Waits'
  <2>1. \A f \in batch' : Waiting(f)'
    BY <1>2 DEF OutboxInv, Waits, Waiting
  <2>2. ASSUME NEW f \in applied', Waiting(f)' PROVE f \in unheard' \/ Told(f)'
    BY <1>1, <1>2, <2>2 DEF OutboxInv, Waits, Waiting, Told
  <2>q. QED BY <2>1, <2>2 DEF Waits
<1>5. AnswerTrue'
  BY DEF OutboxInv, AnswerTrue, Told
<1>6. NothingLost'
  BY <1>1, <1>2 DEF OutboxInv, NothingLost
<1>q. QED BY <1>3, <1>4, <1>5, <1>6 DEF OutboxInv

\* A row is deleted when the server has its operation.
LEMMA DeleteInv ==
  ASSUME OutboxInv, NEW e \in batch, Delete(e),
         batch' = batch \ {e}, UNCHANGED <<pc, answer, applied, enqueued, unheard>>,
         \E f \in applied : IdempotencyKey[f] = IdempotencyKey[e]
  PROVE  OutboxInv'
<1>1. e \in DOMAIN outbox
  BY DEF OutboxInv, Waits, Waiting
<1>2. /\ DOMAIN outbox' = DOMAIN outbox \ {e}
      /\ outbox' = [f \in DOMAIN outbox' |-> outbox'[f]]
      /\ \A f \in DOMAIN outbox' : outbox'[f] = outbox[f] /\ DOMAIN outbox'[f] = Fields
  BY <1>1, DeleteEffect DEF OutboxInv
<1>3. Shape'
  BY <1>2 DEF OutboxInv, Shape
<1>4. Waits'
  BY <1>2 DEF OutboxInv, Waits, Waiting, Told
<1>5. AnswerTrue'
  BY DEF OutboxInv, AnswerTrue, Told
<1>6. NothingLost'
  BY <1>2 DEF OutboxInv, NothingLost
<1>q. QED BY <1>3, <1>4, <1>5, <1>6 DEF OutboxInv

\* Each result is applied to its row.
LEMMA MarkOneInv == OutboxInv /\ MarkOne => OutboxInv'
<1> SUFFICES ASSUME OutboxInv, MarkOne PROVE OutboxInv'
  OBVIOUS
<1>1. PICK e \in batch :
        /\ batch' = batch \ {e}
        /\ \/ answer.kind = "results" /\ Settle(e)
           \/ answer.kind \in {"network_error", "retryable"} /\ Retry(e)
           \/ answer.kind = "refused" /\ Mark(e, "rejected", 0)
  BY DEF MarkOne
<1>2. pc = "mark" /\ UNCHANGED <<pc, answer, applied, enqueued, unheard>>
  BY DEF MarkOne
<1>3. CASE answer.kind = "results" /\ Settle(e)
  <2>1. /\ answer.result[e] \in {"accepted", "duplicate"} => \E f \in applied : IdempotencyKey[f] = IdempotencyKey[e]
        /\ answer.result[e] \notin {"accepted", "duplicate"} => e \notin applied
    BY <1>2, <1>3 DEF OutboxInv, AnswerTrue, Told
  <2>2. CASE answer.result[e] \in {"accepted", "duplicate"} /\ Delete(e)
    BY <1>1, <1>2, <2>1, <2>2, DeleteInv
  <2>3. CASE answer.result[e] = "retryable_failure" /\ Retry(e)
    BY <1>1, <1>2, <2>1, <2>3, MarkInv DEF Retry
  <2>4. CASE answer.result[e] = "conflict" /\ Mark(e, "conflict_review_required", 0)
    BY <1>1, <1>2, <2>1, <2>4, MarkInv
  <2>5. CASE answer.result[e] = "missing" /\ Mark(e, "rejected", 0)
    BY <1>1, <1>2, <2>1, <2>5, MarkInv
  <2>q. QED BY <1>3, <2>2, <2>3, <2>4, <2>5 DEF Settle
<1>4. CASE answer.kind # "results" /\ (Retry(e) \/ Mark(e, "rejected", 0))
  <2>1. e \notin applied \/ e \in unheard
    BY <1>4 DEF OutboxInv, Waits, Told
  <2>2. ~Told(e)
    BY <1>4 DEF Told
  <2>3. CASE Retry(e)
    BY <1>1, <1>2, <2>1, <2>2, <2>3, MarkInv DEF Retry
  <2>4. CASE Mark(e, "rejected", 0)
    BY <1>1, <1>2, <2>1, <2>2, <2>4, MarkInv
  <2>q. QED BY <1>4, <2>3, <2>4
<1>q. QED BY <1>1, <1>3, <1>4

\* Nothing is left to mark.
LEMMA FinishInv == OutboxInv /\ Finish => OutboxInv'
<1> SUFFICES ASSUME OutboxInv, Finish PROVE OutboxInv'
  OBVIOUS
<1>1. Shape' /\ Waits' /\ AnswerTrue'
  BY DEF OutboxInv, Shape, Waits, AnswerTrue, Waiting, Told, Finish
<1>2. NothingLost'
  BY DEF OutboxInv, NothingLost, Finish
<1>q. QED BY <1>1, <1>2 DEF OutboxInv

\* What was answered and not marked is unheard of from now on.
LEMMA DieInv == OutboxInv /\ Die => OutboxInv'
<1> SUFFICES ASSUME OutboxInv, Die PROVE OutboxInv'
  OBVIOUS
<1>1. Shape' /\ Waits' /\ AnswerTrue'
  BY DEF OutboxInv, Shape, Waits, AnswerTrue, Waiting, Told, Die
<1>2. NothingLost'
  BY DEF OutboxInv, NothingLost, Die
<1>q. QED BY <1>1, <1>2 DEF OutboxInv

\* Time changes no state.
LEMMA TickInv == OutboxInv /\ Tick => OutboxInv'
<1> SUFFICES ASSUME OutboxInv, Tick PROVE OutboxInv'
  OBVIOUS
<1>1. /\ DOMAIN outbox' = DOMAIN outbox
      /\ outbox' = [f \in DOMAIN outbox' |-> outbox'[f]]
      /\ \A f \in DOMAIN outbox : outbox'[f].state = outbox[f].state /\ DOMAIN outbox'[f] = Fields
  BY TickEffect DEF OutboxInv
<1>2. UNCHANGED <<pc, batch, answer, applied, enqueued, unheard>>
  BY DEF Tick
<1>3. Shape' /\ Waits' /\ AnswerTrue'
  BY <1>1, <1>2 DEF OutboxInv, Shape, Waits, AnswerTrue, Waiting, Told
<1>4. NothingLost'
  BY <1>1, <1>2 DEF OutboxInv, NothingLost
<1>q. QED BY <1>3, <1>4 DEF OutboxInv

\* Every step keeps the invariant.
LEMMA StepInv == OutboxInv /\ [Next]_vars => OutboxInv'
<1> SUFFICES ASSUME OutboxInv, [Next]_vars PROVE OutboxInv'
  OBVIOUS
<1>1. ASSUME NEW e \in Events, Enqueue(e) PROVE OutboxInv'
  BY <1>1, EnqueueInv
<1>2. CASE Begin
  BY <1>2, BeginInv
<1>3. CASE Push
  BY <1>3, AnsweredInv, UnansweredInv DEF Push
<1>4. CASE MarkOne
  BY <1>4, MarkOneInv
<1>5. CASE Finish
  BY <1>5, FinishInv
<1>6. CASE Die
  BY <1>6, DieInv
<1>7. CASE Tick
  BY <1>7, TickInv
<1>8. CASE UNCHANGED vars
  BY <1>8 DEF vars, OutboxInv, Shape, Waits, AnswerTrue, NothingLost, Waiting, Told
<1>q. QED BY <1>1, <1>2, <1>3, <1>4, <1>5, <1>6, <1>7, <1>8 DEF Next, DoWork

\* Whatever is lost on the way, an event leaves the outbox only when the server has its
\* operation, and one that is set aside is not applied unless an answer about it was lost.
THEOREM NothingLostHolds == Spec => []NothingLost
<1>1. OutboxInv => NothingLost
  BY DEF OutboxInv
<1>q. QED BY InitInv, StepInv, <1>1, PTL DEF Spec
===============================================================================
