------------------------------ MODULE SyncOutbox ------------------------------
(***************************************************************************)
(* The outbox of the Android companion: OutboxDao, and SyncWorker.doWork,    *)
(* which WorkManager runs one at a time and starts again after a failure, a *)
(* retry or the death of the process.  The server is modelled by the        *)
(* answers the worker tells apart.                                          *)
(*                                                                         *)
(* A step ends at the push and at each statement on the table.  A timestamp *)
(* of the table is how long it is until then.                               *)
(***************************************************************************)
EXTENDS Naturals, FiniteSets

CONSTANTS
  Events,        \* clientEventIds, ordered as their createdAtUtc
  IdempotencyKey,  \* of an event
  BatchSize,
  BaseBackoff, MaxBackoff, MaxBackoffPower,
  MaxFaults      \* bound: failed or undecided pushes, and deaths

ASSUME OutboxAssumption ==
  /\ Events \subseteq Nat /\ IsFiniteSet(Events)
  /\ DOMAIN IdempotencyKey = Events
  /\ BatchSize \in Nat \ {0}
  /\ BaseBackoff \in Nat /\ MaxBackoff \in Nat /\ MaxBackoffPower \in Nat /\ MaxFaults \in Nat

VARIABLES
  outbox,     \* rows of sync_outbox: state, attempts, time to nextAttemptAtUtc
  pc,
  batch,      \* pending rows still to be marked
  answer,     \* of the push
  age,        \* time since doWork read `now`
  \* the server, history and bounds
  applied,    \* events whose effect the server has
  enqueued,   \* events the application ever handed over
  unheard,    \* events whose application the worker was not told of
  faults

vars == <<outbox, pc, batch, answer, age, applied, enqueued, unheard, faults>>

States == {"pending", "retryable", "rejected", "conflict_review_required"}
Rows == [state : States, attempts : Nat, wait : Nat]
Results == {"accepted", "duplicate", "retryable_failure", "conflict", "missing"}
Failures == {"network_error", "retryable", "refused"}
NoAnswer == [kind |-> "none"]

Init ==
  /\ outbox = <<>> /\ pc = "idle" /\ batch = {} /\ answer = NoAnswer /\ age = 0
  /\ applied = {} /\ enqueued = {} /\ unheard = {} /\ faults = 0

Waiting(e) == e \in DOMAIN outbox /\ outbox[e].state \in {"pending", "retryable"}

\* Mutant: the query forgets the rows it has tried before.
DueOnce(e) == Waiting(e) /\ outbox[e].state = "pending" /\ outbox[e].wait = 0

Due(e) == Waiting(e) /\ outbox[e].wait = 0

\* The first BatchSize rows that are due
Pending == {e \in Events : Due(e) /\ Cardinality({f \in Events : f < e /\ Due(f)}) < BatchSize}

LeastOf(a, b) == IF a < b THEN a ELSE b

Backoff(attempts) == LeastOf(MaxBackoff, BaseBackoff * 2^LeastOf(attempts, MaxBackoffPower))

\* attemptCount is counted as far as the backoff tells it apart.
NextAttempt(e) == LeastOf(outbox[e].attempts + 1, MaxBackoffPower)

Remaining(delay) == IF delay > age THEN delay - age ELSE 0

Mark(e, state, wait) ==
  outbox' = [outbox EXCEPT ![e] = [state |-> state, attempts |-> NextAttempt(e), wait |-> wait]]

Retry(e) == Mark(e, "retryable", Remaining(Backoff(NextAttempt(e))))

Delete(e) == outbox' = [f \in DOMAIN outbox \ {e} |-> outbox[f]]

(***************************************************************************)
(* The application                                                         *)
(***************************************************************************)
\* Insert or ignore, on the event id and the idempotency key
Enqueue(e) ==
  /\ e \notin enqueued
  /\ \A f \in DOMAIN outbox : IdempotencyKey[f] # IdempotencyKey[e]
  /\ enqueued' = enqueued \union {e}
  /\ outbox' = [f \in DOMAIN outbox \union {e} |->
       IF f = e THEN [state |-> "pending", attempts |-> 0, wait |-> 0] ELSE outbox[f]]
  /\ UNCHANGED <<pc, batch, answer, age, applied, unheard, faults>>

(***************************************************************************)
(* doWork                                                                  *)
(***************************************************************************)
\* Without a validated network, or with nothing due, doWork returns at once.
Begin ==
  /\ pc = "idle" /\ Pending # {}
  /\ batch' = Pending /\ age' = 0
  /\ pc' = "push"
  /\ UNCHANGED <<outbox, answer, applied, enqueued, unheard, faults>>

\* A result for each event: what was applied before is a duplicate.
Answered ==
  \E result \in [batch -> Results] :
    /\ \A e \in batch : result[e] = "duplicate" <=> \E f \in applied : IdempotencyKey[f] = IdempotencyKey[e]
    /\ \/ faults' = faults /\ \A e \in batch : result[e] # "retryable_failure"
       \/ faults' = faults + 1 /\ \E e \in batch : result[e] = "retryable_failure"
    /\ applied' = applied \union {e \in batch : result[e] = "accepted"}
    /\ answer' = [kind |-> "results", result |-> result]
    /\ unheard' = unheard \ batch

\* An exception before or after the server acted, or an error for the batch.
Unanswered ==
  /\ faults' = faults + 1
  /\ \E kind \in Failures : answer' = [kind |-> kind]
  /\ \E done \in SUBSET batch :
       /\ applied' = applied \union done
       /\ unheard' = unheard \union done

Push ==
  /\ pc = "push"
  /\ Answered \/ Unanswered
  /\ faults' <= MaxFaults
  /\ pc' = "mark"
  /\ UNCHANGED <<outbox, batch, age, enqueued>>

\* Mutant: whatever was answered is done with.
SettleForgetting(e) == Delete(e)

\* What one result does to its row
Settle(e) ==
  LET result == answer.result[e]
  IN  \/ result \in {"accepted", "duplicate"} /\ Delete(e)
      \/ result = "retryable_failure" /\ Retry(e)
      \/ result = "conflict" /\ Mark(e, "conflict_review_required", 0)
      \/ result = "missing" /\ Mark(e, "rejected", 0)

MarkOne ==
  /\ pc = "mark"
  /\ \E e \in batch :
       /\ \A f \in batch : e <= f
       /\ batch' = batch \ {e}
       /\ \/ answer.kind = "results" /\ Settle(e)
          \/ answer.kind \in {"network_error", "retryable"} /\ Retry(e)
          \/ answer.kind = "refused" /\ Mark(e, "rejected", 0)
  /\ UNCHANGED <<pc, answer, age, applied, enqueued, unheard, faults>>

Finish ==
  /\ pc = "mark" /\ batch = {}
  /\ pc' = "idle" /\ answer' = NoAnswer /\ age' = 0
  /\ UNCHANGED <<outbox, batch, applied, enqueued, unheard, faults>>

\* The process dies; what the server answered is forgotten.
Die ==
  /\ pc # "idle" /\ faults < MaxFaults
  /\ faults' = faults + 1
  /\ unheard' = unheard \union (batch \intersect applied)
  /\ pc' = "idle" /\ batch' = {} /\ answer' = NoAnswer /\ age' = 0
  /\ UNCHANGED <<outbox, applied, enqueued>>

Tick ==
  /\ \/ \E e \in DOMAIN outbox : outbox[e].wait > 0
     \/ pc # "idle" /\ age < MaxBackoff
  /\ outbox' = [e \in DOMAIN outbox |->
       [outbox[e] EXCEPT !.wait = IF @ = 0 THEN 0 ELSE @ - 1]]
  /\ age' = IF pc = "idle" THEN 0 ELSE LeastOf(age + 1, MaxBackoff)
  /\ UNCHANGED <<pc, batch, answer, applied, enqueued, unheard, faults>>

DoWork == Begin \/ Push \/ MarkOne \/ Finish

Next == (\E e \in Events : Enqueue(e)) \/ DoWork \/ Die \/ Tick

\* WorkManager runs the periodic work again and again; a push returns or times
\* out, and backoffs pass.
Fairness == WF_vars(DoWork) /\ WF_vars(Tick)

Spec == Init /\ [][Next]_vars /\ Fairness

(***************************************************************************)
(* Properties                                                              *)
(***************************************************************************)
TypeOK ==
  /\ DOMAIN outbox \subseteq Events /\ outbox \in [DOMAIN outbox -> Rows]
  /\ pc \in {"idle", "push", "mark"} /\ batch \subseteq DOMAIN outbox
  /\ answer.kind \in {"none", "results"} \union Failures /\ age \in 0..MaxBackoff
  /\ applied \subseteq Events /\ enqueued \subseteq Events /\ unheard \subseteq applied
  /\ faults \in 0..MaxFaults

\* An event leaves the outbox only when the server has its operation, and one
\* that is given up for rejected or conflicting is not applied unless an answer
\* about it was lost: through deaths between push and marks, batch errors and
\* repeated pushes.
NothingLost ==
  /\ \A e \in enqueued \ DOMAIN outbox : \E f \in applied : IdempotencyKey[f] = IdempotencyKey[e]
  /\ \A e \in DOMAIN outbox :
       outbox[e].state \in {"rejected", "conflict_review_required"} /\ e \in applied
         => e \in unheard

\* Once pushes fail no more, every event is taken by the server or set aside.
EverythingSettles == \A e \in Events : Waiting(e) ~> ~Waiting(e)
=============================================================================
