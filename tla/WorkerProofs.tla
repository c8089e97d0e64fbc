---------------------------- MODULE WorkerProofs ----------------------------
(***************************************************************************)
(* Proofs about Worker, for any number of processes and events and any     *)
(* bounds: typing, mutual exclusion of cycles through the lock file, that  *)
(* no accepted event is ever lost, that the parts of the state file agree  *)
(* with each other and with what was delivered, that a processed event is  *)
(* final, and that the worker implements WorkItems.                        *)
(***************************************************************************)
EXTENDS Worker, TLAPS

(***************************************************************************)
(* Typing                                                                  *)
(***************************************************************************)
\* pc values at which the head of the batch is in hand.
Handling == {"predict", "notify", "calling", "save"}

BatchInv == \A w \in Workers : pc[w] \in Handling => batch[w] # <<>>

TypeInv == TypeOK /\ BatchInv

LEMMA NewStateType == NewState \in WorkerState
BY DEF NewState, WorkerState

LEMMA BumpType ==
  ASSUME NEW f \in [Events -> Nat], NEW k \in Events
  PROVE  Bump(f, k) \in [Events -> Nat]
BY DEF Bump

LEMMA DropType ==
  ASSUME NEW f \in [Events -> Nat], NEW k \in Events, f[k] > 0
  PROVE  Drop(f, k) \in [Events -> Nat]
<1>1. f[k] - 1 \in Nat
  OBVIOUS
<1>. QED
  BY <1>1 DEF Drop

LEMMA DeadlineType ==
  ASSUME NEW n \in Nat, NEW u \in Nat, NEW t \in Nat
  PROVE  Deadline(n, u, t) \in Nat
<1>1. t + CircuitCooldown \in Nat
  BY ConfigAssumption
<1>. QED
  BY <1>1 DEF Deadline

\* Every update of the worker state is again a worker state.
LEMMA UpdateType ==
  ASSUME NEW s \in WorkerState, NEW t \in Nat
  PROVE  /\ Recovered(s) \in WorkerState
         /\ Beaten(s) \in WorkerState
         /\ SourceFailed(s, t) \in WorkerState
         /\ SourceRecovered(s) \in WorkerState
         /\ NotifierFailed(s, t) \in WorkerState
         /\ NotifierRecovered(s) \in WorkerState
<1>1. /\ s.iteration + 1 \in Nat
      /\ s.source_failures + 1 \in Nat
      /\ s.notification_failures + 1 \in Nat
  BY DEF WorkerState
<1>2. /\ Deadline(s.source_failures, s.source_until, t) \in Nat
      /\ Deadline(s.notification_failures, s.notification_until, t) \in Nat
  BY DeadlineType DEF WorkerState
<1>3. Recovered(s) \in WorkerState
  BY DEF Recovered, WorkerState
<1>4. Beaten(s) \in WorkerState
  BY <1>1 DEF Beaten, WorkerState
<1>5. SourceFailed(s, t) \in WorkerState
  BY <1>1, <1>2 DEF SourceFailed, WorkerState
<1>6. NotifierFailed(s, t) \in WorkerState
  BY <1>1, <1>2 DEF NotifierFailed, WorkerState
<1>7. SourceRecovered(s) \in WorkerState /\ NotifierRecovered(s) \in WorkerState
  BY DEF SourceRecovered, NotifierRecovered, WorkerState
<1>. QED
  BY <1>3, <1>4, <1>5, <1>6, <1>7

LEMMA KeyUpdateType ==
  ASSUME NEW s \in WorkerState, NEW k \in Events
  PROVE  /\ Marked(s, k) \in WorkerState
         /\ Requeued(s, k) \in WorkerState
         /\ Refused(s, k) \in WorkerState
         /\ Issued(s, k) \in WorkerState
         /\ DeadLettered(s, k) \in WorkerState
         /\ Settled(s, k) \in WorkerState
<1>1. /\ Bump(s.retry_queue, k) \in [Events -> Nat]
      /\ Bump(s.dead_letter_keys, k) \in [Events -> Nat]
  BY BumpType DEF WorkerState
<1>2. Requeued(s, k) \in WorkerState /\ DeadLettered(s, k) \in WorkerState
  BY <1>1 DEF Requeued, DeadLettered, WorkerState
<1>3. Marked(s, k) \in WorkerState /\ Refused(s, k) \in WorkerState
  BY DEF Marked, Refused, WorkerState
<1>4. Issued(s, k) \in WorkerState /\ Settled(s, k) \in WorkerState
  BY DEF Issued, Settled, WorkerState
<1>. QED
  BY <1>2, <1>3, <1>4

LEMMA CurrentType ==
  ASSUME NEW w \in Workers, TypeOK, batch[w] # <<>>
  PROVE  /\ Current(w) \in Events
         /\ Tail(batch[w]) \in Seq(Item)
<1>1. batch[w] \in Seq(Item)
  BY DEF TypeOK
<1>2. Head(batch[w]) \in Item /\ Tail(batch[w]) \in Seq(Item)
  BY <1>1
<1>. QED
  BY <1>2 DEF Current, Item

LEMMA TypeInit == Init => TypeInv
<1>. SUFFICES ASSUME Init PROVE TypeInv
  OBVIOUS
<1>1. <<>> \in Seq(Item)
  OBVIOUS
<1>2. TypeOK
  BY <1>1, NewStateType DEF Init, TypeOK
<1>3. BatchInv
  BY DEF Init, BatchInv, Handling
<1>. QED
  BY <1>2, <1>3 DEF TypeInv

LEMMA LoopType ==
  ASSUME NEW w \in Workers, TypeInv, Start(w) \/ Loop(w)
  PROVE  TypeInv'
<1>. USE DEF GoTo, Create, Unlock, SaveAs, Locked, Locking, InCycle, shared, env, history,
            TypeInv, TypeOK, BatchInv, Handling
<1>1. CASE RunOnce(w)
  BY <1>1 DEF RunOnce
<1>2. CASE RunForever(w)
  BY <1>2 DEF RunForever
<1>3. CASE LoopRelease(w)
  BY <1>3 DEF LoopRelease
<1>4. CASE LoopRunOnce(w)
  BY <1>4 DEF LoopRunOnce
<1>5. CASE LoopBlocked(w)
  BY <1>5 DEF LoopBlocked
<1>6. CASE Reacquire(w)
  BY <1>6 DEF Reacquire
<1>7. CASE ReacquireFails(w)
  BY <1>7 DEF ReacquireFails
<1>8. CASE LoopStop(w)
  BY <1>8 DEF LoopStop
<1>9. CASE Release(w)
  BY <1>9, NewStateType DEF Release
<1>10. CASE TakeLock(w)
  BY <1>10 DEF TakeLock, After, Locking
<1>. QED
  BY <1>1, <1>2, <1>3, <1>4, <1>5, <1>6, <1>7, <1>8, <1>9, <1>10 DEF Start, Loop

LEMMA CycleType ==
  ASSUME NEW w \in Workers, TypeInv, Cycle(w)
  PROVE  TypeInv'
<1>. DEFINE s == mem[w]
           k == Current(w)
           t == now[w]
<1>1. s \in WorkerState /\ t \in Nat /\ disk \in WorkerState
  BY DEF TypeInv, TypeOK
<1>2. ASSUME batch[w] # <<>> PROVE k \in Events /\ Tail(batch[w]) \in Seq(Item)
  BY <1>2, CurrentType DEF TypeInv
<1>3. pc[w] \in Handling => batch[w] # <<>>
  BY DEF TypeInv, BatchInv
<1>. USE DEF GoTo, SaveAs, Remember, Locked, InCycle, shared, env, history,
            TypeInv, TypeOK, BatchInv, Handling
<1>4. CASE LoadAndRecover(w)
  <2>1. Recovered(disk) \in WorkerState
    BY <1>1, UpdateType
  <2>. QED
    BY <1>4, <1>2, <1>3, <2>1 DEF LoadAndRecover
<1>5. CASE Heartbeat(w)
  <2>1. Beaten(s) \in WorkerState
    BY <1>1, UpdateType
  <2>. QED
    BY <1>5, <1>2, <1>3, <2>1 DEF Heartbeat
<1>6. CASE SourceCircuitOpen(w)
  BY <1>6, <1>1, <1>2, <1>3 DEF SourceCircuitOpen
<1>7. CASE SourceFails(w)
  <2>1. SourceFailed(s, t) \in WorkerState
    BY <1>1, UpdateType
  <2>. QED
    BY <1>7, <1>2, <1>3, <2>1 DEF SourceFails
<1>8. CASE SourceReturns(w)
  <2>1. SourceRecovered(s) \in WorkerState
    BY <1>1, UpdateType
  <2>2. mem' = [mem EXCEPT ![w] = SourceRecovered(s)] /\ disk' \in {disk, SourceRecovered(s)}
    BY <1>8 DEF SourceReturns
  <2>3. PICK b \in Batches : batch' = [batch EXCEPT ![w] = b]
    BY <1>8 DEF SourceReturns
  <2>4. b \in Seq(Item)
    BY ConfigAssumption
  <2>5. pc' \in [Workers -> Locked \union Locking \union {"idle", "gap", "reacquire", "reraise"}] /\ BatchInv'
    BY <1>8, <2>3 DEF SourceReturns
  <2>. QED
    BY <1>8, <1>1, <2>1, <2>2, <2>3, <2>4, <2>5 DEF SourceReturns
<1>9. CASE SkipEvent(w)
  BY <1>9, <1>1, <1>2, <1>3 DEF SkipEvent
<1>10. CASE AcceptEvent(w)
  <2>1. Marked(s, k) \in WorkerState
    BY <1>10, <1>1, <1>2, <1>3, KeyUpdateType DEF AcceptEvent
  <2>. QED
    BY <1>10, <1>2, <1>3, <2>1 DEF AcceptEvent
<1>11. CASE PredictionFails(w)
  <2>1. Requeued(s, k) \in WorkerState
    BY <1>11, <1>1, <1>2, <1>3, KeyUpdateType DEF PredictionFails
  <2>. QED
    BY <1>11, <1>2, <1>3, <2>1 DEF PredictionFails
<1>12. CASE PredictionRejected(w)
  <2>1. Refused(s, k) \in WorkerState
    BY <1>12, <1>1, <1>2, <1>3, KeyUpdateType DEF PredictionRejected
  <2>. QED
    BY <1>12, <1>2, <1>3, <2>1 DEF PredictionRejected
<1>13. CASE PredictionIssued(w)
  <2>1. Issued(s, k) \in WorkerState
    BY <1>13, <1>1, <1>2, <1>3, KeyUpdateType DEF PredictionIssued
  <2>. QED
    BY <1>13, <1>2, <1>3, <2>1 DEF PredictionIssued
<1>14. CASE NotificationBypassed(w)
  <2>1. Settled(s, k) \in WorkerState
    BY <1>14, <1>1, <1>2, <1>3, KeyUpdateType DEF NotificationBypassed
  <2>. QED
    BY <1>14, <1>2, <1>3, <2>1 DEF NotificationBypassed
<1>15. CASE NotificationCircuitOpen(w)
  <2>1. Requeued(s, k) \in WorkerState
    BY <1>15, <1>1, <1>2, <1>3, KeyUpdateType DEF NotificationCircuitOpen
  <2>. QED
    BY <1>15, <1>2, <1>3, <2>1 DEF NotificationCircuitOpen
<1>16. CASE CallNotifier(w)
  BY <1>16, <1>1, <1>2, <1>3 DEF CallNotifier
<1>17. CASE NotifierReturns(w)
  <2>1. k \in Events
    BY <1>17, <1>2, <1>3 DEF NotifierReturns
  <2>2. Settled(NotifierRecovered(s), k) \in WorkerState
    BY <1>1, <2>1, UpdateType, KeyUpdateType
  <2>3. Bump(delivered, k) \in [Events -> Nat]
    BY <2>1, BumpType
  <2>. QED
    BY <1>17, <1>3, <2>2, <2>3 DEF NotifierReturns
<1>18. CASE NotifierFails(w)
  <2>1. k \in Events
    BY <1>18, <1>2, <1>3 DEF NotifierFails
  <2>2. NotifierFailed(s, t) \in WorkerState
    BY <1>1, UpdateType
  <2>3. DeadLettered(NotifierFailed(s, t), k) \in WorkerState
    BY <2>1, <2>2, KeyUpdateType
  <2>4. Requeued(DeadLettered(NotifierFailed(s, t), k), k) \in WorkerState
    BY <2>1, <2>3, KeyUpdateType
  <2>5. attempt[w] + 1 \in Nat
    OBVIOUS
  <2>6. Bump(delivered, k) \in [Events -> Nat] /\ Bump(late[w], k) \in [Events -> Nat]
    BY <2>1, BumpType
  <2>7. attempt' \in [Workers -> Nat]
    BY <1>18, <2>5 DEF NotifierFails, AttemptFailed
  <2>8. mem' \in [Workers -> WorkerState] /\ disk' \in WorkerState
    <3>1. disk' = disk
      BY <1>18 DEF NotifierFails, AttemptFailed
    <3>2. \/ mem' = [mem EXCEPT ![w] = NotifierFailed(s, t)]
          \/ mem' = [mem EXCEPT ![w] = Requeued(DeadLettered(NotifierFailed(s, t), k), k)]
      BY <1>18 DEF NotifierFails, AttemptFailed
    <3>. QED
      BY <1>1, <2>2, <2>4, <3>1, <3>2
  <2>9. pc' \in [Workers -> Locked \union Locking \union {"idle", "gap", "reacquire", "reraise"}] /\ BatchInv'
    BY <1>18, <1>3 DEF NotifierFails, AttemptFailed
  <2>10. delivered' \in [Events -> Nat] /\ late' \in [Workers -> [Events -> Nat]]
    BY <1>18, <2>6 DEF NotifierFails
  <2>. QED
    BY <1>18, <2>7, <2>8, <2>9, <2>10 DEF NotifierFails
<1>19. CASE NotifierTimesOut(w)
  <2>1. k \in Events
    BY <1>19, <1>2, <1>3 DEF NotifierTimesOut
  <2>2. NotifierFailed(s, t) \in WorkerState
    BY <1>1, UpdateType
  <2>3. DeadLettered(NotifierFailed(s, t), k) \in WorkerState
    BY <2>1, <2>2, KeyUpdateType
  <2>4. Requeued(DeadLettered(NotifierFailed(s, t), k), k) \in WorkerState
    BY <2>1, <2>3, KeyUpdateType
  <2>5. attempt[w] + 1 \in Nat
    OBVIOUS
  <2>6. Bump(delivered, k) \in [Events -> Nat] /\ Bump(late[w], k) \in [Events -> Nat]
    BY <2>1, BumpType
  <2>7. attempt' \in [Workers -> Nat]
    BY <1>19, <2>5 DEF NotifierTimesOut, AttemptFailed
  <2>8. mem' \in [Workers -> WorkerState] /\ disk' \in WorkerState
    <3>1. disk' = disk
      BY <1>19 DEF NotifierTimesOut, AttemptFailed
    <3>2. \/ mem' = [mem EXCEPT ![w] = NotifierFailed(s, t)]
          \/ mem' = [mem EXCEPT ![w] = Requeued(DeadLettered(NotifierFailed(s, t), k), k)]
      BY <1>19 DEF NotifierTimesOut, AttemptFailed
    <3>. QED
      BY <1>1, <2>2, <2>4, <3>1, <3>2
  <2>9. pc' \in [Workers -> Locked \union Locking \union {"idle", "gap", "reacquire", "reraise"}] /\ BatchInv'
    BY <1>19, <1>3 DEF NotifierTimesOut, AttemptFailed
  <2>10. delivered' \in [Events -> Nat] /\ late' \in [Workers -> [Events -> Nat]]
    BY <1>19, <2>6 DEF NotifierTimesOut
  <2>. QED
    BY <1>19, <2>7, <2>8, <2>9, <2>10 DEF NotifierTimesOut
<1>20. CASE SaveEvent(w)
  BY <1>20, <1>1, <1>2, <1>3 DEF SaveEvent
<1>21. CASE FinishCycle(w)
  BY <1>21, <1>1, <1>2, <1>3 DEF FinishCycle
<1>. QED
  BY <1>4, <1>5, <1>6, <1>7, <1>8, <1>9, <1>10, <1>11, <1>12,
     <1>13, <1>14, <1>15, <1>16, <1>17, <1>18, <1>19, <1>20, <1>21
  DEF Cycle

LEMMA EnvironmentType ==
  ASSUME TypeInv,
         \/ \E w \in Workers : Interrupt(w) \/ Kill(w)
         \/ \E w \in Workers, k \in Events : LateReturn(w, k)
         \/ Tick
         \/ UNCHANGED vars
  PROVE  TypeInv'
<1>. USE DEF GoTo, Unlock, shared, process, env, history, Locked, InCycle,
            TypeInv, TypeOK, BatchInv, Handling
<1>1. <<>> \in Seq(Item) /\ [k \in Events |-> 0] \in [Events -> Nat]
  OBVIOUS
<1>2. ASSUME NEW w \in Workers, pc[w] = "calling"
      PROVE  /\ Bump(delivered, Current(w)) \in [Events -> Nat]
             /\ Bump(late[w], Current(w)) \in [Events -> Nat]
  <2>1. Current(w) \in Events
    BY <1>2, CurrentType
  <2>. QED
    BY <2>1, BumpType
<1>3. ASSUME NEW w \in Workers, Interrupt(w) PROVE TypeInv'
  <2>1. interrupts + 1 \in Nat
    OBVIOUS
  <2>2. late' \in [Workers -> [Events -> Nat]]
    BY <1>2, <1>3 DEF Interrupt
  <2>. QED
    BY <1>1, <1>3, <2>1, <2>2, NewStateType DEF Interrupt
<1>4. ASSUME NEW w \in Workers, Kill(w) PROVE TypeInv'
  <2>1. kills + 1 \in Nat
    OBVIOUS
  <2>2. delivered' \in [Events -> Nat]
    BY <1>2, <1>4 DEF Kill
  <2>. QED
    BY <1>1, <1>4, <2>1, <2>2, NewStateType DEF Kill
<1>5. ASSUME NEW w \in Workers, NEW k \in Events, LateReturn(w, k) PROVE TypeInv'
  <2>1. late[w] \in [Events -> Nat] /\ late[w][k] > 0
    BY <1>5 DEF LateReturn
  <2>2. Drop(late[w], k) \in [Events -> Nat]
    BY <2>1, DropType
  <2>3. Bump(delivered, k) \in [Events -> Nat]
    BY BumpType
  <2>4. late' \in [Workers -> [Events -> Nat]]
    BY <1>5, <2>2 DEF LateReturn
  <2>. QED
    BY <1>5, <2>3, <2>4 DEF LateReturn
<1>6. CASE Tick
  BY <1>6 DEF Tick
<1>7. CASE UNCHANGED vars
  BY <1>7 DEF vars
<1>. QED
  BY <1>3, <1>4, <1>5, <1>6, <1>7

LEMMA TypeStep == TypeInv /\ [Next]_vars => TypeInv'
BY LoopType, CycleType, EnvironmentType DEF Next, Quiet

\* The state file, every process's copy of it and the histories keep their
\* types, and a process that handles an event has one in hand.
THEOREM TypeCorrect == Spec => []TypeInv
BY TypeInit, TypeStep, PTL DEF Spec

\* Type correctness on its own: what the runs check.
THEOREM TypeOKCorrect == Spec => []TypeOK
<1>1. TypeInv => TypeOK
  BY DEF TypeInv
<1>. QED
  BY <1>1, TypeCorrect, PTL

(***************************************************************************)
(* Mutual exclusion                                                        *)
(***************************************************************************)
\* A process holds the lock exactly at the places where its code has a
\* with-block open; there, and while it is taking the lock, the file exists,
\* and only one process is at such a place.  A killed process leaves the file
\* behind with nobody there, as does one that cannot write its pid.
LockInv ==
  /\ \A w \in Workers : held[w] <=> pc[w] \in Locked
  /\ \A w \in Workers : pc[w] \in Locked \union Locking => lockFile
  /\ \A v, w \in Workers : {pc[v], pc[w]} \subseteq Locked \union Locking => v = w

LEMMA LockInit == Init => LockInv
BY DEF Init, LockInv, Locked, Locking, InCycle

LEMMA LockLoop ==
  ASSUME NEW w \in Workers, TypeInv, LockInv, Start(w) \/ Loop(w)
  PROVE  LockInv'
<1>. USE DEF GoTo, Create, Unlock, Locked, Locking, InCycle, shared, TypeInv, TypeOK, LockInv
<1>1. CASE RunOnce(w)
  BY <1>1 DEF RunOnce
<1>2. CASE RunForever(w)
  BY <1>2 DEF RunForever
<1>3. CASE LoopRelease(w)
  BY <1>3 DEF LoopRelease
<1>4. CASE LoopRunOnce(w)
  BY <1>4 DEF LoopRunOnce
<1>5. CASE LoopBlocked(w)
  BY <1>5 DEF LoopBlocked
<1>6. CASE Reacquire(w)
  BY <1>6 DEF Reacquire
<1>7. CASE ReacquireFails(w)
  BY <1>7 DEF ReacquireFails
<1>8. CASE LoopStop(w)
  BY <1>8 DEF LoopStop
<1>9. CASE Release(w)
  BY <1>9 DEF Release
<1>10. CASE TakeLock(w)
  BY <1>10 DEF TakeLock, After, Locking
<1>. QED
  BY <1>1, <1>2, <1>3, <1>4, <1>5, <1>6, <1>7, <1>8, <1>9, <1>10 DEF Start, Loop

\* A cycle step stays where the lock is held, up to and including "release".
LEMMA LockCycle ==
  ASSUME NEW w \in Workers, TypeInv, LockInv, Cycle(w)
  PROVE  LockInv' /\ pc'[w] \in Locked
<1>1. pc[w] \in Locked /\ lockFile' = lockFile /\ held' = held
  BY DEF Cycle, Locked, InCycle, shared, LoadAndRecover, Heartbeat, SourceCircuitOpen, SourceFails, SourceReturns, SkipEvent, AcceptEvent, PredictionFails, PredictionRejected, PredictionIssued, NotificationBypassed, NotificationCircuitOpen, CallNotifier, NotifierReturns, NotifierFails, NotifierTimesOut, SaveEvent, FinishCycle
<1>2. PICK to \in Locked : pc' = [pc EXCEPT ![w] = to]
  <2>. USE DEF GoTo, Locked, InCycle
  <2>1. CASE LoadAndRecover(w)
    BY <2>1 DEF LoadAndRecover
  <2>2. CASE Heartbeat(w)
    BY <2>2 DEF Heartbeat
  <2>3. CASE SourceCircuitOpen(w)
    BY <2>3 DEF SourceCircuitOpen
  <2>4. CASE SourceFails(w)
    BY <2>4 DEF SourceFails
  <2>5. CASE SourceReturns(w)
    BY <2>5 DEF SourceReturns
  <2>6. CASE SkipEvent(w)
    BY <2>6 DEF SkipEvent, TypeInv, TypeOK
  <2>7. CASE AcceptEvent(w)
    BY <2>7 DEF AcceptEvent
  <2>8. CASE PredictionFails(w)
    BY <2>8 DEF PredictionFails
  <2>9. CASE PredictionRejected(w)
    BY <2>9 DEF PredictionRejected
  <2>10. CASE PredictionIssued(w)
    BY <2>10 DEF PredictionIssued
  <2>11. CASE NotificationBypassed(w)
    BY <2>11 DEF NotificationBypassed
  <2>12. CASE NotificationCircuitOpen(w)
    BY <2>12 DEF NotificationCircuitOpen
  <2>13. CASE CallNotifier(w)
    BY <2>13 DEF CallNotifier
  <2>14. CASE NotifierReturns(w)
    BY <2>14 DEF NotifierReturns
  <2>15. CASE NotifierFails(w)
    BY <2>15 DEF NotifierFails, AttemptFailed
  <2>16. CASE NotifierTimesOut(w)
    BY <2>16 DEF NotifierTimesOut, AttemptFailed
  <2>17. CASE SaveEvent(w)
    BY <2>17 DEF SaveEvent
  <2>18. CASE FinishCycle(w)
    BY <2>18 DEF FinishCycle
  <2>. QED
    BY <2>1, <2>2, <2>3, <2>4, <2>5, <2>6, <2>7, <2>8, <2>9,
       <2>10, <2>11, <2>12, <2>13, <2>14, <2>15, <2>16, <2>17, <2>18
    DEF Cycle
<1>. QED
  BY <1>1, <1>2 DEF LockInv, TypeInv, TypeOK

LEMMA LockStep == TypeInv /\ LockInv /\ [Next]_vars => LockInv'
<1>. SUFFICES ASSUME TypeInv, LockInv, [Next]_vars PROVE LockInv'
  OBVIOUS
<1>. USE DEF GoTo, Unlock, Locked, Locking, Guarded, InCycle, shared, process, TypeInv, TypeOK, LockInv
<1>1. ASSUME NEW w \in Workers, Interrupt(w) PROVE LockInv'
  BY <1>1 DEF Interrupt
<1>2. ASSUME NEW w \in Workers, Kill(w) PROVE LockInv'
  BY <1>2 DEF Kill
<1>3. ASSUME NEW w \in Workers, NEW k \in Events, LateReturn(w, k) PROVE LockInv'
  BY <1>3 DEF LateReturn
<1>4. CASE Tick
  BY <1>4 DEF Tick
<1>5. CASE UNCHANGED vars
  BY <1>5 DEF vars
<1>. QED
  BY <1>1, <1>2, <1>3, <1>4, <1>5, LockLoop, LockCycle DEF Next, Quiet

LEMMA StrandedStep ==
  ASSUME TypeInv, LockInv, [Next]_vars, ~Stranded, Stranded'
  PROVE  \/ kills' > kills
         \/ interrupts' > interrupts /\ \E w \in Workers : pc[w] \in Locking
<1>. USE DEF GoTo, Locked, Locking, InCycle, TypeInv, TypeOK, LockInv, Stranded
<1>1. ASSUME NEW w \in Workers, Start(w) \/ Loop(w) PROVE FALSE
  <2>1. CASE RunOnce(w)
    BY <2>1 DEF RunOnce, Create
  <2>2. CASE RunForever(w)
    BY <2>2 DEF RunForever, Create
  <2>3. CASE TakeLock(w)
    BY <2>3 DEF TakeLock, After, shared
  <2>4. CASE LoopRelease(w)
    BY <2>4 DEF LoopRelease, Unlock
  <2>5. CASE LoopRunOnce(w)
    BY <2>5 DEF LoopRunOnce, Create
  <2>6. CASE LoopBlocked(w)
    BY <2>6 DEF LoopBlocked, shared
  <2>7. CASE Reacquire(w)
    BY <2>7 DEF Reacquire, Create
  <2>8. CASE ReacquireFails(w)
    BY <2>8 DEF ReacquireFails, shared
  <2>9. CASE LoopStop(w)
    BY <2>9 DEF LoopStop, SaveAs
  <2>10. CASE Release(w)
    BY <2>10 DEF Release, Unlock
  <2>. QED
    BY <1>1, <2>1, <2>2, <2>3, <2>4, <2>5, <2>6, <2>7, <2>8, <2>9, <2>10 DEF Start, Loop
<1>2. ASSUME NEW w \in Workers, Cycle(w) PROVE FALSE
  BY <1>2, LockCycle
<1>3. ASSUME NEW w \in Workers, Kill(w) PROVE kills' > kills
  BY <1>3 DEF Kill
<1>4. ASSUME NEW w \in Workers, Interrupt(w)
      PROVE  interrupts' > interrupts /\ pc[w] \in Locking
  <2>1. /\ lockFile' = (lockFile /\ ~held[w])
        /\ interrupts' = interrupts + 1
        /\ \A v \in Workers \ {w} : pc'[v] = pc[v]
    <3>1. Unlock(w) /\ interrupts' = interrupts + 1 /\ \E to : GoTo(w, to)
      BY <1>4 DEF Interrupt
    <3>2. lockFile' = (lockFile /\ ~held[w])
      BY <3>1 DEF Unlock
    <3>3. pc \in [Workers -> Locked \union Locking \union {"idle", "gap", "reacquire", "reraise"}]
      OBVIOUS
    <3>4. \A v \in Workers \ {w} : pc'[v] = pc[v]
      BY <3>1, <3>3
    <3>. QED
      BY <3>1, <3>2, <3>4
  <2>2. lockFile /\ ~held[w]
    BY <2>1
  <2>3. PICK v \in Workers : pc[v] \in Locked \union Locking
    BY <2>2
  <2>4. v = w
    BY <2>1, <2>3
  <2>5. pc[w] \in Locking
    BY <2>2, <2>3, <2>4
  <2>. QED
    BY <2>1, <2>5
<1>5. ASSUME NEW w \in Workers, NEW k \in Events, LateReturn(w, k) PROVE FALSE
  BY <1>5 DEF LateReturn, shared
<1>6. CASE Tick
  BY <1>6 DEF Tick, shared, process
<1>7. CASE UNCHANGED vars
  BY <1>7 DEF vars, shared, process
<1>. QED
  BY <1>1, <1>2, <1>3, <1>4, <1>5, <1>6, <1>7 DEF Next, Quiet

\* A lock file without a holder is the work of a killed process, or of one that
\* failed between creating the file and noting that it holds it.
THEOREM StrandedExplainedHolds == Spec => StrandedExplained
<1>1. TypeInv /\ LockInv /\ [Next]_vars =>
        [~Stranded /\ Stranded' =>
           \/ kills' > kills
           \/ interrupts' > interrupts /\ \E w \in Workers : pc[w] \in Locking]_vars
  BY StrandedStep
<1>. QED
  BY <1>1, LockInit, LockStep, TypeCorrect, PTL DEF Spec, StrandedExplained

\* At most one process is inside run_once, whatever run_forever, exceptions
\* and killed processes do with the lock file.
THEOREM MutualExclusionHolds == Spec => []MutualExclusion
<1>1. LockInv => MutualExclusion
  BY DEF LockInv, MutualExclusion, Locked
<1>. QED
  BY <1>1, LockInit, LockStep, TypeCorrect, PTL DEF Spec

(***************************************************************************)
(* No accepted event is lost                                               *)
(***************************************************************************)
Covers(A, s) ==
  \A k \in A : s.current = k \/ s.retry_queue[k] > 0 \/ k \in s.processed

\* pc values at which no event is marked, and at which the head of the batch is.
Unmarked == {"heartbeat", "source", "event", "save"}
Marking  == {"predict", "notify", "calling"}

\* The file, and the copy of the process in the cycle, account for every
\* accepted event.  A copy with a marker is never saved over: the next marker
\* is set only after the last one was resolved.
CoverInv ==
  /\ Covers(accepted, disk)
  /\ \A w \in Workers :
       /\ pc[w] \in Unmarked \union Marking => Covers(accepted, mem[w])
       /\ pc[w] \in Unmarked => mem[w].current = NoEvent
       /\ pc[w] \in Marking => mem[w].current = Current(w)

\* Updates that leave the marker alone keep the accepted events covered.
LEMMA CoverUpdate ==
  ASSUME NEW A \in SUBSET Events, NEW s \in WorkerState, NEW t \in Nat, Covers(A, s)
  PROVE  /\ Covers(A, Recovered(s)) /\ Recovered(s).current = NoEvent
         /\ Covers(A, Beaten(s)) /\ Beaten(s).current = s.current
         /\ Covers(A, SourceFailed(s, t)) /\ SourceFailed(s, t).current = s.current
         /\ Covers(A, SourceRecovered(s)) /\ SourceRecovered(s).current = s.current
         /\ Covers(A, NotifierFailed(s, t)) /\ NotifierFailed(s, t).current = s.current
         /\ Covers(A, NotifierRecovered(s)) /\ NotifierRecovered(s).current = s.current
<1>1. Covers(A, Recovered(s)) /\ Recovered(s).current = NoEvent
  BY DEF Covers, Recovered, WorkerState
<1>2. /\ Covers(A, Beaten(s)) /\ Beaten(s).current = s.current
      /\ Covers(A, SourceRecovered(s)) /\ SourceRecovered(s).current = s.current
      /\ Covers(A, NotifierRecovered(s)) /\ NotifierRecovered(s).current = s.current
  BY DEF Covers, Beaten, SourceRecovered, NotifierRecovered, WorkerState
<1>3. /\ Covers(A, SourceFailed(s, t)) /\ SourceFailed(s, t).current = s.current
      /\ Covers(A, NotifierFailed(s, t)) /\ NotifierFailed(s, t).current = s.current
  BY DEF Covers, SourceFailed, NotifierFailed, WorkerState
<1>. QED
  BY <1>1, <1>2, <1>3

\* The marker is set on an unmarked state, and given up only for a place in
\* the retry queue or among the processed events.
LEMMA CoverKeyUpdate ==
  ASSUME NEW A \in SUBSET Events, NEW s \in WorkerState, NEW k \in Events, Covers(A, s)
  PROVE  /\ s.current = NoEvent =>
              Covers(A \union {k}, Marked(s, k)) /\ Marked(s, k).current = k
         /\ s.current = k =>
              /\ Covers(A, Issued(s, k)) /\ Issued(s, k).current = k
              /\ Covers(A, DeadLettered(s, k)) /\ DeadLettered(s, k).current = k
              /\ Covers(A, Requeued(s, k)) /\ Requeued(s, k).current = NoEvent
              /\ Covers(A, Refused(s, k)) /\ Refused(s, k).current = NoEvent
              /\ Covers(A, Settled(s, k)) /\ Settled(s, k).current = NoEvent
<1>1. s.current = NoEvent =>
        Covers(A \union {k}, Marked(s, k)) /\ Marked(s, k).current = k
  BY ConfigAssumption DEF Covers, Marked, WorkerState
<1>2. \A x \in Events : /\ s.retry_queue[x] \in Nat
                        /\ Bump(s.retry_queue, k)[x] \in Nat
                        /\ s.retry_queue[x] > 0 => Bump(s.retry_queue, k)[x] > 0
                        /\ Bump(s.retry_queue, k)[k] > 0
  BY DEF WorkerState, Bump
<1>3. s.current = k => Covers(A, Requeued(s, k)) /\ Requeued(s, k).current = NoEvent
  <2>1. Requeued(s, k).retry_queue = Bump(s.retry_queue, k)
    BY DEF Requeued, WorkerState
  <2>2. Requeued(s, k).processed = s.processed /\ Requeued(s, k).current = NoEvent
    BY DEF Requeued, WorkerState
  <2>. QED
    BY <1>2, <2>1, <2>2 DEF Covers
<1>4. s.current = k => /\ Covers(A, Issued(s, k)) /\ Issued(s, k).current = k
                       /\ Covers(A, DeadLettered(s, k)) /\ DeadLettered(s, k).current = k
  BY DEF Covers, Issued, DeadLettered, WorkerState
<1>5. s.current = k => Covers(A, Refused(s, k)) /\ Refused(s, k).current = NoEvent
  BY DEF Covers, Refused, WorkerState
<1>6. s.current = k => Covers(A, Settled(s, k)) /\ Settled(s, k).current = NoEvent
  BY DEF Covers, Settled, WorkerState
<1>. QED
  BY <1>1, <1>3, <1>4, <1>5, <1>6

LEMMA CoverInit == Init => CoverInv
BY DEF Init, CoverInv, Covers, Unmarked, Marking

LEMMA CoverLoop ==
  ASSUME NEW w \in Workers, TypeInv, CoverInv, Start(w) \/ Loop(w)
  PROVE  CoverInv'
<1>. USE DEF GoTo, Create, Unlock, shared, env, history, Current,
            TypeInv, TypeOK, CoverInv, Covers, Unmarked, Marking
<1>1. CASE RunOnce(w)
  BY <1>1 DEF RunOnce
<1>2. CASE RunForever(w)
  BY <1>2 DEF RunForever
<1>3. CASE LoopRelease(w)
  BY <1>3 DEF LoopRelease
<1>4. CASE LoopRunOnce(w)
  BY <1>4 DEF LoopRunOnce
<1>5. CASE LoopBlocked(w)
  BY <1>5 DEF LoopBlocked
<1>6. CASE Reacquire(w)
  BY <1>6 DEF Reacquire
<1>7. CASE ReacquireFails(w)
  BY <1>7 DEF ReacquireFails
<1>8. CASE LoopStop(w)
  BY <1>8 DEF LoopStop, SaveAs
<1>9. CASE Release(w)
  BY <1>9 DEF Release
<1>10. CASE TakeLock(w)
  BY <1>10 DEF TakeLock, After, Locking
<1>. QED
  BY <1>1, <1>2, <1>3, <1>4, <1>5, <1>6, <1>7, <1>8, <1>9, <1>10 DEF Start, Loop

LEMMA CoverCycle ==
  ASSUME NEW w \in Workers, TypeInv, LockInv, CoverInv, Cycle(w)
  PROVE  CoverInv'
<1>. DEFINE s == mem[w]
           k == Current(w)
           t == now[w]
<1>1. s \in WorkerState /\ t \in Nat /\ disk \in WorkerState /\ accepted \in SUBSET Events
  BY DEF TypeInv, TypeOK
<1>2. batch[w] # <<>> => k \in Events
  BY CurrentType DEF TypeInv
<1>3. pc[w] \in Handling => batch[w] # <<>>
  BY DEF TypeInv, BatchInv
<1>4. /\ Covers(accepted, disk)
      /\ pc[w] \in Unmarked \union Marking => Covers(accepted, s)
      /\ pc[w] \in Unmarked => s.current = NoEvent
      /\ pc[w] \in Marking => s.current = k
  BY DEF CoverInv
\* No other process is in its cycle.
<1>5. ASSUME NEW v \in Workers, v # w, pc[w] \in InCycle
      PROVE  pc[v] \notin Unmarked \union Marking
  BY <1>5 DEF LockInv, Locked, InCycle, Unmarked, Marking
\* It is enough to look at this process: the others are outside the cycle.
<1>6. ASSUME pc[w] \in InCycle,
             \A v \in Workers \ {w} : pc'[v] = pc[v],
             Covers(accepted', disk'),
             pc'[w] \in Unmarked \union Marking => Covers(accepted', mem'[w]),
             pc'[w] \in Unmarked => mem'[w].current = NoEvent,
             pc'[w] \in Marking => mem'[w].current = Head(batch'[w]).key
      PROVE  CoverInv'
  <2>. SUFFICES ASSUME NEW v \in Workers
                PROVE  /\ pc'[v] \in Unmarked \union Marking => Covers(accepted', mem'[v])
                       /\ pc'[v] \in Unmarked => mem'[v].current = NoEvent
                       /\ pc'[v] \in Marking => mem'[v].current = Head(batch'[v]).key
    BY <1>6 DEF CoverInv, Current
  <2>1. CASE v = w
    BY <1>6, <2>1
  <2>2. CASE v # w
    BY <1>5, <1>6, <2>2
  <2>. QED
    BY <2>1, <2>2
<1>. USE DEF GoTo, SaveAs, Remember, InCycle, Unmarked, Marking, Handling, history
<1>7. CASE LoadAndRecover(w)
  <2>1. pc[w] \in InCycle /\ accepted' = accepted
    BY <1>7 DEF LoadAndRecover
  <2>2. /\ pc'[w] = "heartbeat" /\ mem'[w] = Recovered(disk)
        /\ disk' = Recovered(disk)
        /\ \A v \in Workers \ {w} : pc'[v] = pc[v]
    BY <1>7 DEF LoadAndRecover, shared, TypeInv, TypeOK, Current
  <2>3. Recovered(disk) \in WorkerState
    BY <1>7, <1>1, UpdateType DEF LoadAndRecover
  <2>4. Covers(accepted, Recovered(disk)) /\ Recovered(disk).current = NoEvent
    BY <1>7, <1>1, <1>4, CoverUpdate DEF LoadAndRecover
  <2>. QED
    BY <1>4, <1>6, <2>1, <2>2, <2>4
<1>8. CASE Heartbeat(w)
  <2>1. pc[w] \in InCycle /\ accepted' = accepted
    BY <1>8 DEF Heartbeat
  <2>2. /\ pc'[w] = "source" /\ mem'[w] = Beaten(s)
        /\ disk' = Beaten(s)
        /\ \A v \in Workers \ {w} : pc'[v] = pc[v]
    BY <1>8 DEF Heartbeat, shared, TypeInv, TypeOK, Current
  <2>3. Beaten(s) \in WorkerState
    BY <1>8, <1>1, UpdateType DEF Heartbeat
  <2>4. Covers(accepted, Beaten(s)) /\ Beaten(s).current = NoEvent
    BY <1>8, <1>1, <1>4, CoverUpdate DEF Heartbeat
  <2>. QED
    BY <1>4, <1>6, <2>1, <2>2, <2>4
<1>9. CASE SourceCircuitOpen(w)
  <2>1. pc[w] \in InCycle /\ accepted' = accepted
    BY <1>9 DEF SourceCircuitOpen
  <2>2. /\ pc'[w] = "release" /\ mem'[w] = s
        /\ disk' = s
        /\ \A v \in Workers \ {w} : pc'[v] = pc[v]
    BY <1>9 DEF SourceCircuitOpen, shared, TypeInv, TypeOK, Current
  <2>. QED
    BY <1>9, <1>4, <1>6, <2>1, <2>2 DEF SourceCircuitOpen
<1>10. CASE SourceFails(w)
  <2>1. pc[w] \in InCycle /\ accepted' = accepted
    BY <1>10 DEF SourceFails
  <2>2. /\ pc'[w] = "release" /\ mem'[w] = SourceFailed(s, t)
        /\ disk' = SourceFailed(s, t)
        /\ \A v \in Workers \ {w} : pc'[v] = pc[v]
    BY <1>10 DEF SourceFails, shared, TypeInv, TypeOK, Current
  <2>3. SourceFailed(s, t) \in WorkerState
    BY <1>10, <1>1, UpdateType DEF SourceFails
  <2>4. Covers(accepted, SourceFailed(s, t))
    BY <1>10, <1>1, <1>4, CoverUpdate DEF SourceFails
  <2>. QED
    BY <1>4, <1>6, <2>1, <2>2, <2>4
<1>11. CASE SourceReturns(w)
  <2>. DEFINE r == SourceRecovered(s)
  <2>1. pc[w] \in InCycle /\ accepted' = accepted
    BY <1>11 DEF SourceReturns
  <2>2. PICK b \in Batches :
          /\ pc'[w] = IF b = <<>> THEN "release" ELSE "event"
          /\ mem'[w] = r
          /\ disk' \in {disk, r}
          /\ \A v \in Workers \ {w} : pc'[v] = pc[v]
    BY <1>11 DEF SourceReturns, TypeInv, TypeOK
  <2>3. r \in WorkerState
    BY <1>1, UpdateType
  <2>4. Covers(accepted, r) /\ r.current = NoEvent
    BY <1>11, <1>1, <1>4, CoverUpdate DEF SourceReturns
  <2>. HIDE DEF r
  <2>. QED
    BY <1>4, <1>6, <2>1, <2>2, <2>3, <2>4
<1>12. CASE SkipEvent(w)
  <2>1. pc[w] \in InCycle /\ accepted' = accepted
    BY <1>12 DEF SkipEvent
  <2>2. /\ pc'[w] = "event" /\ mem'[w] = s
        /\ disk' = disk
        /\ \A v \in Workers \ {w} : pc'[v] = pc[v]
    BY <1>12 DEF SkipEvent, shared, TypeInv, TypeOK, Current
  <2>. QED
    BY <1>12, <1>4, <1>6, <2>1, <2>2 DEF SkipEvent
<1>13. CASE AcceptEvent(w)
  <2>1. pc[w] \in InCycle /\ accepted' = accepted \union {k}
    BY <1>13 DEF AcceptEvent
  <2>2. /\ pc'[w] = "predict" /\ mem'[w] = Marked(s, k)
        /\ disk' = Marked(s, k) /\ Head(batch'[w]).key = k
        /\ \A v \in Workers \ {w} : pc'[v] = pc[v]
    BY <1>13 DEF AcceptEvent, shared, TypeInv, TypeOK, Current
  <2>3. Marked(s, k) \in WorkerState
    BY <1>13, <1>1, <1>2, <1>3, KeyUpdateType DEF AcceptEvent
  <2>4. Covers(accepted \union {k}, Marked(s, k)) /\ Marked(s, k).current = k
    BY <1>13, <1>1, <1>4, <1>2, <1>3, CoverKeyUpdate DEF AcceptEvent
  <2>. QED
    BY <1>6, <2>1, <2>2, <2>4
<1>14. CASE PredictionFails(w)
  <2>1. pc[w] \in InCycle /\ accepted' = accepted
    BY <1>14 DEF PredictionFails
  <2>2. /\ pc'[w] = "save" /\ mem'[w] = Requeued(s, k)
        /\ disk' = disk
        /\ \A v \in Workers \ {w} : pc'[v] = pc[v]
    BY <1>14 DEF PredictionFails, shared, TypeInv, TypeOK, Current
  <2>3. Requeued(s, k) \in WorkerState
    BY <1>14, <1>1, <1>2, <1>3, KeyUpdateType DEF PredictionFails
  <2>4. Covers(accepted, Requeued(s, k)) /\ Requeued(s, k).current = NoEvent
    BY <1>14, <1>1, <1>4, <1>2, <1>3, CoverKeyUpdate DEF PredictionFails
  <2>. QED
    BY <1>4, <1>6, <2>1, <2>2, <2>4
<1>15. CASE PredictionRejected(w)
  <2>1. pc[w] \in InCycle /\ accepted' = accepted
    BY <1>15 DEF PredictionRejected
  <2>2. /\ pc'[w] = "save" /\ mem'[w] = Refused(s, k)
        /\ disk' = disk
        /\ \A v \in Workers \ {w} : pc'[v] = pc[v]
    BY <1>15 DEF PredictionRejected, shared, TypeInv, TypeOK, Current
  <2>3. Refused(s, k) \in WorkerState
    BY <1>15, <1>1, <1>2, <1>3, KeyUpdateType DEF PredictionRejected
  <2>4. Covers(accepted, Refused(s, k)) /\ Refused(s, k).current = NoEvent
    BY <1>15, <1>1, <1>4, <1>2, <1>3, CoverKeyUpdate DEF PredictionRejected
  <2>. QED
    BY <1>4, <1>6, <2>1, <2>2, <2>4
<1>16. CASE PredictionIssued(w)
  <2>1. pc[w] \in InCycle /\ accepted' = accepted
    BY <1>16 DEF PredictionIssued
  <2>2. /\ pc'[w] = "notify" /\ mem'[w] = Issued(s, k)
        /\ disk' = disk /\ Head(batch'[w]).key = k
        /\ \A v \in Workers \ {w} : pc'[v] = pc[v]
    BY <1>16 DEF PredictionIssued, shared, TypeInv, TypeOK, Current
  <2>3. Issued(s, k) \in WorkerState
    BY <1>16, <1>1, <1>2, <1>3, KeyUpdateType DEF PredictionIssued
  <2>4. Covers(accepted, Issued(s, k)) /\ Issued(s, k).current = k
    BY <1>16, <1>1, <1>4, <1>2, <1>3, CoverKeyUpdate DEF PredictionIssued
  <2>. QED
    BY <1>4, <1>6, <2>1, <2>2, <2>4
<1>17. CASE NotificationBypassed(w)
  <2>1. pc[w] \in InCycle /\ accepted' = accepted
    BY <1>17 DEF NotificationBypassed
  <2>2. /\ pc'[w] = "save" /\ mem'[w] = Settled(s, k)
        /\ disk' = disk
        /\ \A v \in Workers \ {w} : pc'[v] = pc[v]
    BY <1>17 DEF NotificationBypassed, shared, TypeInv, TypeOK, Current
  <2>3. Settled(s, k) \in WorkerState
    BY <1>17, <1>1, <1>2, <1>3, KeyUpdateType DEF NotificationBypassed
  <2>4. Covers(accepted, Settled(s, k)) /\ Settled(s, k).current = NoEvent
    BY <1>17, <1>1, <1>4, <1>2, <1>3, CoverKeyUpdate DEF NotificationBypassed
  <2>. QED
    BY <1>4, <1>6, <2>1, <2>2, <2>4
<1>18. CASE NotificationCircuitOpen(w)
  <2>1. pc[w] \in InCycle /\ accepted' = accepted
    BY <1>18 DEF NotificationCircuitOpen
  <2>2. /\ pc'[w] = "save" /\ mem'[w] = Requeued(s, k)
        /\ disk' = disk
        /\ \A v \in Workers \ {w} : pc'[v] = pc[v]
    BY <1>18 DEF NotificationCircuitOpen, shared, TypeInv, TypeOK, Current
  <2>3. Requeued(s, k) \in WorkerState
    BY <1>18, <1>1, <1>2, <1>3, KeyUpdateType DEF NotificationCircuitOpen
  <2>4. Covers(accepted, Requeued(s, k)) /\ Requeued(s, k).current = NoEvent
    BY <1>18, <1>1, <1>4, <1>2, <1>3, CoverKeyUpdate DEF NotificationCircuitOpen
  <2>. QED
    BY <1>4, <1>6, <2>1, <2>2, <2>4
<1>19. CASE CallNotifier(w)
  <2>1. pc[w] \in InCycle /\ accepted' = accepted
    BY <1>19 DEF CallNotifier
  <2>2. /\ pc'[w] = "calling" /\ mem'[w] = s
        /\ disk' = disk /\ Head(batch'[w]).key = k
        /\ \A v \in Workers \ {w} : pc'[v] = pc[v]
    BY <1>19 DEF CallNotifier, shared, TypeInv, TypeOK, Current
  <2>. QED
    BY <1>19, <1>4, <1>6, <2>1, <2>2 DEF CallNotifier
<1>20. CASE NotifierReturns(w)
  <2>. DEFINE r == NotifierRecovered(s)
  <2>1. pc[w] \in InCycle /\ accepted' = accepted /\ k \in Events
    BY <1>20, <1>2, <1>3 DEF NotifierReturns
  <2>2. /\ pc'[w] = "save" /\ mem'[w] = Settled(r, k)
        /\ disk' = disk
        /\ \A v \in Workers \ {w} : pc'[v] = pc[v]
    BY <1>20 DEF NotifierReturns, TypeInv, TypeOK
  <2>3. r \in WorkerState /\ Covers(accepted, r) /\ r.current = k
    BY <1>20, <1>1, <1>4, UpdateType, CoverUpdate DEF NotifierReturns
  <2>. HIDE DEF r
  <2>4. /\ Settled(r, k) \in WorkerState
        /\ Covers(accepted, Settled(r, k)) /\ Settled(r, k).current = NoEvent
    BY <1>1, <2>1, <2>3, KeyUpdateType, CoverKeyUpdate
  <2>. QED
    BY <1>4, <1>6, <2>1, <2>2, <2>4
<1>21. CASE NotifierFails(w)
  <2>. DEFINE r == NotifierFailed(s, t)
             d == DeadLettered(r, k)
  <2>1. pc[w] = "calling" /\ accepted' = accepted /\ k \in Events
    BY <1>21, <1>2, <1>3 DEF NotifierFails
  <2>2. /\ disk' = disk /\ Head(batch'[w]).key = k
        /\ \A v \in Workers \ {w} : pc'[v] = pc[v]
    BY <1>21 DEF NotifierFails, AttemptFailed, TypeInv, TypeOK, Current
  <2>3. \/ pc'[w] = "calling" /\ mem'[w] = r
        \/ pc'[w] = "save" /\ mem'[w] = Requeued(d, k)
    BY <1>21 DEF NotifierFails, AttemptFailed, TypeInv, TypeOK
  <2>4. r \in WorkerState /\ Covers(accepted, r) /\ r.current = k
    BY <1>1, <1>4, <2>1, UpdateType, CoverUpdate
  <2>. HIDE DEF r
  <2>5. d \in WorkerState /\ Covers(accepted, d) /\ d.current = k
    BY <1>1, <2>1, <2>4, KeyUpdateType, CoverKeyUpdate
  <2>. HIDE DEF d
  <2>6. /\ Requeued(d, k) \in WorkerState
        /\ Covers(accepted, Requeued(d, k)) /\ Requeued(d, k).current = NoEvent
    BY <1>1, <2>1, <2>5, KeyUpdateType, CoverKeyUpdate
  <2>7. CASE pc'[w] = "calling" /\ mem'[w] = r
    BY <1>4, <1>6, <2>1, <2>2, <2>4, <2>7
  <2>8. CASE pc'[w] = "save" /\ mem'[w] = Requeued(d, k)
    BY <1>4, <1>6, <2>1, <2>2, <2>6, <2>8
  <2>. QED
    BY <2>3, <2>7, <2>8
<1>22. CASE NotifierTimesOut(w)
  <2>. DEFINE r == NotifierFailed(s, t)
             d == DeadLettered(r, k)
  <2>1. pc[w] = "calling" /\ accepted' = accepted /\ k \in Events
    BY <1>22, <1>2, <1>3 DEF NotifierTimesOut
  <2>2. /\ disk' = disk /\ Head(batch'[w]).key = k
        /\ \A v \in Workers \ {w} : pc'[v] = pc[v]
    BY <1>22 DEF NotifierTimesOut, AttemptFailed, TypeInv, TypeOK, Current
  <2>3. \/ pc'[w] = "calling" /\ mem'[w] = r
        \/ pc'[w] = "save" /\ mem'[w] = Requeued(d, k)
    BY <1>22 DEF NotifierTimesOut, AttemptFailed, TypeInv, TypeOK
  <2>4. r \in WorkerState /\ Covers(accepted, r) /\ r.current = k
    BY <1>1, <1>4, <2>1, UpdateType, CoverUpdate
  <2>. HIDE DEF r
  <2>5. d \in WorkerState /\ Covers(accepted, d) /\ d.current = k
    BY <1>1, <2>1, <2>4, KeyUpdateType, CoverKeyUpdate
  <2>. HIDE DEF d
  <2>6. /\ Requeued(d, k) \in WorkerState
        /\ Covers(accepted, Requeued(d, k)) /\ Requeued(d, k).current = NoEvent
    BY <1>1, <2>1, <2>5, KeyUpdateType, CoverKeyUpdate
  <2>7. CASE pc'[w] = "calling" /\ mem'[w] = r
    BY <1>4, <1>6, <2>1, <2>2, <2>4, <2>7
  <2>8. CASE pc'[w] = "save" /\ mem'[w] = Requeued(d, k)
    BY <1>4, <1>6, <2>1, <2>2, <2>6, <2>8
  <2>. QED
    BY <2>3, <2>7, <2>8
<1>23. CASE SaveEvent(w)
  <2>1. pc[w] \in InCycle /\ accepted' = accepted
    BY <1>23 DEF SaveEvent
  <2>2. /\ pc'[w] = "event" /\ mem'[w] = s
        /\ disk' = s
        /\ \A v \in Workers \ {w} : pc'[v] = pc[v]
    BY <1>23 DEF SaveEvent, shared, TypeInv, TypeOK, Current
  <2>. QED
    BY <1>23, <1>4, <1>6, <2>1, <2>2 DEF SaveEvent
<1>24. CASE FinishCycle(w)
  <2>1. pc[w] \in InCycle /\ accepted' = accepted
    BY <1>24 DEF FinishCycle
  <2>2. /\ pc'[w] = "release" /\ mem'[w] = s
        /\ disk' = s
        /\ \A v \in Workers \ {w} : pc'[v] = pc[v]
    BY <1>24 DEF FinishCycle, shared, TypeInv, TypeOK, Current
  <2>. QED
    BY <1>24, <1>4, <1>6, <2>1, <2>2 DEF FinishCycle
<1>. QED
  BY <1>7, <1>8, <1>9, <1>10, <1>11, <1>12, <1>13, <1>14, <1>15,
     <1>16, <1>17, <1>18, <1>19, <1>20, <1>21, <1>22, <1>23, <1>24
  DEF Cycle

LEMMA CoverStep == TypeInv /\ LockInv /\ CoverInv /\ [Next]_vars => CoverInv'
<1>. SUFFICES ASSUME TypeInv, LockInv, CoverInv, [Next]_vars PROVE CoverInv'
  OBVIOUS
<1>. USE DEF GoTo, Unlock, shared, process, env, history, Current,
            TypeInv, TypeOK, CoverInv, Covers, Unmarked, Marking
<1>1. ASSUME NEW w \in Workers, Interrupt(w) PROVE CoverInv'
  BY <1>1 DEF Interrupt
<1>2. ASSUME NEW w \in Workers, Kill(w) PROVE CoverInv'
  BY <1>2 DEF Kill
<1>3. ASSUME NEW w \in Workers, NEW k \in Events, LateReturn(w, k) PROVE CoverInv'
  BY <1>3 DEF LateReturn
<1>4. CASE Tick
  BY <1>4 DEF Tick
<1>5. CASE UNCHANGED vars
  BY <1>5 DEF vars
<1>. QED
  BY <1>1, <1>2, <1>3, <1>4, <1>5, CoverLoop, CoverCycle DEF Next, Quiet

\* An event whose marker was saved is current, queued or processed in the
\* state file ever after, across crashes, failures and other processes.
THEOREM AcceptedNeverLostHolds == Spec => []AcceptedNeverLost
<1>1. CoverInv => AcceptedNeverLost
  BY DEF CoverInv, Covers, AcceptedNeverLost
<1>2. Init => TypeInv /\ LockInv /\ CoverInv
  BY TypeInit, LockInit, CoverInit
<1>3. TypeInv /\ LockInv /\ CoverInv /\ [Next]_vars => (TypeInv /\ LockInv /\ CoverInv)'
  BY TypeStep, LockStep, CoverStep
<1>. QED
  BY <1>1, <1>2, <1>3, PTL DEF Spec

(***************************************************************************)
(* The parts of the state file agree                                       *)
(***************************************************************************)
\* What KeyListsAgree says of the file, of any state, and R rejected events; a
\* marked event is not processed.
KeysSound(s, R) ==
  /\ s.notification_keys \subseteq s.prediction_keys \intersect s.processed
  /\ s.processed \ R \subseteq s.notification_keys
  /\ \A k \in s.notification_keys : s.retry_queue[k] = 0
  /\ s.current # NoEvent => s.current \notin s.processed

\* What BreakersAgree says, of any state.
BreakersSound(s) ==
  /\ s.source_until # 0 <=> s.source_failures >= CircuitFailureThreshold
  /\ s.notification_until # 0 <=> s.notification_failures >= CircuitFailureThreshold

\* Processed in shadow mode only after a delivery or a rejection.
OutcomeKnown(s, D, R) == \A k \in s.processed : D[k] > 0 \/ k \in R

StateSound(s, D, R) ==
  /\ KeysSound(s, R)
  /\ BreakersSound(s)
  /\ mode = "shadow" => OutcomeKnown(s, D, R)

\* While a process works on an event, the event is not processed, and predicted
\* before it is notified.
SoundInv ==
  /\ StateSound(disk, delivered, rejected)
  /\ clock > 0
  /\ \A w \in Workers :
       /\ StateSound(mem[w], delivered, rejected)
       /\ now[w] > 0
       /\ pc[w] \in Marking => Current(w) \notin mem[w].processed
       /\ pc[w] \in {"notify", "calling"} => Current(w) \in mem[w].prediction_keys

\* A breaker opens with the failure that reaches the threshold.
LEMMA DeadlineSound ==
  ASSUME NEW n \in Nat, NEW u \in Nat, NEW t \in Nat \ {0},
         u # 0 <=> n >= CircuitFailureThreshold
  PROVE  Deadline(n, u, t) # 0 <=> n + 1 >= CircuitFailureThreshold
BY ConfigAssumption DEF Deadline

\* The updates that are not about the event in hand.
LEMMA SoundUpdate ==
  ASSUME NEW s \in WorkerState, NEW t \in Nat \ {0}, NEW D, NEW R, StateSound(s, D, R)
  PROVE  /\ StateSound(Recovered(s), D, R)
         /\ StateSound(Beaten(s), D, R)
         /\ StateSound(SourceFailed(s, t), D, R)
         /\ StateSound(SourceRecovered(s), D, R)
         /\ StateSound(NotifierFailed(s, t), D, R)
         /\ StateSound(NotifierRecovered(s), D, R)
<1>. USE DEF StateSound, KeysSound, OutcomeKnown
<1>1. StateSound(Beaten(s), D, R)
  BY DEF Beaten, BreakersSound, WorkerState
<1>2. StateSound(SourceRecovered(s), D, R) /\ StateSound(NotifierRecovered(s), D, R)
  <2>1. BreakersSound(SourceRecovered(s)) /\ BreakersSound(NotifierRecovered(s))
    BY ConfigAssumption DEF SourceRecovered, NotifierRecovered, BreakersSound, WorkerState
  <2>. QED
    BY <2>1 DEF SourceRecovered, NotifierRecovered, WorkerState
<1>3. /\ Deadline(s.source_failures, s.source_until, t) # 0
           <=> s.source_failures + 1 >= CircuitFailureThreshold
      /\ Deadline(s.notification_failures, s.notification_until, t) # 0
           <=> s.notification_failures + 1 >= CircuitFailureThreshold
  BY DeadlineSound DEF BreakersSound, WorkerState
<1>4. BreakersSound(SourceFailed(s, t)) /\ BreakersSound(NotifierFailed(s, t))
  BY <1>3 DEF SourceFailed, NotifierFailed, BreakersSound, WorkerState
<1>5. StateSound(SourceFailed(s, t), D, R) /\ StateSound(NotifierFailed(s, t), D, R)
  BY <1>4 DEF SourceFailed, NotifierFailed, WorkerState
<1>6. StateSound(Recovered(s), D, R)
  <2>1. CASE s.current = NoEvent
    BY <2>1 DEF Recovered
  <2>2. CASE s.current # NoEvent
    <3>1. /\ Recovered(s).current = NoEvent
          /\ Recovered(s).processed = s.processed
          /\ Recovered(s).prediction_keys = s.prediction_keys
          /\ Recovered(s).notification_keys = s.notification_keys
          /\ BreakersSound(Recovered(s))
      BY <2>2 DEF Recovered, BreakersSound, WorkerState
    <3>2. ASSUME NEW k \in s.notification_keys PROVE Recovered(s).retry_queue[k] = 0
      <4>1. k \in Events /\ k # s.current /\ s.retry_queue[k] = 0
        BY <2>2 DEF WorkerState
      <4>. QED
        BY <2>2, <4>1 DEF Recovered, WorkerState
    <3>. QED
      BY <3>1, <3>2
  <2>. QED
    BY <2>1, <2>2
<1>. QED
  BY <1>1, <1>2, <1>5, <1>6

\* The updates about the event in hand, which is not processed before them.
LEMMA SoundKeyUpdate ==
  ASSUME NEW s \in WorkerState, NEW k \in Events, NEW D, NEW R,
         StateSound(s, D, R), k \notin s.processed
  PROVE  /\ StateSound(Marked(s, k), D, R)
         /\ StateSound(Requeued(s, k), D, R)
         /\ StateSound(Refused(s, k), D, R \union {k})
         /\ StateSound(Issued(s, k), D, R)
         /\ StateSound(DeadLettered(s, k), D, R)
         /\ k \in s.prediction_keys /\ (mode = "shadow" => D[k] > 0)
              => StateSound(Settled(s, k), D, R)
<1>1. /\ KeysSound(s, R) /\ BreakersSound(s) /\ k \notin s.notification_keys
      /\ mode = "shadow" => OutcomeKnown(s, D, R)
  BY DEF StateSound, KeysSound
<1>2. /\ BreakersSound(Marked(s, k)) /\ BreakersSound(Requeued(s, k))
      /\ BreakersSound(Refused(s, k)) /\ BreakersSound(Issued(s, k))
      /\ BreakersSound(DeadLettered(s, k)) /\ BreakersSound(Settled(s, k))
  BY <1>1 DEF BreakersSound, Marked, Requeued, Refused, Issued, DeadLettered, Settled, WorkerState
<1>. USE <1>1 DEF StateSound, KeysSound, OutcomeKnown
<1>3. StateSound(Marked(s, k), D, R)
  BY <1>2 DEF Marked, WorkerState
<1>4. StateSound(Issued(s, k), D, R) /\ StateSound(DeadLettered(s, k), D, R)
  BY <1>2 DEF Issued, DeadLettered, WorkerState
<1>5. StateSound(Refused(s, k), D, R \union {k})
  BY <1>2 DEF Refused, WorkerState
<1>6. StateSound(Requeued(s, k), D, R)
  <2>1. \A x \in s.notification_keys : Bump(s.retry_queue, k)[x] = 0
    BY DEF Bump, WorkerState
  <2>. QED
    BY <1>2, <2>1 DEF Requeued, WorkerState
<1>7. ASSUME k \in s.prediction_keys, mode = "shadow" => D[k] > 0
      PROVE  StateSound(Settled(s, k), D, R)
  BY <1>2, <1>7 DEF Settled, WorkerState
<1>. QED
  BY <1>3, <1>4, <1>5, <1>6, <1>7

\* Deliveries and rejections are never taken back.
LEMMA SoundLater ==
  ASSUME NEW s \in WorkerState, NEW D \in [Events -> Nat], NEW E \in [Events -> Nat],
         NEW R, NEW Q, R \subseteq Q, \A k \in Events : D[k] > 0 => E[k] > 0,
         StateSound(s, D, R)
  PROVE  StateSound(s, E, Q)
BY DEF StateSound, KeysSound, OutcomeKnown, WorkerState

LEMMA BumpGrows ==
  ASSUME NEW f \in [Events -> Nat], NEW k \in Events
  PROVE  /\ Bump(f, k)[k] > 0
         /\ \A x \in Events : f[x] > 0 => Bump(f, k)[x] > 0
BY DEF Bump

LEMMA NewStateSound == \A D, R : StateSound(NewState, D, R)
BY ConfigAssumption DEF StateSound, KeysSound, BreakersSound, OutcomeKnown, NewState

LEMMA SoundInit == Init => SoundInv
BY NewStateSound DEF Init, SoundInv, Marking

(***************************************************************************)
(* What the steps of a cycle do                                            *)
(***************************************************************************)
\* Where a step takes the process, its copy of the state, and the file.
Effect(w, to, m, d) == pc'[w] = to /\ mem'[w] = m /\ disk' = d

\* A cycle step leaves the other processes alone.
LEMMA CycleFrame ==
  ASSUME NEW w \in Workers, TypeInv, Cycle(w)
  PROVE  /\ now' = now /\ clock' = clock /\ mode' = mode /\ interrupts' = interrupts /\ kills' = kills
         /\ \A v \in Workers \ {w} : /\ pc'[v] = pc[v] /\ mem'[v] = mem[v]
                                    /\ batch'[v] = batch[v] /\ late'[v] = late[v]
<1>. USE DEF GoTo, SaveAs, Remember, shared, env, history, TypeInv, TypeOK
<1>1. CASE LoadAndRecover(w)
  BY <1>1 DEF LoadAndRecover
<1>2. CASE Heartbeat(w)
  BY <1>2 DEF Heartbeat
<1>3. CASE SourceCircuitOpen(w)
  BY <1>3 DEF SourceCircuitOpen
<1>4. CASE SourceFails(w)
  BY <1>4 DEF SourceFails
<1>5. CASE SourceReturns(w)
  BY <1>5 DEF SourceReturns
<1>6. CASE SkipEvent(w)
  BY <1>6 DEF SkipEvent
<1>7. CASE AcceptEvent(w)
  BY <1>7 DEF AcceptEvent
<1>8. CASE PredictionFails(w)
  BY <1>8 DEF PredictionFails
<1>9. CASE PredictionRejected(w)
  BY <1>9 DEF PredictionRejected
<1>10. CASE PredictionIssued(w)
  BY <1>10 DEF PredictionIssued
<1>11. CASE NotificationBypassed(w)
  BY <1>11 DEF NotificationBypassed
<1>12. CASE NotificationCircuitOpen(w)
  BY <1>12 DEF NotificationCircuitOpen
<1>13. CASE CallNotifier(w)
  BY <1>13 DEF CallNotifier
<1>14. CASE NotifierReturns(w)
  BY <1>14 DEF NotifierReturns
<1>15. CASE NotifierFails(w)
  BY <1>15 DEF NotifierFails, AttemptFailed
<1>16. CASE NotifierTimesOut(w)
  BY <1>16 DEF NotifierTimesOut, AttemptFailed
<1>17. CASE SaveEvent(w)
  BY <1>17 DEF SaveEvent
<1>18. CASE FinishCycle(w)
  BY <1>18 DEF FinishCycle
<1>. QED
  BY <1>1, <1>2, <1>3, <1>4, <1>5, <1>6, <1>7, <1>8, <1>9, <1>10, <1>11, <1>12, <1>13, <1>14, <1>15, <1>16, <1>17, <1>18
  DEF Cycle

LEMMA CycleEffect ==
  ASSUME NEW w \in Workers, TypeInv,
         NEW s, s = mem[w], NEW k, k = Current(w), NEW t, t = now[w]
  PROVE  /\ LoadAndRecover(w) => Effect(w, "heartbeat", Recovered(disk), Recovered(disk))
         /\ Heartbeat(w) => Effect(w, "source", Beaten(s), Beaten(s))
         /\ SourceCircuitOpen(w) => Effect(w, "release", s, s)
         /\ SourceFails(w) => Effect(w, "release", SourceFailed(s, t), SourceFailed(s, t))
         /\ SkipEvent(w) => Effect(w, "event", s, disk)
         /\ AcceptEvent(w) => Effect(w, "predict", Marked(s, k), Marked(s, k))
         /\ PredictionFails(w) => Effect(w, "save", Requeued(s, k), disk)
         /\ PredictionRejected(w) => Effect(w, "save", Refused(s, k), disk)
         /\ PredictionIssued(w) => Effect(w, "notify", Issued(s, k), disk)
         /\ NotificationBypassed(w) => Effect(w, "save", Settled(s, k), disk)
         /\ NotificationCircuitOpen(w) => Effect(w, "save", Requeued(s, k), disk)
         /\ CallNotifier(w) => Effect(w, "calling", s, disk)
         /\ NotifierReturns(w) => Effect(w, "save", Settled(NotifierRecovered(s), k), disk)
         /\ SaveEvent(w) => Effect(w, "event", s, s)
         /\ FinishCycle(w) => Effect(w, "release", s, s)
         /\ SourceReturns(w) =>
              \/ Effect(w, "release", SourceRecovered(s), SourceRecovered(s))
              \/ Effect(w, "event", SourceRecovered(s), disk)
         /\ NotifierFails(w) \/ NotifierTimesOut(w) =>
              \/ Effect(w, "calling", NotifierFailed(s, t), disk)
              \/ Effect(w, "save", Requeued(DeadLettered(NotifierFailed(s, t), k), k), disk)
<1>. USE DEF Effect, GoTo, SaveAs, Remember, shared, TypeInv, TypeOK
<1>1. LoadAndRecover(w) => Effect(w, "heartbeat", Recovered(disk), Recovered(disk))
  BY DEF LoadAndRecover
<1>2. Heartbeat(w) => Effect(w, "source", Beaten(s), Beaten(s))
  BY DEF Heartbeat
<1>3. SourceCircuitOpen(w) => Effect(w, "release", s, s)
  BY DEF SourceCircuitOpen
<1>4. SourceFails(w) => Effect(w, "release", SourceFailed(s, t), SourceFailed(s, t))
  BY DEF SourceFails
<1>5. SkipEvent(w) => Effect(w, "event", s, disk)
  BY DEF SkipEvent
<1>6. AcceptEvent(w) => Effect(w, "predict", Marked(s, k), Marked(s, k))
  BY DEF AcceptEvent
<1>7. PredictionFails(w) => Effect(w, "save", Requeued(s, k), disk)
  BY DEF PredictionFails
<1>8. PredictionRejected(w) => Effect(w, "save", Refused(s, k), disk)
  BY DEF PredictionRejected
<1>9. PredictionIssued(w) => Effect(w, "notify", Issued(s, k), disk)
  BY DEF PredictionIssued
<1>10. NotificationBypassed(w) => Effect(w, "save", Settled(s, k), disk)
  BY DEF NotificationBypassed
<1>11. NotificationCircuitOpen(w) => Effect(w, "save", Requeued(s, k), disk)
  BY DEF NotificationCircuitOpen
<1>12. CallNotifier(w) => Effect(w, "calling", s, disk)
  BY DEF CallNotifier
<1>13. NotifierReturns(w) => Effect(w, "save", Settled(NotifierRecovered(s), k), disk)
  BY DEF NotifierReturns
<1>14. SaveEvent(w) => Effect(w, "event", s, s)
  BY DEF SaveEvent
<1>15. FinishCycle(w) => Effect(w, "release", s, s)
  BY DEF FinishCycle
<1>16. SourceReturns(w) =>
        \/ Effect(w, "release", SourceRecovered(s), SourceRecovered(s))
        \/ Effect(w, "event", SourceRecovered(s), disk)
  BY DEF SourceReturns
<1>17. NotifierFails(w) \/ NotifierTimesOut(w) =>
        \/ Effect(w, "calling", NotifierFailed(s, t), disk)
        \/ Effect(w, "save", Requeued(DeadLettered(NotifierFailed(s, t), k), k), disk)
  BY DEF NotifierFails, NotifierTimesOut, AttemptFailed
<1>. QED
  BY <1>1, <1>2, <1>3, <1>4, <1>5, <1>6, <1>7, <1>8, <1>9, <1>10, <1>11, <1>12, <1>13, <1>14, <1>15, <1>16, <1>17

\* It is enough to look at the file and at the process that takes the step.
LEMMA SoundProcess ==
  ASSUME NEW w \in Workers, TypeInv, TypeInv', SoundInv, Cycle(w),
         rejected \subseteq rejected', \A k \in Events : delivered[k] > 0 => delivered'[k] > 0,
         StateSound(disk', delivered', rejected'),
         StateSound(mem'[w], delivered', rejected'),
         pc'[w] \in Marking => Head(batch'[w]).key \notin mem'[w].processed,
         pc'[w] \in {"notify", "calling"} => Head(batch'[w]).key \in mem'[w].prediction_keys
  PROVE  SoundInv'
<1>1. /\ now' = now /\ clock' = clock /\ mode' = mode
      /\ \A v \in Workers \ {w} : pc'[v] = pc[v] /\ mem'[v] = mem[v] /\ batch'[v] = batch[v]
  BY CycleFrame
<1>2. ASSUME NEW v \in Workers, v # w
      PROVE  /\ StateSound(mem'[v], delivered', rejected')
             /\ pc'[v] \in Marking => Head(batch'[v]).key \notin mem'[v].processed
             /\ pc'[v] \in {"notify", "calling"} => Head(batch'[v]).key \in mem'[v].prediction_keys
  <2>1. /\ mem[v] \in WorkerState /\ delivered \in [Events -> Nat] /\ delivered' \in [Events -> Nat]
        /\ StateSound(mem[v], delivered, rejected)
    BY DEF TypeInv, TypeOK, SoundInv
  <2>2. StateSound(mem[v], delivered', rejected')
    BY <2>1, SoundLater
  <2>. QED
    BY <1>1, <1>2, <2>2 DEF SoundInv, Current
<1>3. ASSUME NEW d, NEW D, NEW R, StateSound(d, D, R)
      PROVE  (mode' = "shadow" => OutcomeKnown(d, D, R)) /\ KeysSound(d, R) /\ BreakersSound(d)
  BY <1>1, <1>3 DEF StateSound
<1>. QED
  BY <1>1, <1>2, <1>3 DEF SoundInv, StateSound, Current

LEMMA SoundLoop ==
  ASSUME NEW w \in Workers, TypeInv, SoundInv, Start(w) \/ Loop(w)
  PROVE  SoundInv'
<1>. USE DEF TypeInv, TypeOK, SaveAs, GoTo, Create, After, Locking
<1>1. clock' = clock /\ mode' = mode /\ delivered' = delivered /\ rejected' = rejected /\ disk' = disk
  BY DEF Start, Loop, RunOnce, RunForever, TakeLock, LoopRelease, LoopRunOnce, LoopBlocked, Reacquire,
         ReacquireFails, LoopStop, Release, env, history, shared
<1>2. \A v \in Workers : mem'[v] \in {mem[v], disk, NewState}
  BY DEF Start, Loop, RunOnce, RunForever, TakeLock, LoopRelease, LoopRunOnce, LoopBlocked, Reacquire,
         ReacquireFails, LoopStop, Release
<1>3. \A v \in Workers : now'[v] > 0
  BY DEF Start, Loop, RunOnce, RunForever, TakeLock, LoopRelease, LoopRunOnce, LoopBlocked, Reacquire,
         ReacquireFails, LoopStop, Release, SoundInv
<1>4. \A v \in Workers : pc'[v] \in Marking => pc'[v] = pc[v] /\ batch'[v] = batch[v] /\ mem'[v] = mem[v]
  BY DEF Start, Loop, RunOnce, RunForever, TakeLock, LoopRelease, LoopRunOnce, LoopBlocked, Reacquire,
         ReacquireFails, LoopStop, Release, Marking, shared
<1>5. \A v \in Workers : StateSound(mem'[v], delivered, rejected)
  <2>. TAKE v \in Workers
  <2>1. /\ StateSound(mem[v], delivered, rejected)
        /\ StateSound(disk, delivered, rejected)
        /\ StateSound(NewState, delivered, rejected)
    BY NewStateSound DEF SoundInv
  <2>2. CASE mem'[v] = mem[v]
    BY <2>1, <2>2
  <2>3. CASE mem'[v] = disk
    BY <2>1, <2>3
  <2>4. CASE mem'[v] = NewState
    BY <2>1, <2>4
  <2>. QED
    BY <1>2, <2>2, <2>3, <2>4
<1>. QED
  BY <1>1, <1>3, <1>4, <1>5 DEF SoundInv, StateSound, Current, Marking

LEMMA SoundCycle ==
  ASSUME NEW w \in Workers, TypeInv, TypeInv', SoundInv, Cycle(w)
  PROVE  SoundInv'
<1>. DEFINE s == mem[w]
            k == Current(w)
            t == now[w]
            D == delivered
            R == rejected
            Ok(m) == StateSound(m, delivered', rejected')
<1>1. /\ s \in WorkerState /\ disk \in WorkerState /\ t \in Nat \ {0}
      /\ D \in [Events -> Nat] /\ D' \in [Events -> Nat]
      /\ StateSound(s, D, R) /\ StateSound(disk, D, R)
      /\ pc[w] \in Marking => k \notin s.processed
      /\ pc[w] \in {"notify", "calling"} => k \in s.prediction_keys
  BY DEF TypeInv, TypeOK, SoundInv
<1>2. batch[w] # <<>> => k \in Events
  BY CurrentType DEF TypeInv
<1>3. pc[w] \in Handling => batch[w] # <<>>
  BY DEF TypeInv, BatchInv
<1>. USE DEF Effect, Marking, Handling, history
<1>4. CASE LoadAndRecover(w)
  <2>1. R' = R /\ D' = D
    BY <1>4 DEF LoadAndRecover
  <2>2. Effect(w, "heartbeat", Recovered(disk), Recovered(disk))
    BY <1>4, CycleEffect
  <2>3. Ok(Recovered(disk))
    BY <1>1, <2>1, SoundUpdate
  <2>. QED
    BY <1>4, <1>1, <2>1, <2>2, <2>3, SoundProcess
<1>5. CASE Heartbeat(w)
  <2>1. R' = R /\ D' = D
    BY <1>5 DEF Heartbeat
  <2>2. Effect(w, "source", Beaten(s), Beaten(s))
    BY <1>5, CycleEffect
  <2>3. Ok(Beaten(s))
    BY <1>1, <2>1, SoundUpdate
  <2>. QED
    BY <1>5, <1>1, <2>1, <2>2, <2>3, SoundProcess
<1>6. CASE SourceCircuitOpen(w)
  <2>1. R' = R /\ D' = D
    BY <1>6 DEF SourceCircuitOpen
  <2>2. Effect(w, "release", s, s)
    BY <1>6, CycleEffect
  <2>3. Ok(s)
    BY <1>1, <2>1
  <2>. QED
    BY <1>6, <1>1, <2>1, <2>2, <2>3, SoundProcess
<1>7. CASE SourceFails(w)
  <2>1. R' = R /\ D' = D
    BY <1>7 DEF SourceFails
  <2>2. Effect(w, "release", SourceFailed(s, t), SourceFailed(s, t))
    BY <1>7, CycleEffect
  <2>3. Ok(SourceFailed(s, t))
    BY <1>1, <2>1, SoundUpdate
  <2>. QED
    BY <1>7, <1>1, <2>1, <2>2, <2>3, SoundProcess
<1>8. CASE SourceReturns(w)
  <2>1. R' = R /\ D' = D
    BY <1>8 DEF SourceReturns
  <2>2. \/ Effect(w, "release", SourceRecovered(s), SourceRecovered(s))
        \/ Effect(w, "event", SourceRecovered(s), disk)
    BY <1>8, CycleEffect
  <2>3. Ok(SourceRecovered(s))
    BY <1>1, <2>1, SoundUpdate
  <2>. QED
    BY <1>8, <1>1, <2>1, <2>2, <2>3, SoundProcess
<1>9. CASE SkipEvent(w)
  <2>1. R' = R /\ D' = D
    BY <1>9 DEF SkipEvent
  <2>2. Effect(w, "event", s, disk)
    BY <1>9, CycleEffect
  <2>3. Ok(s)
    BY <1>1, <2>1
  <2>. QED
    BY <1>9, <1>1, <2>1, <2>2, <2>3, SoundProcess
<1>10. CASE AcceptEvent(w)
  <2>1. R' = R /\ D' = D /\ k \in Events /\ k \notin s.processed /\ batch' = batch
    BY <1>10, <1>2 DEF AcceptEvent, Acceptable
  <2>2. Effect(w, "predict", Marked(s, k), Marked(s, k))
    BY <1>10, CycleEffect
  <2>3. Ok(Marked(s, k)) /\ k \notin Marked(s, k).processed
    BY <1>1, <2>1, SoundKeyUpdate DEF Marked, WorkerState
  <2>. QED
    BY <1>10, <1>1, <2>1, <2>2, <2>3, SoundProcess DEF Current
<1>11. CASE PredictionFails(w)
  <2>1. R' = R /\ D' = D /\ k \in Events /\ k \notin s.processed
    BY <1>11, <1>1, <1>2, <1>3 DEF PredictionFails
  <2>2. Effect(w, "save", Requeued(s, k), disk)
    BY <1>11, CycleEffect
  <2>3. Ok(Requeued(s, k))
    BY <1>1, <2>1, SoundKeyUpdate
  <2>. QED
    BY <1>11, <1>1, <2>1, <2>2, <2>3, SoundProcess
<1>12. CASE NotificationCircuitOpen(w)
  <2>1. R' = R /\ D' = D /\ k \in Events /\ k \notin s.processed
    BY <1>12, <1>1, <1>2, <1>3 DEF NotificationCircuitOpen
  <2>2. Effect(w, "save", Requeued(s, k), disk)
    BY <1>12, CycleEffect
  <2>3. Ok(Requeued(s, k))
    BY <1>1, <2>1, SoundKeyUpdate
  <2>. QED
    BY <1>12, <1>1, <2>1, <2>2, <2>3, SoundProcess
<1>13. CASE PredictionRejected(w)
  <2>1. R' = R \union {k} /\ D' = D /\ k \in Events /\ k \notin s.processed
    BY <1>13, <1>1, <1>2, <1>3 DEF PredictionRejected
  <2>2. Effect(w, "save", Refused(s, k), disk)
    BY <1>13, CycleEffect
  <2>3. Ok(Refused(s, k))
    BY <1>1, <2>1, SoundKeyUpdate
  <2>4. Ok(disk)
    BY <1>1, <2>1, SoundLater
  <2>. QED
    BY <1>13, <1>1, <2>1, <2>2, <2>3, <2>4, SoundProcess
<1>14. CASE PredictionIssued(w)
  <2>1. R' = R /\ D' = D /\ k \in Events /\ k \notin s.processed /\ batch' = batch
    BY <1>14, <1>1, <1>2, <1>3 DEF PredictionIssued
  <2>2. Effect(w, "notify", Issued(s, k), disk)
    BY <1>14, CycleEffect
  <2>3. Ok(Issued(s, k)) /\ k \notin Issued(s, k).processed /\ k \in Issued(s, k).prediction_keys
    BY <1>1, <2>1, SoundKeyUpdate DEF Issued, WorkerState
  <2>. QED
    BY <1>14, <1>1, <2>1, <2>2, <2>3, SoundProcess DEF Current
<1>15. CASE NotificationBypassed(w)
  <2>1. /\ R' = R /\ D' = D /\ k \in Events /\ k \notin s.processed
        /\ k \in s.prediction_keys /\ mode # "shadow"
    BY <1>15, <1>1, <1>2, <1>3 DEF NotificationBypassed
  <2>2. Effect(w, "save", Settled(s, k), disk)
    BY <1>15, CycleEffect
  <2>3. Ok(Settled(s, k))
    BY <1>1, <2>1, SoundKeyUpdate
  <2>. QED
    BY <1>15, <1>1, <2>1, <2>2, <2>3, SoundProcess
<1>16. CASE CallNotifier(w)
  <2>1. /\ R' = R /\ D' = D /\ k \notin s.processed
        /\ k \in s.prediction_keys /\ batch' = batch
    BY <1>16, <1>1 DEF CallNotifier
  <2>2. Effect(w, "calling", s, disk)
    BY <1>16, CycleEffect
  <2>3. Ok(s)
    BY <1>1, <2>1
  <2>. QED
    BY <1>16, <1>1, <2>1, <2>2, <2>3, SoundProcess DEF Current
<1>17. CASE NotifierReturns(w)
  <2>. DEFINE r == NotifierRecovered(s)
  <2>1. /\ R' = R /\ D' = Bump(D, k) /\ k \in Events /\ k \notin s.processed
        /\ k \in s.prediction_keys
    BY <1>17, <1>1, <1>2, <1>3 DEF NotifierReturns
  <2>2. Effect(w, "save", Settled(r, k), disk)
    BY <1>17, CycleEffect
  <2>3. D'[k] > 0 /\ \A x \in Events : D[x] > 0 => D'[x] > 0
    BY <1>1, <2>1, BumpGrows
  <2>4. Ok(s) /\ Ok(disk)
    BY <1>1, <2>1, <2>3, SoundLater
  <2>5. r \in WorkerState /\ Ok(r) /\ r.processed = s.processed /\ r.prediction_keys = s.prediction_keys
    BY <1>1, <2>4, UpdateType, SoundUpdate DEF NotifierRecovered, WorkerState
  <2>. HIDE DEF r
  <2>6. Ok(Settled(r, k))
    BY <2>1, <2>3, <2>5, SoundKeyUpdate
  <2>. QED
    BY <1>17, <1>1, <2>1, <2>2, <2>3, <2>4, <2>6, SoundProcess
<1>18. CASE NotifierFails(w)
  <2>. DEFINE r == NotifierFailed(s, t)
              d == DeadLettered(r, k)
  <2>1. /\ R' = R /\ D' \in {D, Bump(D, k)} /\ k \in Events /\ k \notin s.processed
        /\ k \in s.prediction_keys /\ batch' = batch
    BY <1>18, <1>1, <1>2, <1>3 DEF NotifierFails
  <2>2. Effect(w, "calling", r, disk) \/ Effect(w, "save", Requeued(d, k), disk)
    BY <1>18, CycleEffect
  <2>3. \A x \in Events : D[x] > 0 => D'[x] > 0
    BY <1>1, <2>1, BumpGrows
  <2>4. Ok(s) /\ Ok(disk)
    BY <1>1, <2>1, <2>3, SoundLater
  <2>5. r \in WorkerState /\ Ok(r) /\ r.processed = s.processed /\ r.prediction_keys = s.prediction_keys
    BY <1>1, <2>4, UpdateType, SoundUpdate DEF NotifierFailed, WorkerState
  <2>. HIDE DEF r
  <2>6. d \in WorkerState /\ Ok(d) /\ d.processed = r.processed
    BY <2>1, <2>5, KeyUpdateType, SoundKeyUpdate DEF DeadLettered, WorkerState
  <2>. HIDE DEF d
  <2>7. Ok(Requeued(d, k))
    BY <2>1, <2>5, <2>6, SoundKeyUpdate
  <2>8. CASE Effect(w, "calling", r, disk)
    BY <1>18, <1>1, <2>1, <2>3, <2>4, <2>5, <2>8, SoundProcess DEF Current
  <2>9. CASE Effect(w, "save", Requeued(d, k), disk)
    BY <1>18, <1>1, <2>1, <2>3, <2>4, <2>7, <2>9, SoundProcess
  <2>. QED
    BY <2>2, <2>8, <2>9
<1>19. CASE NotifierTimesOut(w)
  <2>. DEFINE r == NotifierFailed(s, t)
              d == DeadLettered(r, k)
  <2>1. /\ R' = R /\ D' \in {D, Bump(D, k)} /\ k \in Events /\ k \notin s.processed
        /\ k \in s.prediction_keys /\ batch' = batch
    BY <1>19, <1>1, <1>2, <1>3 DEF NotifierTimesOut
  <2>2. Effect(w, "calling", r, disk) \/ Effect(w, "save", Requeued(d, k), disk)
    BY <1>19, CycleEffect
  <2>3. \A x \in Events : D[x] > 0 => D'[x] > 0
    BY <1>1, <2>1, BumpGrows
  <2>4. Ok(s) /\ Ok(disk)
    BY <1>1, <2>1, <2>3, SoundLater
  <2>5. r \in WorkerState /\ Ok(r) /\ r.processed = s.processed /\ r.prediction_keys = s.prediction_keys
    BY <1>1, <2>4, UpdateType, SoundUpdate DEF NotifierFailed, WorkerState
  <2>. HIDE DEF r
  <2>6. d \in WorkerState /\ Ok(d) /\ d.processed = r.processed
    BY <2>1, <2>5, KeyUpdateType, SoundKeyUpdate DEF DeadLettered, WorkerState
  <2>. HIDE DEF d
  <2>7. Ok(Requeued(d, k))
    BY <2>1, <2>5, <2>6, SoundKeyUpdate
  <2>8. CASE Effect(w, "calling", r, disk)
    BY <1>19, <1>1, <2>1, <2>3, <2>4, <2>5, <2>8, SoundProcess DEF Current
  <2>9. CASE Effect(w, "save", Requeued(d, k), disk)
    BY <1>19, <1>1, <2>1, <2>3, <2>4, <2>7, <2>9, SoundProcess
  <2>. QED
    BY <2>2, <2>8, <2>9
<1>20. CASE SaveEvent(w)
  <2>1. R' = R /\ D' = D
    BY <1>20 DEF SaveEvent
  <2>2. Effect(w, "event", s, s)
    BY <1>20, CycleEffect
  <2>3. Ok(s)
    BY <1>1, <2>1
  <2>. QED
    BY <1>20, <1>1, <2>1, <2>2, <2>3, SoundProcess
<1>21. CASE FinishCycle(w)
  <2>1. R' = R /\ D' = D
    BY <1>21 DEF FinishCycle
  <2>2. Effect(w, "release", s, s)
    BY <1>21, CycleEffect
  <2>3. Ok(s)
    BY <1>1, <2>1
  <2>. QED
    BY <1>21, <1>1, <2>1, <2>2, <2>3, SoundProcess
<1>. QED
  BY <1>4, <1>5, <1>6, <1>7, <1>8, <1>9, <1>10, <1>11, <1>12, <1>13, <1>14, <1>15, <1>16, <1>17, <1>18, <1>19, <1>20, <1>21
  DEF Cycle

LEMMA SoundStep == TypeInv /\ TypeInv' /\ SoundInv /\ [Next]_vars => SoundInv'
<1>. SUFFICES ASSUME TypeInv, TypeInv', SoundInv, [Next]_vars PROVE SoundInv'
  OBVIOUS
<1>. DEFINE Grown == /\ rejected \subseteq rejected'
                    /\ \A k \in Events : delivered[k] > 0 => delivered'[k] > 0
\* Steps that leave the file alone, and drop the copy of a process or keep it.
<1>1. ASSUME Grown, disk' = disk, mode' = mode, clock' > 0, now' = now,
             \A v \in Workers :
               \/ mem'[v] = mem[v] /\ pc'[v] = pc[v] /\ batch'[v] = batch[v]
               \/ mem'[v] = NewState /\ pc'[v] \notin Marking
      PROVE  SoundInv'
  <2>1. /\ disk \in WorkerState /\ delivered \in [Events -> Nat] /\ delivered' \in [Events -> Nat]
        /\ \A v \in Workers : mem[v] \in WorkerState
    BY DEF TypeInv, TypeOK
  <2>2. StateSound(disk, delivered', rejected')
    BY <1>1, <2>1, SoundLater DEF SoundInv
  <2>3. \A v \in Workers : StateSound(mem'[v], delivered', rejected')
    BY <1>1, <2>1, SoundLater, NewStateSound DEF SoundInv
  <2>. QED
    BY <1>1, <2>2, <2>3 DEF SoundInv, StateSound, Current, Marking
<1>2. ASSUME NEW w \in Workers, pc[w] = "calling" PROVE Current(w) \in Events
  BY <1>2, CurrentType DEF TypeInv, BatchInv, Handling
<1>. USE DEF GoTo, shared, process, env, history, TypeInv, TypeOK, Marking
<1>3. ASSUME NEW w \in Workers, Interrupt(w) PROVE SoundInv'
  <2>1. Grown /\ disk' = disk /\ mode' = mode /\ clock' > 0 /\ now' = now
    BY <1>3 DEF Interrupt, Unlock, SoundInv
  <2>2. \A v \in Workers :
          \/ mem'[v] = mem[v] /\ pc'[v] = pc[v] /\ batch'[v] = batch[v]
          \/ mem'[v] = NewState /\ pc'[v] \notin Marking
    BY <1>3 DEF Interrupt
  <2>. QED
    BY <1>1, <2>1, <2>2
<1>4. ASSUME NEW w \in Workers, Kill(w) PROVE SoundInv'
  <2>1. disk' = disk /\ mode' = mode /\ clock' > 0 /\ now' = now
    BY <1>4 DEF Kill, SoundInv
  <2>2. Grown
    BY <1>2, <1>4, BumpGrows DEF Kill
  <2>3. \A v \in Workers :
          \/ mem'[v] = mem[v] /\ pc'[v] = pc[v] /\ batch'[v] = batch[v]
          \/ mem'[v] = NewState /\ pc'[v] \notin Marking
    BY <1>4 DEF Kill
  <2>. QED
    BY <1>1, <2>1, <2>2, <2>3
<1>5. ASSUME NEW w \in Workers, NEW k \in Events, LateReturn(w, k) PROVE SoundInv'
  <2>1. Grown
    BY <1>5, BumpGrows DEF LateReturn
  <2>. QED
    BY <1>1, <1>5, <2>1 DEF LateReturn, SoundInv
<1>6. CASE Tick
  BY <1>1, <1>6 DEF Tick, SoundInv
<1>7. CASE UNCHANGED vars
  BY <1>1, <1>7 DEF vars, SoundInv
<1>. QED
  BY <1>3, <1>4, <1>5, <1>6, <1>7, SoundLoop, SoundCycle DEF Next, Quiet

\* An event is processed only after its outcome: in shadow mode the file never has an
\* event processed that was neither delivered nor refused by the kickoff guard.
THEOREM ProcessedOnlyAfterOutcomeHolds == Spec => []ProcessedOnlyAfterOutcome
<1>1. SoundInv => ProcessedOnlyAfterOutcome
  BY DEF SoundInv, StateSound, OutcomeKnown, ProcessedOnlyAfterOutcome
<1>. QED
  BY <1>1, TypeCorrect, SoundInit, SoundStep, PTL DEF Spec

\* The key lists of the file agree with each other, and its breakers with their
\* failure counts, in any order of cycles, crashes and processes.
THEOREM StateFileAgreesHolds == Spec => []StateFileAgrees
<1>1. SoundInv => StateFileAgrees
  BY DEF SoundInv, StateSound, KeysSound, BreakersSound, StateFileAgrees, KeyListsAgree, BreakersAgree
<1>. QED
  BY <1>1, TypeCorrect, SoundInit, SoundStep, PTL DEF Spec

(***************************************************************************)
(* What is processed is final, and the worker is WorkItems                 *)
(***************************************************************************)
\* pc values at which the copy of a process and the file agree on what is processed.
Tracking == {"heartbeat", "source", "event"} \union Marking

\* Between load and release no other process writes the file, so the copy of the
\* process agrees with it, up to the event in hand once its outcome is known.
TrackInv ==
  \A w \in Workers :
    /\ pc[w] \in Tracking => mem[w].processed = disk.processed
    /\ pc[w] \in Marking \union {"save"} => Current(w) \in accepted \ disk.processed
    /\ pc[w] = "save" =>
         mem[w].processed \in {disk.processed, disk.processed \union {Current(w)}}

LEMMA ProcessedUpdate ==
  ASSUME NEW s \in WorkerState, NEW k \in Events
  PROVE  /\ Issued(s, k).processed = s.processed
         /\ Marked(s, k).processed = s.processed
         /\ Requeued(s, k).processed = s.processed
         /\ DeadLettered(s, k).processed = s.processed
         /\ Refused(s, k).processed = s.processed \union {k}
         /\ Settled(s, k).processed = s.processed \union {k}
BY DEF Marked, Requeued, Issued, DeadLettered, Refused, Settled, WorkerState

LEMMA ProcessedKept ==
  ASSUME NEW s \in WorkerState, NEW t \in Nat
  PROVE  /\ Recovered(s).processed = s.processed
         /\ Beaten(s).processed = s.processed
         /\ SourceFailed(s, t).processed = s.processed
         /\ SourceRecovered(s).processed = s.processed
         /\ NotifierFailed(s, t).processed = s.processed
         /\ NotifierRecovered(s).processed = s.processed
BY DEF Recovered, Beaten, SourceFailed, SourceRecovered, NotifierFailed, NotifierRecovered, WorkerState

LEMMA TrackInit == Init => TrackInv
BY DEF Init, TrackInv, Tracking, Marking

\* A cycle step accepts an event, saves an outcome, or leaves both what is accepted
\* and what the file has processed as they were.
LEMMA TrackCycle ==
  ASSUME NEW w \in Workers, TypeInv, LockInv, TrackInv, Cycle(w)
  PROVE  /\ TrackInv'
         /\ \/ accepted' = accepted /\ disk'.processed = disk.processed
            \/ AcceptEvent(w) /\ disk'.processed = disk.processed
            \/ SaveEvent(w) /\ disk'.processed = mem[w].processed
<1>. DEFINE s == mem[w]
            k == Current(w)
            t == now[w]
            P == disk.processed
<1>1. s \in WorkerState /\ disk \in WorkerState /\ t \in Nat
  BY DEF TypeInv, TypeOK
<1>2. batch[w] # <<>> => k \in Events
  BY CurrentType DEF TypeInv
<1>3. pc[w] \in Handling => batch[w] # <<>>
  BY DEF TypeInv, BatchInv
<1>4. /\ pc[w] \in Tracking => s.processed = P
      /\ pc[w] \in Marking \union {"save"} => k \in accepted /\ k \notin P
      /\ pc[w] = "save" => s.processed \in {P, P \union {k}}
  BY DEF TrackInv
\* No other process is in its cycle.
<1>5. ASSUME NEW v \in Workers, v # w, pc[w] \in InCycle
      PROVE  pc'[v] \notin Tracking \union Marking \union {"save"}
  <2>1. pc'[v] = pc[v]
    BY <1>5, CycleFrame
  <2>. QED
    BY <1>5, <2>1 DEF LockInv, Locked, InCycle, Tracking, Marking
<1>6. ASSUME pc[w] \in InCycle,
             pc'[w] \in Tracking => mem'[w].processed = disk'.processed,
             pc'[w] \in Marking \union {"save"} =>
               Head(batch'[w]).key \in accepted' \ disk'.processed,
             pc'[w] = "save" =>
               mem'[w].processed \in {disk'.processed, disk'.processed \union {Head(batch'[w]).key}}
      PROVE  TrackInv'
  BY <1>5, <1>6 DEF TrackInv, Current
<1>. USE DEF Effect, Tracking, Marking, Handling, InCycle, history
<1>7. CASE LoadAndRecover(w)
  <2>1. accepted' = accepted
    BY <1>7 DEF LoadAndRecover
  <2>2. Effect(w, "heartbeat", Recovered(disk), Recovered(disk))
    BY <1>7, CycleEffect
  <2>3. Recovered(disk).processed = P
    BY <1>7, <1>1, ProcessedKept DEF LoadAndRecover
  <2>. QED
    BY <1>7, <1>4, <1>6, <2>1, <2>2, <2>3 DEF LoadAndRecover
<1>8. CASE Heartbeat(w)
  <2>1. accepted' = accepted
    BY <1>8 DEF Heartbeat
  <2>2. Effect(w, "source", Beaten(s), Beaten(s))
    BY <1>8, CycleEffect
  <2>3. Beaten(s).processed = s.processed
    BY <1>8, <1>1, ProcessedKept DEF Heartbeat
  <2>. QED
    BY <1>8, <1>4, <1>6, <2>1, <2>2, <2>3 DEF Heartbeat
<1>9. CASE SourceCircuitOpen(w)
  <2>1. accepted' = accepted
    BY <1>9 DEF SourceCircuitOpen
  <2>2. Effect(w, "release", s, s)
    BY <1>9, CycleEffect
  <2>. QED
    BY <1>9, <1>4, <1>6, <2>1, <2>2 DEF SourceCircuitOpen
<1>10. CASE SourceFails(w)
  <2>1. accepted' = accepted
    BY <1>10 DEF SourceFails
  <2>2. Effect(w, "release", SourceFailed(s, t), SourceFailed(s, t))
    BY <1>10, CycleEffect
  <2>3. SourceFailed(s, t).processed = s.processed
    BY <1>10, <1>1, ProcessedKept DEF SourceFails
  <2>. QED
    BY <1>10, <1>4, <1>6, <2>1, <2>2, <2>3 DEF SourceFails
<1>11. CASE SourceReturns(w)
  <2>1. accepted' = accepted /\ pc[w] = "source"
    BY <1>11 DEF SourceReturns
  <2>2. \/ Effect(w, "release", SourceRecovered(s), SourceRecovered(s))
        \/ Effect(w, "event", SourceRecovered(s), disk)
    BY <1>11, CycleEffect
  <2>3. SourceRecovered(s).processed = s.processed
    BY <1>1, ProcessedKept
  <2>. QED
    BY <1>4, <1>6, <2>1, <2>2, <2>3
<1>12. CASE SkipEvent(w)
  <2>1. accepted' = accepted
    BY <1>12 DEF SkipEvent
  <2>2. Effect(w, "event", s, disk)
    BY <1>12, CycleEffect
  <2>. QED
    BY <1>12, <1>4, <1>6, <2>1, <2>2 DEF SkipEvent
<1>13. CASE AcceptEvent(w)
  <2>1. accepted' = accepted \union {k} /\ batch' = batch /\ k \in Events /\ k \notin s.processed
    BY <1>13, <1>2 DEF AcceptEvent, Acceptable
  <2>2. Effect(w, "predict", Marked(s, k), Marked(s, k))
    BY <1>13, CycleEffect
  <2>3. Marked(s, k).processed = s.processed
    BY <1>1, <2>1, ProcessedUpdate
  <2>. QED
    BY <1>13, <1>4, <1>6, <2>1, <2>2, <2>3 DEF AcceptEvent, Current
<1>14. CASE PredictionFails(w)
  <2>1. accepted' = accepted /\ batch' = batch
    BY <1>14 DEF PredictionFails
  <2>2. Effect(w, "save", Requeued(s, k), disk)
    BY <1>14, CycleEffect
  <2>3. Requeued(s, k).processed = s.processed
    BY <1>14, <1>1, <1>2, <1>3, ProcessedUpdate DEF PredictionFails
  <2>. QED
    BY <1>14, <1>4, <1>6, <2>1, <2>2, <2>3 DEF PredictionFails, Current
<1>15. CASE PredictionRejected(w)
  <2>1. accepted' = accepted /\ batch' = batch
    BY <1>15 DEF PredictionRejected
  <2>2. Effect(w, "save", Refused(s, k), disk)
    BY <1>15, CycleEffect
  <2>3. Refused(s, k).processed = s.processed \union {k}
    BY <1>15, <1>1, <1>2, <1>3, ProcessedUpdate DEF PredictionRejected
  <2>. QED
    BY <1>15, <1>4, <1>6, <2>1, <2>2, <2>3 DEF PredictionRejected, Current
<1>16. CASE PredictionIssued(w)
  <2>1. accepted' = accepted /\ batch' = batch
    BY <1>16 DEF PredictionIssued
  <2>2. Effect(w, "notify", Issued(s, k), disk)
    BY <1>16, CycleEffect
  <2>3. Issued(s, k).processed = s.processed
    BY <1>16, <1>1, <1>2, <1>3, ProcessedUpdate DEF PredictionIssued
  <2>. QED
    BY <1>16, <1>4, <1>6, <2>1, <2>2, <2>3 DEF PredictionIssued, Current
<1>17. CASE NotificationBypassed(w)
  <2>1. accepted' = accepted /\ batch' = batch
    BY <1>17 DEF NotificationBypassed
  <2>2. Effect(w, "save", Settled(s, k), disk)
    BY <1>17, CycleEffect
  <2>3. Settled(s, k).processed = s.processed \union {k}
    BY <1>17, <1>1, <1>2, <1>3, ProcessedUpdate DEF NotificationBypassed
  <2>. QED
    BY <1>17, <1>4, <1>6, <2>1, <2>2, <2>3 DEF NotificationBypassed, Current
<1>18. CASE NotificationCircuitOpen(w)
  <2>1. accepted' = accepted /\ batch' = batch
    BY <1>18 DEF NotificationCircuitOpen
  <2>2. Effect(w, "save", Requeued(s, k), disk)
    BY <1>18, CycleEffect
  <2>3. Requeued(s, k).processed = s.processed
    BY <1>18, <1>1, <1>2, <1>3, ProcessedUpdate DEF NotificationCircuitOpen
  <2>. QED
    BY <1>18, <1>4, <1>6, <2>1, <2>2, <2>3 DEF NotificationCircuitOpen, Current
<1>19. CASE CallNotifier(w)
  <2>1. accepted' = accepted /\ batch' = batch
    BY <1>19 DEF CallNotifier
  <2>2. Effect(w, "calling", s, disk)
    BY <1>19, CycleEffect
  <2>. QED
    BY <1>19, <1>4, <1>6, <2>1, <2>2 DEF CallNotifier, Current
<1>20. CASE NotifierReturns(w)
  <2>. DEFINE r == NotifierRecovered(s)
  <2>1. accepted' = accepted /\ batch' = batch /\ k \in Events /\ pc[w] = "calling"
    BY <1>20, <1>2, <1>3 DEF NotifierReturns
  <2>2. Effect(w, "save", Settled(r, k), disk)
    BY <1>20, CycleEffect
  <2>3. r \in WorkerState /\ r.processed = s.processed
    BY <1>1, UpdateType, ProcessedKept
  <2>. HIDE DEF r
  <2>4. Settled(r, k).processed = s.processed \union {k}
    BY <2>1, <2>3, ProcessedUpdate
  <2>. QED
    BY <1>4, <1>6, <2>1, <2>2, <2>4 DEF Current
<1>21. CASE NotifierFails(w)
  <2>. DEFINE r == NotifierFailed(s, t)
              d == DeadLettered(r, k)
  <2>1. accepted' = accepted /\ batch' = batch /\ k \in Events /\ pc[w] = "calling"
    BY <1>21, <1>2, <1>3 DEF NotifierFails
  <2>2. Effect(w, "calling", r, disk) \/ Effect(w, "save", Requeued(d, k), disk)
    BY <1>21, CycleEffect
  <2>3. r \in WorkerState /\ r.processed = s.processed
    BY <1>1, UpdateType, ProcessedKept
  <2>. HIDE DEF r
  <2>4. d \in WorkerState /\ d.processed = s.processed
    BY <2>1, <2>3, KeyUpdateType, ProcessedUpdate
  <2>. HIDE DEF d
  <2>5. Requeued(d, k).processed = s.processed
    BY <2>1, <2>4, ProcessedUpdate
  <2>. QED
    BY <1>4, <1>6, <2>1, <2>2, <2>3, <2>5 DEF Current
<1>22. CASE NotifierTimesOut(w)
  <2>. DEFINE r == NotifierFailed(s, t)
              d == DeadLettered(r, k)
  <2>1. accepted' = accepted /\ batch' = batch /\ k \in Events /\ pc[w] = "calling"
    BY <1>22, <1>2, <1>3 DEF NotifierTimesOut
  <2>2. Effect(w, "calling", r, disk) \/ Effect(w, "save", Requeued(d, k), disk)
    BY <1>22, CycleEffect
  <2>3. r \in WorkerState /\ r.processed = s.processed
    BY <1>1, UpdateType, ProcessedKept
  <2>. HIDE DEF r
  <2>4. d \in WorkerState /\ d.processed = s.processed
    BY <2>1, <2>3, KeyUpdateType, ProcessedUpdate
  <2>. HIDE DEF d
  <2>5. Requeued(d, k).processed = s.processed
    BY <2>1, <2>4, ProcessedUpdate
  <2>. QED
    BY <1>4, <1>6, <2>1, <2>2, <2>3, <2>5 DEF Current
<1>23. CASE SaveEvent(w)
  <2>1. accepted' = accepted
    BY <1>23 DEF SaveEvent
  <2>2. Effect(w, "event", s, s)
    BY <1>23, CycleEffect
  <2>. QED
    BY <1>23, <1>4, <1>6, <2>1, <2>2 DEF SaveEvent
<1>24. CASE FinishCycle(w)
  <2>1. accepted' = accepted
    BY <1>24 DEF FinishCycle
  <2>2. Effect(w, "release", s, s)
    BY <1>24, CycleEffect
  <2>. QED
    BY <1>24, <1>4, <1>6, <2>1, <2>2 DEF FinishCycle
<1>. QED
  BY <1>7, <1>8, <1>9, <1>10, <1>11, <1>12, <1>13, <1>14, <1>15, <1>16, <1>17, <1>18, <1>19, <1>20, <1>21, <1>22, <1>23, <1>24
  DEF Cycle

LEMMA TrackStep == TypeInv /\ LockInv /\ TrackInv /\ [Next]_vars => TrackInv'
<1>. SUFFICES ASSUME TypeInv, LockInv, TrackInv, [Next]_vars PROVE TrackInv'
  OBVIOUS
<1>. USE DEF GoTo, Create, Unlock, shared, process, env, history, Current,
            TypeInv, TypeOK, TrackInv, Tracking, Marking
<1>1. ASSUME NEW w \in Workers, Start(w) \/ Loop(w) PROVE TrackInv'
  <2>1. disk' = disk /\ accepted' = accepted
    BY <1>1 DEF Start, Loop, RunOnce, RunForever, TakeLock, LoopRelease, LoopRunOnce, LoopBlocked,
              Reacquire, ReacquireFails, LoopStop, Release, SaveAs
  <2>2. \A v \in Workers :
          \/ pc'[v] = pc[v] /\ mem'[v] = mem[v] /\ batch'[v] = batch[v]
          \/ pc'[v] \notin Tracking \union {"save"}
    BY <1>1 DEF Start, Loop, RunOnce, RunForever, TakeLock, LoopRelease, LoopRunOnce, LoopBlocked,
              Reacquire, ReacquireFails, LoopStop, Release, SaveAs, After, Locking
  <2>. QED
    BY <2>1, <2>2
<1>2. ASSUME NEW w \in Workers, Interrupt(w) PROVE TrackInv'
  BY <1>2 DEF Interrupt
<1>3. ASSUME NEW w \in Workers, Kill(w) PROVE TrackInv'
  BY <1>3 DEF Kill
<1>4. ASSUME NEW w \in Workers, NEW k \in Events, LateReturn(w, k) PROVE TrackInv'
  BY <1>4 DEF LateReturn
<1>5. CASE Tick
  BY <1>5 DEF Tick
<1>6. CASE UNCHANGED vars
  BY <1>6 DEF vars
<1>. QED
  BY <1>1, <1>2, <1>3, <1>4, <1>5, <1>6, TrackCycle DEF Next, Quiet

\* The invariant of the worker: typing, the lock, and what the file and its copies say.
WorkerInv == TypeInv /\ LockInv /\ SoundInv /\ TrackInv

LEMMA WorkerInvCorrect == Spec => []WorkerInv
<1>1. Init => WorkerInv
  BY TypeInit, LockInit, SoundInit, TrackInit DEF WorkerInv
<1>2. WorkerInv /\ [Next]_vars => WorkerInv'
  BY TypeStep, LockStep, SoundStep, TrackStep DEF WorkerInv
<1>. QED
  BY <1>1, <1>2, PTL DEF Spec

\* Only a call in progress delivers, and the thread of one that timed out.
LEMMA DeliveryStep ==
  ASSUME TypeInv, [Next]_vars
  PROVE  \/ delivered' = delivered
         \/ \E k \in Events : /\ delivered' = Bump(delivered, k)
                             /\ accepted' = accepted /\ rejected' = rejected
                             /\ disk' = disk
                             /\ \E w \in Workers : \/ pc[w] = "calling" /\ k = Current(w)
                                                  \/ late[w][k] > 0
<1>. USE DEF history, env, shared, process
<1>1. ASSUME NEW w \in Workers, pc[w] = "calling" PROVE Current(w) \in Events
  BY <1>1, CurrentType DEF TypeInv, BatchInv, Handling
<1>2. ASSUME NEW w \in Workers, Start(w) \/ Loop(w) PROVE delivered' = delivered
  BY <1>2 DEF Start, Loop, RunOnce, RunForever, TakeLock, LoopRelease, LoopRunOnce, LoopBlocked,
            Reacquire, ReacquireFails, LoopStop, Release
<1>3. ASSUME NEW w \in Workers, Cycle(w)
      PROVE  \/ delivered' = delivered
             \/ /\ pc[w] = "calling" /\ delivered' = Bump(delivered, Current(w))
                /\ accepted' = accepted /\ rejected' = rejected /\ disk' = disk
  <2>1. CASE NotifierReturns(w)
    BY <2>1 DEF NotifierReturns, Remember
  <2>2. CASE NotifierFails(w)
    BY <2>2 DEF NotifierFails, AttemptFailed, Remember
  <2>3. CASE ~NotifierReturns(w) /\ ~NotifierFails(w)
    BY <1>3, <2>3 DEF Cycle, LoadAndRecover, Heartbeat, SourceCircuitOpen, SourceFails,
      SourceReturns, SkipEvent, AcceptEvent, PredictionFails, PredictionRejected,
      PredictionIssued, NotificationBypassed, NotificationCircuitOpen, CallNotifier,
      NotifierTimesOut, SaveEvent, FinishCycle
  <2>. QED
    BY <2>1, <2>2, <2>3
<1>4. ASSUME NEW w \in Workers, Kill(w)
      PROVE  \/ delivered' = delivered
             \/ /\ pc[w] = "calling" /\ delivered' = Bump(delivered, Current(w))
                /\ accepted' = accepted /\ rejected' = rejected /\ disk' = disk
  BY <1>4 DEF Kill
<1>5. ASSUME NEW w \in Workers, NEW k \in Events, LateReturn(w, k)
      PROVE  \/ delivered' = delivered
             \/ /\ late[w][k] > 0 /\ delivered' = Bump(delivered, k)
                /\ accepted' = accepted /\ rejected' = rejected /\ disk' = disk
  BY <1>5 DEF LateReturn
<1>6. ASSUME NEW w \in Workers, Interrupt(w) PROVE delivered' = delivered
  BY <1>6 DEF Interrupt
<1>7. Tick \/ UNCHANGED vars => delivered' = delivered
  BY DEF Tick, vars
<1>. QED
  BY <1>1, <1>2, <1>3, <1>4, <1>5, <1>6, <1>7 DEF Next, Quiet

\* Once the file has an event processed and no left-over thread runs for it, no step
\* of any process delivers it again.
THEOREM SettledNeverRedeliveredHolds == Spec => SettledNeverRedelivered
<1>1. ASSUME WorkerInv, [Next]_vars,
             NEW k \in disk.processed, \A w \in Workers : late[w][k] = 0
      PROVE  delivered'[k] = delivered[k]
  <2>1. ASSUME NEW x \in Events, NEW w \in Workers, delivered' = Bump(delivered, x),
               (pc[w] = "calling" /\ x = Current(w)) \/ late[w][x] > 0
        PROVE  x # k
    BY <1>1, <2>1 DEF WorkerInv, TrackInv, Marking
  <2>2. delivered \in [Events -> Nat] /\ k \in Events
    BY <1>1 DEF WorkerInv, TypeInv, TypeOK, WorkerState
  <2>3. ASSUME NEW x \in Events, delivered' = Bump(delivered, x), x # k
        PROVE  delivered'[k] = delivered[k]
    BY <2>2, <2>3 DEF Bump
  <2>. QED
    BY <1>1, <2>1, <2>3, DeliveryStep DEF WorkerInv
<1>2. WorkerInv /\ [Next]_vars =>
        [\A k \in disk.processed : (\A w \in Workers : late[w][k] = 0) => delivered'[k] = delivered[k]]_vars
  BY <1>1
<1>. QED
  BY <1>2, WorkerInvCorrect, PTL DEF Spec, SettledNeverRedelivered

\* A step in shadow mode is a step of WorkItems, or changes nothing it sees.
LEMMA ItemsStep ==
  ASSUME WorkerInv, [Next]_vars, mode = "shadow"
  PROVE  [Items!Next]_(Items!vars)
<1>. DEFINE Out == rejected \union {k \in Events : delivered[k] > 0}
<1>. USE DEF Items!vars
<1>1. accepted \in SUBSET Events /\ delivered \in [Events -> Nat] /\ disk.processed \subseteq Events
  BY DEF WorkerInv, TypeInv, TypeOK, WorkerState
\* A delivery shows an outcome.
<1>2. ASSUME NEW k \in Events, delivered' = Bump(delivered, k),
             accepted' = accepted, rejected' = rejected, disk' = disk
      PROVE  Items!Next
  <2>1. {x \in Events : delivered'[x] > 0} = {x \in Events : delivered[x] > 0} \union {k}
    BY <1>1, <1>2 DEF Bump
  <2>. QED
    BY <1>2, <2>1 DEF Items!Next, Items!Observe
<1>3. ASSUME delivered' = delivered, rejected' = rejected, accepted' = accepted,
             disk'.processed = disk.processed
      PROVE  UNCHANGED Items!vars
  BY <1>3
<1>4. ASSUME NEW w \in Workers, Cycle(w), delivered' = delivered PROVE [Items!Next]_(Items!vars)
  <2>1. CASE AcceptEvent(w)
    <3>1. /\ pc[w] = "event" /\ Current(w) \in Events /\ Current(w) \notin mem[w].processed
          /\ accepted' = accepted \union {Current(w)} /\ rejected' = rejected
      BY <2>1, CurrentType DEF AcceptEvent, Acceptable, WorkerInv, TypeInv
    <3>2. Current(w) \notin disk.processed /\ disk'.processed = disk.processed
      <4>1. disk'.processed = disk.processed
        BY <1>4, <2>1, TrackCycle DEF WorkerInv, AcceptEvent, SaveEvent
      <4>. QED
        BY <3>1, <4>1 DEF WorkerInv, TrackInv, Tracking
    <3>. QED
      BY <1>4, <3>1, <3>2 DEF Items!Next, Items!Take
  <2>2. CASE SaveEvent(w)
    <3>1. /\ pc[w] = "save" /\ accepted' = accepted /\ rejected' = rejected
          /\ disk'.processed = mem[w].processed
      BY <2>2 DEF SaveEvent, SaveAs, history
    <3>2. /\ Current(w) \in accepted \ disk.processed
          /\ mem[w].processed \in {disk.processed, disk.processed \union {Current(w)}}
      BY <3>1 DEF WorkerInv, TrackInv
    <3>3. \A k \in mem[w].processed : k \in Out
      BY <1>1 DEF WorkerInv, SoundInv, StateSound, OutcomeKnown, TypeInv, TypeOK, WorkerState
    <3>4. CASE mem[w].processed = disk.processed \union {Current(w)}
      BY <1>1, <1>4, <3>1, <3>2, <3>3, <3>4 DEF Items!Next, Items!Complete
    <3>. QED
      BY <1>3, <1>4, <3>1, <3>2, <3>4
  <2>3. CASE PredictionRejected(w)
    <3>1. /\ pc[w] = "predict" /\ accepted' = accepted /\ rejected' = rejected \union {Current(w)}
          /\ disk' = disk
      BY <2>3 DEF PredictionRejected, Remember
    <3>2. Current(w) \in Events
      BY <1>1, <3>1 DEF WorkerInv, TrackInv, Marking
    <3>. QED
      BY <1>4, <3>1, <3>2 DEF Items!Next, Items!Observe
  <2>4. CASE ~AcceptEvent(w) /\ ~SaveEvent(w) /\ ~PredictionRejected(w)
    <3>1. rejected' = rejected
      BY <1>4, <2>4 DEF Cycle, LoadAndRecover, Heartbeat, SourceCircuitOpen, SourceFails,
        SourceReturns, SkipEvent, PredictionFails, PredictionIssued, NotificationBypassed,
        NotificationCircuitOpen, CallNotifier, NotifierReturns, NotifierFails,
        NotifierTimesOut, FinishCycle, history
    <3>2. accepted' = accepted /\ disk'.processed = disk.processed
      BY <1>4, <2>4, TrackCycle DEF WorkerInv
    <3>. QED
      BY <1>3, <1>4, <3>1, <3>2
  <2>. QED
    BY <2>1, <2>2, <2>3, <2>4
<1>5. ASSUME ~\E w \in Workers : Cycle(w)
      PROVE  accepted' = accepted /\ rejected' = rejected /\ disk' = disk
  BY <1>5 DEF Next, Quiet, Start, Loop, RunOnce, RunForever, TakeLock, LoopRelease, LoopRunOnce, LoopBlocked,
     Reacquire, ReacquireFails, LoopStop, Release, Interrupt, Kill, LateReturn, Tick,
     SaveAs, vars, history, shared, process, env
<1>. QED
  BY <1>2, <1>3, <1>4, <1>5, DeliveryStep DEF WorkerInv

\* In shadow mode the worker implements WorkItems, for any processes, events,
\* failures and crashes.  (The other modes close events without any outcome.)
THEOREM ShadowImplementsWorkItems ==
  ASSUME Modes \subseteq {"shadow"}
  PROVE  Spec => ImplementsWorkItems
<1>1. Init => Items!Init
  BY DEF Init, Items!Init, NewState
<1>2. WorkerInv => mode = "shadow"
  BY DEF WorkerInv, TypeInv, TypeOK
<1>3. WorkerInv /\ [Next]_vars => [Items!Next]_(Items!vars)
  BY <1>2, ItemsStep
<1>. QED
  BY <1>1, <1>3, WorkerInvCorrect, PTL DEF Spec, ImplementsWorkItems, Items!Spec

=============================================================================
