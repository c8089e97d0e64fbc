------------------------------- MODULE Worker -------------------------------
(***************************************************************************)
(* The local worker (worker/core.py): processes that share one state file, *)
(* one event log and one lock file, and run cycles.  A cycle takes the     *)
(* lock, recovers what a crash left behind, asks the source for events,    *)
(* and for each accepted event predicts, notifies with retries and saves.  *)
(*                                                                         *)
(* A step ends where the code touches the outside world: a save of the     *)
(* state file (atomic, os.replace), a lock file operation, a callback.  A  *)
(* process can stop between any two steps.  The event log is written only, *)
(* never read by the worker, and is left out; so are the fields of the     *)
(* state that no branch reads (status, heartbeat, phase, recoveries).      *)
(* Lists whose order no branch reads are sets, or functions to Nat where   *)
(* the code can store duplicates (retry_queue, dead_letter_keys).          *)
(* A prediction id is the event key, as scripts/ops/scripts_run_worker.py  *)
(* builds it.                                                              *)
(***************************************************************************)
EXTENDS Naturals, Sequences

CONSTANTS
  Workers,                  \* worker processes on one output root
  Events,                   \* event keys "<match_id>:<market>"
  NoEvent,                  \* None
  Kickoff,                  \* kickoff time of each event
  Batches,                  \* what the source may return: sequences of items
  Modes,                    \* values of WorkerConfig.mode in use
  MaxAttempts,              \* WorkerConfig.max_attempts
  CircuitFailureThreshold,  \* WorkerConfig.circuit_failure_threshold
  CircuitCooldown,          \* WorkerConfig.circuit_cooldown_seconds
  MaxClock,                 \* bound: the clock stops here
  MaxIterations,            \* bound: no cycle starts after this many
  MaxInterrupts,            \* bound: exceptions that unwind a process
  MaxKills                  \* bound: processes that die without unwinding

\* An event as the source returns it; stale abstracts observed_at_utc.
Item == [key : Events, stale : BOOLEAN]

ASSUME ConfigAssumption ==
  /\ NoEvent \notin Events
  /\ Kickoff \in [Events -> Nat]
  /\ Batches \subseteq Seq(Item)
  /\ Modes \subseteq {"dry-run", "shadow", "telegram-disabled"}
  /\ MaxAttempts \in Nat \ {0}
  /\ CircuitFailureThreshold \in Nat \ {0}
  /\ CircuitCooldown \in Nat
  /\ {MaxClock, MaxIterations, MaxInterrupts, MaxKills} \subseteq Nat

VARIABLES
  \* shared files
  lockFile,  \* worker.lock exists
  disk,      \* the WorkerState in the state file
  \* one process each
  held,      \* FileLock._held
  pc,        \* where the process is
  forever,   \* inside run_forever
  mem,       \* the WorkerState it has loaded
  now,       \* the as_of of its cycle, read once at the start
  batch,     \* events of this cycle still to handle
  attempt,   \* attempt number in _retry_notification
  late,      \* notifier threads left running after a timeout, per event
  \* environment
  mode,      \* WorkerConfig.mode of all processes
  clock, interrupts, kills,
  \* history, read by properties only
  accepted,  \* events whose marker was saved
  rejected,  \* events the kickoff guard refused
  delivered  \* notifier calls that took effect, per event

shared  == <<lockFile, disk>>
process == <<held, pc, forever, mem, now, batch, attempt, late>>
env     == <<mode, clock, interrupts, kills>>
history == <<accepted, rejected, delivered>>
vars    == <<shared, process, env, history>>

WorkerState ==
  [current             : Events \union {NoEvent},
   processed           : SUBSET Events,
   prediction_keys     : SUBSET Events,
   notification_keys   : SUBSET Events,
   retry_queue         : [Events -> Nat],
   dead_letter_keys    : [Events -> Nat],
   source_failures     : Nat,
   notification_failures : Nat,
   source_until        : Nat,     \* 0 is None; the clock starts at 1
   notification_until  : Nat,
   iteration           : Nat]

NewState ==
  [current             |-> NoEvent,
   processed           |-> {},
   prediction_keys     |-> {},
   notification_keys   |-> {},
   retry_queue         |-> [k \in Events |-> 0],
   dead_letter_keys    |-> [k \in Events |-> 0],
   source_failures     |-> 0,
   notification_failures |-> 0,
   source_until        |-> 0,
   notification_until  |-> 0,
   iteration           |-> 0]

\* pc values at which run_once is between acquire and release.
InCycle ==
  {"load", "heartbeat", "source", "event", "predict", "notify", "calling", "save"}
\* pc values at which the process holds the lock.
Locked == InCycle \union {"release", "loop"}

\* pc values inside acquire: the file is created, and not yet held.  Named for
\* the caller, which goes on to After.
Locking == {"once", "forever", "cycle", "back", "out"}

After ==
  [once |-> "load", forever |-> "loop", cycle |-> "load", back |-> "loop", out |-> "release"]

Init ==
  /\ lockFile = FALSE
  /\ disk = NewState
  /\ held = [w \in Workers |-> FALSE]
  /\ pc = [w \in Workers |-> "idle"]
  /\ forever = [w \in Workers |-> FALSE]
  /\ mem = [w \in Workers |-> NewState]
  /\ now = [w \in Workers |-> 1]
  /\ batch = [w \in Workers |-> <<>>]
  /\ attempt = [w \in Workers |-> 1]
  /\ late = [w \in Workers |-> [k \in Events |-> 0]]
  /\ mode \in Modes
  /\ clock = 1 /\ interrupts = 0 /\ kills = 0
  /\ accepted = {} /\ rejected = {}
  /\ delivered = [k \in Events |-> 0]

(***************************************************************************)
(* Helpers                                                                 *)
(***************************************************************************)
GoTo(w, to) == pc' = [pc EXCEPT ![w] = to]

\* Mutant: opened without O_EXCL.
CreateShared(w, caller) ==
  /\ lockFile' = TRUE
  /\ GoTo(w, caller)

\* FileLock.acquire: O_CREAT|O_EXCL; a second creation raises
\* WorkerAlreadyRunning, which callers below handle where it matters.
Create(w, caller) ==
  /\ ~lockFile
  /\ lockFile' = TRUE
  /\ GoTo(w, caller)

\* Mutant: released, but the file stays.
UnlockWithoutUnlink(w) ==
  /\ held' = [held EXCEPT ![w] = FALSE]
  /\ UNCHANGED lockFile

\* FileLock.release: unlinks the file only if this process created it.
Unlock(w) ==
  /\ lockFile' = (lockFile /\ ~held[w])
  /\ held' = [held EXCEPT ![w] = FALSE]

\* StateStore.save of the state in hand, which becomes s.
SaveAs(w, s) ==
  /\ mem' = [mem EXCEPT ![w] = s]
  /\ disk' = s

Remember(w, s) ==
  /\ mem' = [mem EXCEPT ![w] = s]
  /\ UNCHANGED disk

\* _circuit_open
CircuitOpen(until, t) == until > t

Current(w) == Head(batch[w]).key

\* Mutants: the marker is cleared and not queued, or never cleared.
RecoveredForgetting(s) == [s EXCEPT !.current = NoEvent]
RecoveredKeepingMarker(s) == s

\* _recover_startup
Recovered(s) ==
  IF s.current = NoEvent THEN s
  ELSE [s EXCEPT
          !.retry_queue = [k \in Events |->
             IF s.retry_queue[k] > 0 \/ k = s.current THEN 1 ELSE 0],
          !.current = NoEvent]

Beaten(s) == [s EXCEPT !.iteration = @ + 1]

\* The deadline of a breaker after one more failure at time t.
Deadline(failures, until, t) ==
  IF failures + 1 >= CircuitFailureThreshold THEN t + CircuitCooldown ELSE until

SourceFailed(s, t) ==
  [s EXCEPT !.source_failures = @ + 1,
            !.source_until = Deadline(s.source_failures, @, t)]

SourceRecovered(s) == [s EXCEPT !.source_failures = 0, !.source_until = 0]

Marked(s, k) == [s EXCEPT !.current = k]

\* The lists keep every copy an append adds.
Bump(f, k) == [f EXCEPT ![k] = @ + 1]
Drop(f, k) == [f EXCEPT ![k] = @ - 1]

Requeued(s, k) ==
  [s EXCEPT !.retry_queue = Bump(@, k), !.current = NoEvent]

\* A prediction refused by the kickoff guard is processed; a copy an earlier
\* cycle put in the retry queue stays there.
Refused(s, k) ==
  [s EXCEPT !.processed = @ \union {k}, !.current = NoEvent]

Issued(s, k) == [s EXCEPT !.prediction_keys = @ \union {k}]

\* One failed notifier call: count it, open the circuit at the threshold.
NotifierFailed(s, t) ==
  [s EXCEPT !.notification_failures = @ + 1,
            !.notification_until = Deadline(s.notification_failures, @, t)]

\* Mutant: the count is reset and the deadline forgotten.
NotifierRecoveredHalf(s) == [s EXCEPT !.notification_failures = 0]

NotifierRecovered(s) ==
  [s EXCEPT !.notification_failures = 0, !.notification_until = 0]

\* Mutant: a dead-lettered event is closed.
DeadLetteredClosed(s, k) ==
  [s EXCEPT !.dead_letter_keys = Bump(@, k), !.processed = @ \union {k}]

DeadLettered(s, k) == [s EXCEPT !.dead_letter_keys = Bump(@, k)]

\* A notified event is done: out of the retry queue, every copy of it.
Settled(s, k) ==
  [s EXCEPT
     !.notification_keys = @ \union {k},
     !.retry_queue = [@ EXCEPT ![k] = 0],
     !.processed = @ \union {k},
     !.current = NoEvent]

(***************************************************************************)
(* Starting a cycle, and the run_forever loop around it                    *)
(***************************************************************************)
\* run_once called on its own.  Found locked, it raises and changes nothing.
RunOnce(w) ==
  /\ pc[w] = "idle"
  /\ disk.iteration < MaxIterations
  /\ Create(w, "once")
  /\ forever' = [forever EXCEPT ![w] = FALSE]
  /\ now' = [now EXCEPT ![w] = clock]
  /\ UNCHANGED <<disk, held, mem, batch, attempt, late, env, history>>

\* run_forever takes the lock before its first iteration.
RunForever(w) ==
  /\ pc[w] = "idle"
  /\ disk.iteration < MaxIterations
  /\ Create(w, "forever")
  /\ forever' = [forever EXCEPT ![w] = TRUE]
  /\ UNCHANGED <<disk, held, mem, now, batch, attempt, late, env, history>>

\* The end of acquire: the pid is written and _held is set.
TakeLock(w) ==
  /\ pc[w] \in Locking
  /\ held' = [held EXCEPT ![w] = TRUE]
  /\ GoTo(w, After[pc[w]])
  /\ UNCHANGED <<shared, forever, mem, now, batch, attempt, late, env, history>>

\* An iteration gives the lock up so that run_once can take it.
LoopRelease(w) ==
  /\ pc[w] = "loop"
  /\ disk.iteration < MaxIterations
  /\ Unlock(w)
  /\ GoTo(w, "gap")
  /\ UNCHANGED <<disk, forever, mem, now, batch, attempt, late, env, history>>

LoopRunOnce(w) ==
  /\ pc[w] = "gap"
  /\ Create(w, "cycle")
  /\ now' = [now EXCEPT ![w] = clock]
  /\ UNCHANGED <<disk, held, forever, mem, batch, attempt, late, env, history>>

\* Another process took the lock in the gap: run_once raises, and the
\* finally block still tries to take the lock back.
LoopBlocked(w) ==
  /\ pc[w] = "gap"
  /\ lockFile
  /\ GoTo(w, "reraise")
  /\ UNCHANGED <<shared, held, forever, mem, now, batch, attempt, late, env, history>>

\* The finally block: back in the loop, or on the way out with the exception.
Reacquire(w) ==
  /\ pc[w] \in {"reacquire", "reraise"}
  /\ Create(w, IF pc[w] = "reacquire" THEN "back" ELSE "out")
  /\ forever' = [forever EXCEPT ![w] = (pc[w] = "reacquire")]
  /\ UNCHANGED <<disk, held, mem, now, batch, attempt, late, env, history>>

\* The finally block finds the file: WorkerAlreadyRunning leaves run_forever.
ReacquireFails(w) ==
  /\ pc[w] \in {"reacquire", "reraise"}
  /\ lockFile
  /\ GoTo(w, "idle")
  /\ forever' = [forever EXCEPT ![w] = FALSE]
  /\ UNCHANGED <<shared, held, mem, now, batch, attempt, late, env, history>>

\* stop_event or max_iterations: the state is loaded and saved with status
\* "stopped", which nothing reads.
LoopStop(w) ==
  /\ pc[w] = "loop"
  /\ SaveAs(w, disk)
  /\ GoTo(w, "release")
  /\ forever' = [forever EXCEPT ![w] = FALSE]
  /\ UNCHANGED <<lockFile, held, now, batch, attempt, late, env, history>>

\* The end of a with-block.
Release(w) ==
  /\ pc[w] = "release"
  /\ Unlock(w)
  /\ GoTo(w, IF forever[w] THEN "reacquire" ELSE "idle")
  /\ mem' = [mem EXCEPT ![w] = NewState]
  /\ batch' = [batch EXCEPT ![w] = <<>>]
  /\ UNCHANGED <<disk, forever, now, attempt, late, env, history>>

(***************************************************************************)
(* The cycle                                                               *)
(***************************************************************************)
\* Mutant: the cycle starts from what the process remembers, not the file.
LoadFromMemory(w) ==
  /\ pc[w] = "load"
  /\ SaveAs(w, Recovered(mem[w]))
  /\ GoTo(w, "heartbeat")
  /\ UNCHANGED <<lockFile, held, forever, now, batch, attempt, late, env, history>>

LoadAndRecover(w) ==
  /\ pc[w] = "load"
  /\ SaveAs(w, Recovered(disk))
  /\ GoTo(w, "heartbeat")
  /\ UNCHANGED <<lockFile, held, forever, now, batch, attempt, late, env, history>>

Heartbeat(w) ==
  /\ pc[w] = "heartbeat"
  /\ SaveAs(w, Beaten(mem[w]))
  /\ GoTo(w, "source")
  /\ UNCHANGED <<lockFile, held, forever, now, batch, attempt, late, env, history>>

SourceCircuitOpen(w) ==
  /\ pc[w] = "source"
  /\ CircuitOpen(mem[w].source_until, now[w])
  /\ SaveAs(w, mem[w])
  /\ GoTo(w, "release")
  /\ UNCHANGED <<lockFile, held, forever, now, batch, attempt, late, env, history>>

\* The source raises or exceeds its timeout.
SourceFails(w) ==
  /\ pc[w] = "source"
  /\ ~CircuitOpen(mem[w].source_until, now[w])
  /\ SaveAs(w, SourceFailed(mem[w], now[w]))
  /\ GoTo(w, "release")
  /\ UNCHANGED <<lockFile, held, forever, now, batch, attempt, late, env, history>>

\* An empty answer is saved at once ("no_data"); the reset of the source
\* breaker is otherwise saved with the first event or at the end.
SourceReturns(w) ==
  /\ pc[w] = "source"
  /\ ~CircuitOpen(mem[w].source_until, now[w])
  /\ \E b \in Batches :
       /\ IF b = <<>> THEN SaveAs(w, SourceRecovered(mem[w]))
          ELSE Remember(w, SourceRecovered(mem[w]))
       /\ batch' = [batch EXCEPT ![w] = b]
       /\ GoTo(w, IF b = <<>> THEN "release" ELSE "event")
  /\ UNCHANGED <<lockFile, held, forever, now, attempt, late, env, history>>

\* Mutant: no duplicate check.
AcceptableAgain(w) == ~Head(batch[w]).stale /\ Kickoff[Current(w)] > now[w]

Acceptable(w) ==
  /\ Current(w) \notin mem[w].processed
  /\ ~Head(batch[w]).stale
  /\ Kickoff[Current(w)] > now[w]

\* duplicate_skipped, stale_data_skipped, late_event_skipped
SkipEvent(w) ==
  /\ pc[w] = "event" /\ batch[w] # <<>>
  /\ ~Acceptable(w)
  /\ batch' = [batch EXCEPT ![w] = Tail(@)]
  /\ UNCHANGED <<shared, held, pc, forever, mem, now, attempt, late, env, history>>

AcceptEvent(w) ==
  /\ pc[w] = "event" /\ batch[w] # <<>>
  /\ Acceptable(w)
  /\ SaveAs(w, Marked(mem[w], Current(w)))
  /\ accepted' = accepted \union {Current(w)}
  /\ GoTo(w, "predict")
  /\ UNCHANGED <<lockFile, held, forever, now, batch, attempt, late, env, rejected, delivered>>

PredictionFails(w) ==
  /\ pc[w] = "predict"
  /\ Remember(w, Requeued(mem[w], Current(w)))
  /\ GoTo(w, "save")
  /\ UNCHANGED <<lockFile, held, forever, now, batch, attempt, late, env, history>>

\* The predictor's own kickoff and as_of fail the guard.
PredictionRejected(w) ==
  /\ pc[w] = "predict"
  /\ Remember(w, Refused(mem[w], Current(w)))
  /\ rejected' = rejected \union {Current(w)}
  /\ GoTo(w, "save")
  /\ UNCHANGED <<lockFile, held, forever, now, batch, attempt, late, env, accepted, delivered>>

PredictionIssued(w) ==
  /\ pc[w] = "predict"
  /\ Remember(w, Issued(mem[w], Current(w)))
  /\ GoTo(w, "notify")
  /\ UNCHANGED <<lockFile, held, forever, now, batch, attempt, late, env, history>>

\* dry-run and telegram-disabled count as notified without a call.
NotificationBypassed(w) ==
  /\ pc[w] = "notify"
  /\ mode # "shadow"
  /\ Remember(w, Settled(mem[w], Current(w)))
  /\ GoTo(w, "save")
  /\ UNCHANGED <<lockFile, held, forever, now, batch, attempt, late, env, history>>

NotificationCircuitOpen(w) ==
  /\ pc[w] = "notify"
  /\ mode = "shadow"
  /\ CircuitOpen(mem[w].notification_until, now[w])
  /\ Remember(w, Requeued(mem[w], Current(w)))
  /\ GoTo(w, "save")
  /\ UNCHANGED <<lockFile, held, forever, now, batch, attempt, late, env, history>>

\* The circuit is read once, before the first attempt.
CallNotifier(w) ==
  /\ pc[w] = "notify"
  /\ mode = "shadow"
  /\ ~CircuitOpen(mem[w].notification_until, now[w])
  /\ attempt' = [attempt EXCEPT ![w] = 1]
  /\ GoTo(w, "calling")
  /\ UNCHANGED <<shared, held, forever, mem, now, batch, late, env, history>>

NotifierReturns(w) ==
  /\ pc[w] = "calling"
  /\ delivered' = Bump(delivered, Current(w))
  /\ Remember(w, Settled(NotifierRecovered(mem[w]), Current(w)))
  /\ GoTo(w, "save")
  /\ UNCHANGED <<lockFile, held, forever, now, batch, attempt, late, env, accepted, rejected>>

\* The bookkeeping of a WorkerError: the next attempt, or the dead letter and
\* the retry queue.
AttemptFailed(w) ==
  LET s == NotifierFailed(mem[w], now[w])
      k == Current(w)
  IN \/ /\ attempt[w] < MaxAttempts
        /\ Remember(w, s)
        /\ attempt' = [attempt EXCEPT ![w] = @ + 1]
        /\ GoTo(w, "calling")
     \/ /\ attempt[w] >= MaxAttempts
        /\ Remember(w, Requeued(DeadLettered(s, k), k))
        /\ GoTo(w, "save")
        /\ UNCHANGED attempt

\* The notifier raises, having delivered or not.
NotifierFails(w) ==
  /\ pc[w] = "calling"
  /\ delivered' \in {delivered, Bump(delivered, Current(w))}
  /\ AttemptFailed(w)
  /\ UNCHANGED <<lockFile, held, forever, now, batch, late, env, accepted, rejected>>

\* _call_with_timeout gives up; cancel() does not stop a running thread.
NotifierTimesOut(w) ==
  /\ pc[w] = "calling"
  /\ late' = [late EXCEPT ![w] = Bump(@, Current(w))]
  /\ AttemptFailed(w)
  /\ UNCHANGED <<lockFile, held, forever, now, batch, env, history>>

SaveEvent(w) ==
  /\ pc[w] = "save"
  /\ SaveAs(w, mem[w])
  /\ batch' = [batch EXCEPT ![w] = Tail(@)]
  /\ GoTo(w, "event")
  /\ UNCHANGED <<lockFile, held, forever, now, attempt, late, env, history>>

FinishCycle(w) ==
  /\ pc[w] = "event" /\ batch[w] = <<>>
  /\ SaveAs(w, mem[w])
  /\ GoTo(w, "release")
  /\ UNCHANGED <<lockFile, held, forever, now, batch, attempt, late, env, history>>

(***************************************************************************)
(* The environment                                                         *)
(***************************************************************************)
\* A notifier thread that outlived its timeout ends, with or without effect.
LateReturn(w, k) ==
  /\ late[w][k] > 0
  /\ late' = [late EXCEPT ![w] = Drop(@, k)]
  /\ delivered' \in {delivered, Bump(delivered, k)}
  /\ UNCHANGED <<shared, held, pc, forever, mem, now, batch, attempt, env, accepted, rejected>>

\* pc values at which an exception in run_forever meets its finally block.
Guarded == InCycle \union {"gap", "cycle", "release"}

\* An exception no handler catches (KeyboardInterrupt, a disk that is full)
\* unwinds the with-blocks, which release the lock if it is held;
\* run_forever's finally block takes it back first.  A pid that cannot be
\* written is one: acquire leaves a file behind that nobody holds.  A notifier
\* call in progress runs on as a thread.
Interrupt(w) ==
  /\ pc[w] # "idle"
  /\ interrupts < MaxInterrupts
  /\ interrupts' = interrupts + 1
  /\ Unlock(w)
  /\ LET caught == forever[w] /\ pc[w] \in Guarded
     IN /\ GoTo(w, IF caught THEN "reraise" ELSE "idle")
        /\ forever' = [forever EXCEPT ![w] = caught]
  /\ mem' = [mem EXCEPT ![w] = NewState]
  /\ batch' = [batch EXCEPT ![w] = <<>>]
  /\ late' = IF pc[w] = "calling" THEN [late EXCEPT ![w] = Bump(@, Current(w))] ELSE late
  /\ UNCHANGED <<disk, now, attempt, mode, clock, kills, history>>

\* The process dies (SIGKILL, power): its threads with it, the lock file stays.
\* A notifier call in progress has taken effect or not.
Kill(w) ==
  /\ pc[w] # "idle"
  /\ kills < MaxKills
  /\ kills' = kills + 1
  /\ held' = [held EXCEPT ![w] = FALSE]
  /\ GoTo(w, "idle")
  /\ forever' = [forever EXCEPT ![w] = FALSE]
  /\ mem' = [mem EXCEPT ![w] = NewState]
  /\ batch' = [batch EXCEPT ![w] = <<>>]
  /\ late' = [late EXCEPT ![w] = [k \in Events |-> 0]]
  /\ \/ UNCHANGED delivered
     \/ pc[w] = "calling" /\ delivered' = Bump(delivered, Current(w))
  /\ UNCHANGED <<shared, now, attempt, mode, clock, interrupts, accepted, rejected>>

Tick ==
  /\ clock < MaxClock
  /\ clock' = clock + 1
  /\ UNCHANGED <<shared, process, mode, interrupts, kills, history>>

\* Every process is back at the shell: nothing has to happen.
Quiet ==
  /\ \A w \in Workers : pc[w] = "idle"
  /\ UNCHANGED vars

Start(w) == RunOnce(w) \/ RunForever(w)

Loop(w) ==
  \/ TakeLock(w) \/ LoopRelease(w) \/ LoopRunOnce(w) \/ LoopBlocked(w)
  \/ Reacquire(w) \/ ReacquireFails(w) \/ LoopStop(w) \/ Release(w)

Cycle(w) ==
  \/ LoadAndRecover(w) \/ Heartbeat(w)
  \/ SourceCircuitOpen(w) \/ SourceFails(w) \/ SourceReturns(w)
  \/ SkipEvent(w) \/ AcceptEvent(w)
  \/ PredictionFails(w) \/ PredictionRejected(w) \/ PredictionIssued(w)
  \/ NotificationBypassed(w) \/ NotificationCircuitOpen(w) \/ CallNotifier(w)
  \/ NotifierReturns(w) \/ NotifierFails(w) \/ NotifierTimesOut(w)
  \/ SaveEvent(w) \/ FinishCycle(w)

Next ==
  \/ \E w \in Workers : Start(w) \/ Loop(w) \/ Cycle(w) \/ Interrupt(w) \/ Kill(w)
  \/ \E w \in Workers, k \in Events : LateReturn(w, k)
  \/ Tick
  \/ Quiet

Spec == Init /\ [][Next]_vars

\* A process that runs keeps running (every callback has a timeout), and
\* scripts_run_worker.py is started again until it once finds the lock free:
\* strong fairness, since other processes take and return the lock meanwhile.
\* Callbacks, run_forever, stops, crashes and the clock owe nothing.
Fairness ==
  \A w \in Workers : WF_vars(Loop(w) \/ Cycle(w)) /\ SF_vars(RunOnce(w))

FairSpec == Spec /\ Fairness

(***************************************************************************)
(* Properties                                                              *)
(***************************************************************************)
TypeOK ==
  /\ lockFile \in BOOLEAN
  /\ disk \in WorkerState
  /\ held \in [Workers -> BOOLEAN]
  /\ pc \in [Workers -> Locked \union Locking \union {"idle", "gap", "reacquire", "reraise"}]
  /\ forever \in [Workers -> BOOLEAN]
  /\ mem \in [Workers -> WorkerState]
  /\ now \in [Workers -> Nat]
  /\ batch \in [Workers -> Seq(Item)]
  /\ attempt \in [Workers -> Nat]
  /\ late \in [Workers -> [Events -> Nat]]
  /\ mode \in Modes
  /\ clock \in Nat /\ interrupts \in Nat /\ kills \in Nat
  /\ accepted \in SUBSET Events
  /\ rejected \in SUBSET Events
  /\ delivered \in [Events -> Nat]

\* The lock file keeps cycles apart, whatever run_forever, exceptions and
\* killed processes do with it: at most one process is inside run_once.
MutualExclusion ==
  \A v, w \in Workers : pc[v] \in InCycle /\ pc[w] \in InCycle => v = w

\* An event whose marker was saved is never dropped by a crash or a failure:
\* the state file always shows it current, queued for retry, or processed.
AcceptedNeverLost ==
  \A k \in accepted :
    \/ disk.current = k
    \/ disk.retry_queue[k] > 0
    \/ k \in disk.processed

\* In shadow mode an event is not marked processed on disk unless a notifier
\* call took effect or the kickoff guard refused it.
ProcessedOnlyAfterOutcome ==
  mode = "shadow" =>
    \A k \in disk.processed : delivered[k] > 0 \/ k \in rejected

\* The three key lists of the state file agree at every save: a notified
\* event was predicted, is processed and has left the retry queue, and an
\* event is processed without being notified only if it was rejected.
KeyListsAgree ==
  /\ disk.notification_keys \subseteq disk.prediction_keys \intersect disk.processed
  /\ disk.processed \ rejected \subseteq disk.notification_keys
  /\ \A k \in disk.notification_keys : disk.retry_queue[k] = 0

\* A breaker has a deadline exactly when the failures since the last success
\* reached the threshold, in the file as in memory.
BreakersAgree ==
  \A s \in {disk} \union {mem[w] : w \in Workers} :
    /\ s.source_until # 0 <=> s.source_failures >= CircuitFailureThreshold
    /\ s.notification_until # 0 <=> s.notification_failures >= CircuitFailureThreshold

\* The parts of the state file that are written in different places agree, in any
\* order of failures, crashes and other processes.
StateFileAgrees == KeyListsAgree /\ BreakersAgree

\* Once the file says an event is processed and no thread left over from a
\* timeout is still running for it, it is never delivered again.
SettledNeverRedelivered ==
  [][\A k \in disk.processed :
       (\A w \in Workers : late[w][k] = 0) => delivered'[k] = delivered[k]]_vars

\* Seen from outside, the worker is WorkItems: an accepted event is pending
\* until its outcome is known and then done for good.
Items == INSTANCE WorkItems WITH
  pending <- accepted \ disk.processed,
  outcome <- rejected \union {k \in Events : delivered[k] > 0},
  done    <- disk.processed

ImplementsWorkItems == Items!Spec

\* The file exists, and no process holds it or is about to.
Stranded == lockFile /\ \A w \in Workers : pc[w] \notin Locked \union Locking

\* A file is left without a holder only by a process that is killed, or by an
\* exception between the creation of the file and the note that it is held.
StrandedExplained ==
  [][~Stranded /\ Stranded' =>
       \/ kills' > kills
       \/ interrupts' > interrupts /\ \E w \in Workers : pc[w] \in Locking]_vars

\* A cycle ends whatever its callbacks do and gives the lock back, unless the
\* file is stranded; and then it is known what stranded it.
LockReturned == (lockFile ~> ~lockFile \/ Stranded) /\ StrandedExplained

\* While the lock file is not stranded, a marker left by an exception or a death
\* is picked up by the cycles that are still started.
MarkerRecovered ==
  (disk.current # NoEvent /\ disk.iteration < MaxIterations)
    ~> (disk.current = NoEvent \/ Stranded)

\* The docstring of LocalWorker: "Crash-recoverable".  A marker left by a crash
\* is picked up while cycles are still started.
CrashRecovered ==
  (disk.current # NoEvent /\ disk.iteration < MaxIterations) ~> (disk.current = NoEvent)
=============================================================================
