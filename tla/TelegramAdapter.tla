--------------------------- MODULE TelegramAdapter ---------------------------
(***************************************************************************)
(* Telegram notifications (notification/telegram.py): adapters that share  *)
(* one append-only notification ledger and decide from its latest event    *)
(* whether a notification is still to be sent.                             *)
(*                                                                         *)
(* A step ends at each read or append of the ledger and at each call of    *)
(* the client.  A notification stands for a signal and a chat: its id is   *)
(* the hash of both.  Backoff takes any time.  An exception of send other  *)
(* than those of the client (policy, rendering) changes nothing.           *)
(***************************************************************************)
EXTENDS TelegramSettings, Sequences

CONSTANTS
  MaxSends,       \* bound: calls of send
  MaxCrashes,     \* bound: processes that die inside send
  MaxLost         \* bound: client calls that deliver and then fail

VARIABLES
  ledger,     \* events of the notification ledger
  pc,
  config,     \* policy and configuration of each adapter
  message,    \* the notification it is sending
  attempt,
  retryable,  \* TelegramRequestError.retryable of the last failure
  \* history and bounds
  delivered,  \* times the client delivered each notification
  lost,       \* of those, the ones the adapter never learnt of
  sends, crashes, losses

adapter == <<pc, config, message, attempt, retryable>>
counts  == <<sends, crashes, losses>>
vars    == <<ledger, adapter, delivered, lost, counts>>

Event ==
  [key : Keys, attempt : Nat,
   status : {"dry_run", "attempt_started", "retryable_failed", "dead_letter", "sent"}]

Init ==
  /\ ledger = <<>>
  /\ pc = [a \in Adapters |-> "new"]
  /\ config \in [Adapters -> Configs]
  /\ message \in [Adapters -> Notifications]
  /\ attempt = [a \in Adapters |-> 1]
  /\ retryable = [a \in Adapters |-> FALSE]
  /\ delivered = [k \in Keys |-> 0]
  /\ lost = [k \in Keys |-> 0]
  /\ sends = 0 /\ crashes = 0 /\ losses = 0

(***************************************************************************)
(* Helpers                                                                 *)
(***************************************************************************)
GoTo(a, to) == pc' = [pc EXCEPT ![a] = to]

Key(a) == message[a].key

Log(a, status, n) ==
  ledger' = Append(ledger, [key |-> Key(a), attempt |-> n, status |-> status])

\* NotificationPolicy.permits
Permits(c, n) ==
  /\ c.enabled /\ ~c.production_enabled /\ c.mode # "production"
  /\ n.market \in c.allowed_markets
  /\ c.require_pre_match => n.pre_match

\* Events of a notification; NotificationLedger.latest is the last of them.
EventsOf(k) == {i \in DOMAIN ledger : ledger[i].key = k}

\* Mutant: the first event is looked at, not the latest.
FirstIsSettled(k) ==
  \E i \in EventsOf(k) :
    /\ ledger[i].status \in {"sent", "dry_run"}
    /\ \A j \in EventsOf(k) : i <= j

\* Mutant: a dry_run event does not count.
LatestIsSent(k) ==
  \E i \in EventsOf(k) :
    /\ ledger[i].status = "sent"
    /\ \A j \in EventsOf(k) : j <= i

LatestIsSettled(k) ==
  \E i \in EventsOf(k) :
    /\ ledger[i].status \in {"sent", "dry_run"}
    /\ \A j \in EventsOf(k) : j <= i

(***************************************************************************)
(* Steps                                                                   *)
(***************************************************************************)
\* A new adapter over the same ledger.  Production raises
\* ProductionDisabledError, test mode without a client TelegramAdapterError.
Construct(a) ==
  /\ pc[a] \in {"new", "ready"}
  /\ \E c \in Configs :
       /\ c.mode # "production" /\ ~c.production_enabled
       /\ c.mode = "test" => c.client
       /\ config' = [config EXCEPT ![a] = c]
  /\ GoTo(a, "ready")
  /\ UNCHANGED <<ledger, message, attempt, retryable, delivered, lost, counts>>

Send(a) ==
  /\ pc[a] = "ready" /\ sends < MaxSends
  /\ sends' = sends + 1
  /\ \E n \in Notifications :
       /\ Permits(config[a], n) /\ n.renders
       /\ message' = [message EXCEPT ![a] = n]
  /\ GoTo(a, "look")
  /\ UNCHANGED <<ledger, config, attempt, retryable, delivered, lost, crashes, losses>>

\* duplicate_skipped
SkipDuplicate(a) ==
  /\ pc[a] = "look"
  /\ LatestIsSettled(Key(a))
  /\ GoTo(a, "ready")
  /\ UNCHANGED <<ledger, config, message, attempt, retryable, delivered, lost, counts>>

\* Mutant: attempts of the last call of send go on counting.
NotSettledKeepsAttempt(a) ==
  /\ pc[a] = "look"
  /\ ~LatestIsSettled(Key(a))
  /\ GoTo(a, IF config[a].mode = "dry_run" THEN "dry_run" ELSE "attempt")
  /\ UNCHANGED <<ledger, config, message, attempt, retryable, delivered, lost, counts>>

NotSettled(a) ==
  /\ pc[a] = "look"
  /\ ~LatestIsSettled(Key(a))
  /\ attempt' = [attempt EXCEPT ![a] = 1]
  /\ GoTo(a, IF config[a].mode = "dry_run" THEN "dry_run" ELSE "attempt")
  /\ UNCHANGED <<ledger, config, message, retryable, delivered, lost, counts>>

DryRun(a) ==
  /\ pc[a] = "dry_run"
  /\ Log(a, "dry_run", 0)
  /\ GoTo(a, "ready")
  /\ UNCHANGED <<config, message, attempt, retryable, delivered, lost, counts>>

\* Mutant: the attempt is only logged once the client has answered.
StartAttemptUnlogged(a) ==
  /\ pc[a] = "attempt"
  /\ GoTo(a, "calling")
  /\ UNCHANGED <<ledger, config, message, attempt, retryable, delivered, lost, counts>>

StartAttempt(a) ==
  /\ pc[a] = "attempt"
  /\ Log(a, "attempt_started", attempt[a])
  /\ GoTo(a, "calling")
  /\ UNCHANGED <<config, message, attempt, retryable, delivered, lost, counts>>

ClientDelivers(a) ==
  /\ pc[a] = "calling"
  /\ delivered' = [delivered EXCEPT ![Key(a)] = @ + 1]
  /\ GoTo(a, "delivered")
  /\ UNCHANGED <<ledger, config, message, attempt, retryable, lost, counts>>

\* The client raises; an error that is no TelegramRequestError is handled
\* like one that is not retryable.
ClientFails(a) ==
  /\ pc[a] = "calling"
  /\ \E r \in BOOLEAN : retryable' = [retryable EXCEPT ![a] = r]
  /\ GoTo(a, "failed")
  /\ UNCHANGED <<ledger, config, message, attempt, delivered, lost, counts>>

\* The message arrives, the answer does not.
ClientAnswerLost(a) ==
  /\ pc[a] = "calling" /\ losses < MaxLost
  /\ losses' = losses + 1
  /\ delivered' = [delivered EXCEPT ![Key(a)] = @ + 1]
  /\ lost' = [lost EXCEPT ![Key(a)] = @ + 1]
  /\ retryable' = [retryable EXCEPT ![a] = TRUE]
  /\ GoTo(a, "failed")
  /\ UNCHANGED <<ledger, config, message, attempt, sends, crashes>>

Retry(a) ==
  /\ pc[a] = "failed"
  /\ retryable[a] /\ attempt[a] < config[a].max_attempts
  /\ Log(a, "retryable_failed", attempt[a])
  /\ attempt' = [attempt EXCEPT ![a] = @ + 1]
  /\ GoTo(a, "attempt")
  /\ UNCHANGED <<config, message, retryable, delivered, lost, counts>>

\* Mutant: only a permanent error ends the loop.
DeadLetterPermanent(a) ==
  /\ pc[a] = "failed"
  /\ ~retryable[a]
  /\ Log(a, "dead_letter", attempt[a])
  /\ GoTo(a, "ready")
  /\ UNCHANGED <<config, message, attempt, retryable, delivered, lost, counts>>

DeadLetter(a) ==
  /\ pc[a] = "failed"
  /\ ~retryable[a] \/ attempt[a] = config[a].max_attempts
  /\ Log(a, "dead_letter", attempt[a])
  /\ GoTo(a, "ready")
  /\ UNCHANGED <<config, message, attempt, retryable, delivered, lost, counts>>

RecordSent(a) ==
  /\ pc[a] = "delivered"
  /\ Log(a, "sent", attempt[a])
  /\ GoTo(a, "ready")
  /\ UNCHANGED <<config, message, attempt, retryable, delivered, lost, counts>>

\* The process dies; the ledger stays.  A delivery without its event is lost.
Crash(a) ==
  /\ pc[a] \notin {"new", "ready"}
  /\ crashes < MaxCrashes
  /\ crashes' = crashes + 1
  /\ lost' = [lost EXCEPT ![Key(a)] = IF pc[a] = "delivered" THEN @ + 1 ELSE @]
  /\ GoTo(a, "new")
  /\ UNCHANGED <<ledger, config, message, attempt, retryable, delivered, sends, losses>>

Step(a) ==
  \/ SkipDuplicate(a) \/ NotSettled(a) \/ DryRun(a) \/ StartAttempt(a)
  \/ ClientDelivers(a) \/ ClientFails(a) \/ ClientAnswerLost(a)
  \/ Retry(a) \/ DeadLetter(a) \/ RecordSent(a)

Next == \E a \in Adapters : Construct(a) \/ Send(a) \/ Step(a) \/ Crash(a)

Spec == Init /\ [][Next]_vars

(***************************************************************************)
(* Properties                                                              *)
(***************************************************************************)
Idle == {"new", "ready"}

TypeOK ==
  /\ ledger \in Seq(Event)
  /\ pc \in [Adapters ->
       Idle \union {"look", "dry_run", "attempt", "calling", "delivered", "failed"}]
  /\ config \in [Adapters -> Configs]
  /\ message \in [Adapters -> Notifications]
  /\ attempt \in [Adapters -> Nat]
  /\ retryable \in [Adapters -> BOOLEAN]
  /\ delivered \in [Keys -> Nat]
  /\ lost \in [Keys -> Nat]
  /\ sends \in Nat /\ crashes \in Nat /\ losses \in Nat

Count(k, status) == Cardinality({i \in EventsOf(k) : ledger[i].status = status})

\* The ledger accounts for every delivery before it happens: there are never
\* more deliveries of a notification than attempts logged for it, and never
\* more sent events than deliveries, whatever crashes and however adapters
\* interleave.
DeliveriesAccounted ==
  \A k \in Keys :
    Count(k, "sent") <= delivered[k] /\ delivered[k] <= Count(k, "attempt_started")

\* With one adapter at a time, a notification reaches its chat twice only if
\* a crash or the client lost the answer to an earlier delivery.
DuplicatesExplained == \A k \in Keys : delivered[k] <= lost[k] + 1

\* Once it has a sent or dry_run event, a notification has no further event
\* and no further delivery, in any later mode of any later adapter.
SettledStays ==
  \A k \in Keys :
    (\E i \in EventsOf(k) : ledger[i].status \in {"sent", "dry_run"}) =>
      /\ delivered'[k] = delivered[k]
      /\ \A i \in DOMAIN ledger' \ DOMAIN ledger : ledger'[i].key # k

SettledIsFinal == [][SettledStays]_vars

\* Attempts are numbered from 1 without gaps, however the process dies and is
\* started again with another max_attempts: attempt n + 1 follows the
\* retryable failure of attempt n, and no attempt exceeds the largest limit.
AttemptsInOrder ==
  \A i \in DOMAIN ledger :
    ledger[i].status = "attempt_started" =>
      /\ \E c \in Configs : ledger[i].attempt <= c.max_attempts
      /\ ledger[i].attempt # 1 =>
           \E j \in EventsOf(ledger[i].key) :
             /\ j < i /\ \A m \in EventsOf(ledger[i].key) : m <= j \/ i <= m
             /\ ledger[j].status = "retryable_failed"
             /\ ledger[j].attempt + 1 = ledger[i].attempt
=============================================================================
