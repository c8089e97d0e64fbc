------------------------ MODULE TelegramAdapterProofs ------------------------
(***************************************************************************)
(* Proofs about TelegramAdapter, for any adapters, notifications,          *)
(* configurations and bounds: typing; that the ledger accounts for every   *)
(* delivery; and, one adapter at a time, that a settled notification stays *)
(* settled, that every duplicate is explained by a lost answer and that    *)
(* attempts are numbered without gaps.                                     *)
(***************************************************************************)
EXTENDS TelegramAdapter, FiniteSetTheorems, TLAPS

(***************************************************************************)
(* Typing                                                                  *)
(***************************************************************************)
LEMMA KeyType == ASSUME TypeOK, NEW a \in Adapters PROVE Key(a) \in Keys
BY SettingsAssumption DEF TypeOK, Key, Notification

LEMMA LogType ==
  ASSUME TypeOK, NEW a \in Adapters, NEW n \in Nat,
         NEW s \in {"dry_run", "attempt_started", "retryable_failed", "dead_letter", "sent"},
         Log(a, s, n)
  PROVE  ledger' \in Seq(Event)
<1>1. [key |-> Key(a), attempt |-> n, status |-> s] \in Event
  BY KeyType DEF Event
<1>. QED  BY <1>1 DEF Log, TypeOK

LEMMA CountersType ==
  ASSUME TypeOK, NEW a \in Adapters
  PROVE  /\ sends + 1 \in Nat /\ crashes + 1 \in Nat /\ losses + 1 \in Nat
         /\ attempt[a] \in Nat /\ attempt[a] + 1 \in Nat
         /\ \A k \in Keys : delivered[k] + 1 \in Nat /\ lost[k] + 1 \in Nat /\ lost[k] \in Nat
BY DEF TypeOK

LEMMA TypeInit == Init => TypeOK
<1>. SUFFICES ASSUME Init PROVE TypeOK  OBVIOUS
<1>1. ledger \in Seq(Event)  BY DEF Init
<1>. QED  BY <1>1 DEF Init, TypeOK, Idle

LEMMA TypeStep == TypeOK /\ [Next]_vars => TypeOK'
<1>. SUFFICES ASSUME TypeOK, [Next]_vars PROVE TypeOK'  OBVIOUS
<1>. USE DEF TypeOK, Idle, GoTo, counts
<1>1. CASE UNCHANGED vars  BY <1>1 DEF vars, adapter
<1>2. ASSUME NEW a \in Adapters, Construct(a) PROVE TypeOK'
  BY <1>2 DEF Construct
<1>3. ASSUME NEW a \in Adapters, Send(a) PROVE TypeOK'
  BY <1>3, CountersType DEF Send
<1>4. ASSUME NEW a \in Adapters, SkipDuplicate(a) PROVE TypeOK'
  BY <1>4 DEF SkipDuplicate
<1>5. ASSUME NEW a \in Adapters, NotSettled(a) PROVE TypeOK'
  BY <1>5 DEF NotSettled
<1>6. ASSUME NEW a \in Adapters, DryRun(a) PROVE TypeOK'
  <2>1. ledger' \in Seq(Event)  BY <1>6, LogType DEF DryRun
  <2>. QED  BY <1>6, <2>1 DEF DryRun
<1>7. ASSUME NEW a \in Adapters, StartAttempt(a) PROVE TypeOK'
  <2>1. ledger' \in Seq(Event)  BY <1>7, LogType, CountersType DEF StartAttempt
  <2>. QED  BY <1>7, <2>1 DEF StartAttempt
<1>8. ASSUME NEW a \in Adapters, ClientDelivers(a) PROVE TypeOK'
  BY <1>8, CountersType, KeyType DEF ClientDelivers
<1>9. ASSUME NEW a \in Adapters, ClientFails(a) PROVE TypeOK'
  BY <1>9 DEF ClientFails
<1>10. ASSUME NEW a \in Adapters, ClientAnswerLost(a) PROVE TypeOK'
  BY <1>10, CountersType, KeyType DEF ClientAnswerLost
<1>11. ASSUME NEW a \in Adapters, Retry(a) PROVE TypeOK'
  <2>1. ledger' \in Seq(Event)  BY <1>11, LogType, CountersType DEF Retry
  <2>. QED  BY <1>11, <2>1, CountersType DEF Retry
<1>12. ASSUME NEW a \in Adapters, DeadLetter(a) PROVE TypeOK'
  <2>1. ledger' \in Seq(Event)  BY <1>12, LogType, CountersType DEF DeadLetter
  <2>. QED  BY <1>12, <2>1 DEF DeadLetter
<1>13. ASSUME NEW a \in Adapters, RecordSent(a) PROVE TypeOK'
  <2>1. ledger' \in Seq(Event)  BY <1>13, LogType, CountersType DEF RecordSent
  <2>. QED  BY <1>13, <2>1 DEF RecordSent
<1>14. ASSUME NEW a \in Adapters, Crash(a) PROVE TypeOK'
  BY <1>14, CountersType, KeyType DEF Crash
<1>. HIDE DEF TypeOK, Idle, GoTo, counts
<1>. QED
  BY <1>1, <1>2, <1>3, <1>4, <1>5, <1>6, <1>7, <1>8, <1>9, <1>10, <1>11, <1>12,
     <1>13, <1>14 DEF Next, Step

\* Ledger, adapters and histories keep their types (every append to the
\* notification ledger is one of its five events).
THEOREM TypeOKCorrect == Spec => []TypeOK
BY TypeInit, TypeStep, PTL DEF Spec

(***************************************************************************)
(* One adapter at a time                                                   *)
(***************************************************************************)
OneAdapter == \A a, b \in Adapters : a = b

\* pc values after the ledger was found to leave the notification open.
Busy == {"dry_run", "attempt", "calling", "delivered", "failed"}

Final == {"sent", "dry_run"}
Settled(k) == \E i \in EventsOf(k) : ledger[i].status \in Final
SentOrDelivered(k) ==
  \/ \E i \in EventsOf(k) : ledger[i].status = "sent"
  \/ \E a \in Adapters : pc[a] = "delivered" /\ Key(a) = k

\* A final event is the last one of its notification, an adapter at work has
\* found its notification open, and a delivery that was not lost is either
\* in the ledger or about to be.
FinalLast ==
  \A i, j \in DOMAIN ledger :
    ledger[i].status \in Final /\ ledger[j].key = ledger[i].key => j <= i
BusyOpen == \A a \in Adapters : pc[a] \in Busy => ~Settled(Key(a))
DeliveredOnce ==
  \A k \in Keys :
    /\ delivered[k] <= lost[k] + 1
    /\ delivered[k] <= lost[k] \/ SentOrDelivered(k)

SerialInv == FinalLast /\ BusyOpen /\ DeliveredOnce

\* An append for an open notification keeps final events last.
LEMMA AppendFinalLast ==
  ASSUME TypeOK, FinalLast, NEW a \in Adapters, ~Settled(Key(a)), NEW s, NEW n,
         Log(a, s, n)
  PROVE  FinalLast'
<1>1. ledger \in Seq(Event) /\ Len(ledger) \in Nat  BY DEF TypeOK
<1>2. DOMAIN ledger = 1 .. Len(ledger) /\ DOMAIN ledger' = 1 .. Len(ledger) + 1
  BY <1>1 DEF Log
<1>3. \A i \in DOMAIN ledger : ledger'[i] = ledger[i]
  BY <1>1, <1>2 DEF Log
<1>4. ledger'[Len(ledger) + 1].key = Key(a)
  BY <1>1 DEF Log
<1>5. \A i \in DOMAIN ledger : ledger[i].status \in Final => ledger[i].key # Key(a)
  BY DEF Settled, EventsOf
<1>. SUFFICES ASSUME NEW i \in DOMAIN ledger', NEW j \in DOMAIN ledger',
                     ledger'[i].status \in Final, ledger'[j].key = ledger'[i].key
              PROVE  j <= i
  BY DEF FinalLast
<1>6. CASE i = Len(ledger) + 1  BY <1>2, <1>6
<1>7. CASE i \in DOMAIN ledger
  <2>1. j \in DOMAIN ledger  BY <1>2, <1>3, <1>4, <1>5, <1>7
  <2>. QED  BY <2>1, <1>3, <1>7 DEF FinalLast
<1>. QED  BY <1>2, <1>6, <1>7, <1>1

\* What an append leaves: the old events, and the new one.
LEMMA AppendEvents ==
  ASSUME TypeOK, NEW a \in Adapters, NEW s, NEW n, Log(a, s, n)
  PROVE  /\ \A i \in DOMAIN ledger : i \in DOMAIN ledger' /\ ledger'[i] = ledger[i]
         /\ Len(ledger) + 1 \in DOMAIN ledger'
         /\ ledger'[Len(ledger) + 1] = [key |-> Key(a), attempt |-> n, status |-> s]
         /\ DOMAIN ledger' = DOMAIN ledger \union {Len(ledger) + 1}
         /\ Len(ledger) + 1 \notin DOMAIN ledger
<1>1. ledger \in Seq(Event) /\ Len(ledger) \in Nat  BY DEF TypeOK
<1>2. DOMAIN ledger = 1 .. Len(ledger) /\ DOMAIN ledger' = 1 .. Len(ledger) + 1
  BY <1>1 DEF Log
<1>. QED  BY <1>1, <1>2 DEF Log

\* A sent event, once there, stays.
LEMMA AppendKeepsSent ==
  ASSUME TypeOK, NEW a \in Adapters, NEW s, NEW n, Log(a, s, n), NEW k \in Keys,
         \E i \in EventsOf(k) : ledger[i].status = "sent"
  PROVE  \E i \in EventsOf(k)' : ledger'[i].status = "sent"
BY AppendEvents DEF EventsOf

\* In the words of NotSettled: a final event that is last is the latest.
LEMMA OpenWhenLatestIs ==
  ASSUME FinalLast, NEW k \in Keys, ~LatestIsSettled(k)
  PROVE  ~Settled(k)
BY DEF FinalLast, LatestIsSettled, Settled, EventsOf, Final

LEMMA SerialInit == Init => SerialInv
<1>. SUFFICES ASSUME Init PROVE SerialInv  OBVIOUS
<1>1. FinalLast  BY DEF Init, FinalLast
<1>2. BusyOpen  BY DEF Init, BusyOpen, Busy
<1>3. DeliveredOnce  BY DEF Init, DeliveredOnce
<1>. QED  BY <1>1, <1>2, <1>3 DEF SerialInv

\* An event that is not final leaves its notification open.
LEMMA AppendStaysOpen ==
  ASSUME TypeOK, NEW a \in Adapters, NEW s, NEW n, Log(a, s, n), s \notin Final,
         ~Settled(Key(a))
  PROVE  \A i \in DOMAIN ledger' : ledger'[i].key = Key(a) => ledger'[i].status \notin Final
<1>. SUFFICES ASSUME NEW i \in DOMAIN ledger', ledger'[i].key = Key(a)
              PROVE  ledger'[i].status \notin Final
  OBVIOUS
<1>1. /\ \A j \in DOMAIN ledger : ledger'[j] = ledger[j]
      /\ DOMAIN ledger' = DOMAIN ledger \union {Len(ledger) + 1}
      /\ ledger'[Len(ledger) + 1] = [key |-> Key(a), attempt |-> n, status |-> s]
  BY AppendEvents
<1>2. CASE i \in DOMAIN ledger
  BY <1>1, <1>2 DEF EventsOf, Settled
<1>3. CASE i = Len(ledger) + 1
  <2>1. ledger'[i].status = s  BY <1>1, <1>3
  <2>. QED  BY <2>1
<1>. QED  BY <1>1, <1>2, <1>3

\* Before a delivery nothing of the notification is settled or under way.
LEMMA NothingDelivered ==
  ASSUME OneAdapter, SerialInv, NEW a \in Adapters, pc[a] \in Busy, pc[a] # "delivered",
         Key(a) \in Keys
  PROVE  delivered[Key(a)] <= lost[Key(a)]
BY DEF OneAdapter, SerialInv, BusyOpen, DeliveredOnce, SentOrDelivered, Settled, Final

LEMMA SerialStep ==
  ASSUME OneAdapter, TypeOK, SerialInv, [Next]_vars
  PROVE  SerialInv'
<1>. USE DEF GoTo, counts
<1>1. CASE UNCHANGED vars
  BY <1>1 DEF vars, adapter, SerialInv, FinalLast, BusyOpen, DeliveredOnce, Settled,
              SentOrDelivered, EventsOf, Key
<1>2. ASSUME NEW a \in Adapters, Construct(a) \/ Send(a) \/ SkipDuplicate(a)
      PROVE  SerialInv'
  <2>1. /\ UNCHANGED <<ledger, delivered, lost>>
        /\ pc'[a] \notin Busy /\ pc[a] # "delivered" /\ pc'[a] # "delivered"
    BY <1>2 DEF Construct, Send, SkipDuplicate, TypeOK, Busy
  <2>2. FinalLast'  BY <2>1 DEF SerialInv, FinalLast
  <2>3. BusyOpen'  BY <2>1 DEF OneAdapter, BusyOpen
  <2>4. DeliveredOnce'
    BY <2>1 DEF OneAdapter, SerialInv, DeliveredOnce, SentOrDelivered, EventsOf
  <2>. QED  BY <2>2, <2>3, <2>4 DEF SerialInv
<1>3. ASSUME NEW a \in Adapters, NotSettled(a) PROVE SerialInv'
  <2>1. /\ UNCHANGED <<ledger, delivered, lost, message>>
        /\ pc[a] # "delivered" /\ pc'[a] # "delivered"
    BY <1>3 DEF NotSettled, TypeOK
  <2>2. FinalLast'  BY <2>1 DEF SerialInv, FinalLast
  <2>3. ~Settled(Key(a))
    BY <1>3, KeyType, OpenWhenLatestIs DEF NotSettled, SerialInv
  <2>4. BusyOpen'
    BY <2>1, <2>3 DEF OneAdapter, BusyOpen, Settled, EventsOf, Key
  <2>5. DeliveredOnce'
    BY <2>1 DEF OneAdapter, SerialInv, DeliveredOnce, SentOrDelivered, EventsOf
  <2>. QED  BY <2>2, <2>4, <2>5 DEF SerialInv
<1>4. ASSUME NEW a \in Adapters, ClientDelivers(a) \/ ClientFails(a) \/ ClientAnswerLost(a)
      PROVE  SerialInv'
  <2>1. /\ UNCHANGED <<ledger, message>> /\ pc[a] = "calling"
        /\ pc'[a] \in {"delivered", "failed"}
    BY <1>4 DEF ClientDelivers, ClientFails, ClientAnswerLost, TypeOK
  <2>2. FinalLast'  BY <2>1 DEF SerialInv, FinalLast
  <2>3. BusyOpen'
    BY <2>1 DEF OneAdapter, SerialInv, BusyOpen, Busy, Settled, EventsOf, Key
  <2>4. Key(a) \in Keys /\ delivered[Key(a)] <= lost[Key(a)]
    BY <2>1, KeyType, NothingDelivered DEF Busy
  <2>5. \A k \in Keys : delivered[k] \in Nat /\ lost[k] \in Nat
    BY DEF TypeOK
  <2>6. \A k \in Keys : k # Key(a) => delivered'[k] = delivered[k] /\ lost'[k] = lost[k]
    BY <1>4 DEF ClientDelivers, ClientFails, ClientAnswerLost, TypeOK
  <2>7. /\ delivered'[Key(a)] <= lost'[Key(a)] + 1
        /\ delivered'[Key(a)] <= lost'[Key(a)] \/ pc'[a] = "delivered"
    <3>1. CASE ClientDelivers(a)
      BY <3>1, <2>4, <2>5 DEF ClientDelivers, TypeOK
    <3>2. CASE ClientFails(a)
      BY <3>2, <2>4, <2>5 DEF ClientFails, TypeOK
    <3>3. CASE ClientAnswerLost(a)
      BY <3>3, <2>4, <2>5 DEF ClientAnswerLost, TypeOK
    <3>. QED  BY <1>4, <3>1, <3>2, <3>3
  <2>8. DeliveredOnce'
    <3>. SUFFICES ASSUME NEW k \in Keys
                  PROVE  /\ delivered'[k] <= lost'[k] + 1
                         /\ delivered'[k] <= lost'[k] \/ SentOrDelivered(k)'
      BY DEF DeliveredOnce
    <3>1. CASE k = Key(a)
      BY <2>1, <2>7, <3>1 DEF SentOrDelivered, Key
    <3>2. CASE k # Key(a)
      BY <2>1, <2>6, <3>2
      DEF OneAdapter, SerialInv, DeliveredOnce, SentOrDelivered, EventsOf
    <3>. QED  BY <3>1, <3>2
  <2>. QED  BY <2>2, <2>3, <2>8 DEF SerialInv
<1>5. ASSUME NEW a \in Adapters, DryRun(a) \/ RecordSent(a)
      PROVE  SerialInv'
  <2>1. PICK s, n : s \in Final /\ Log(a, s, n) /\ (pc[a] = "delivered" => s = "sent")
    BY <1>5 DEF DryRun, RecordSent, Final
  <2>2. /\ UNCHANGED <<message, delivered, lost>> /\ pc[a] \in Busy
        /\ pc'[a] = "ready"
    BY <1>5 DEF DryRun, RecordSent, Busy, TypeOK
  <2>3. FinalLast'
    BY <2>1, <2>2, AppendFinalLast DEF SerialInv, BusyOpen
  <2>4. BusyOpen'  BY <2>2 DEF OneAdapter, BusyOpen, Busy
  <2>5. ASSUME NEW k \in Keys, SentOrDelivered(k) PROVE SentOrDelivered(k)'
    <3>1. CASE \E i \in EventsOf(k) : ledger[i].status = "sent"
      BY <3>1, <2>1, AppendKeepsSent DEF SentOrDelivered
    <3>2. CASE pc[a] = "delivered" /\ Key(a) = k
      <4>1. /\ Len(ledger) + 1 \in DOMAIN ledger'
            /\ ledger'[Len(ledger) + 1] = [key |-> k, attempt |-> n, status |-> "sent"]
        BY <3>2, <2>1, AppendEvents
      <4>2. Len(ledger) + 1 \in EventsOf(k)'  BY <4>1 DEF EventsOf
      <4>. QED  BY <4>1, <4>2 DEF SentOrDelivered
    <3>. QED  BY <2>5, <3>1, <3>2 DEF SentOrDelivered, OneAdapter
  <2>6. DeliveredOnce'  BY <2>2, <2>5 DEF SerialInv, DeliveredOnce
  <2>. QED  BY <2>3, <2>4, <2>6 DEF SerialInv
<1>6. ASSUME NEW a \in Adapters, StartAttempt(a) \/ Retry(a) \/ DeadLetter(a)
      PROVE  SerialInv'
  <2>1. PICK s, n : Log(a, s, n) /\ s \notin Final
    BY <1>6 DEF StartAttempt, Retry, DeadLetter, Final
  <2>2. /\ UNCHANGED <<message, delivered, lost>>
        /\ pc[a] \in Busy /\ pc[a] # "delivered" /\ pc'[a] # "delivered"
    BY <1>6 DEF StartAttempt, Retry, DeadLetter, Busy, TypeOK
  <2>3. ~Settled(Key(a))  BY <2>2 DEF SerialInv, BusyOpen
  <2>4. FinalLast'  BY <2>1, <2>3, AppendFinalLast DEF SerialInv
  <2>5. BusyOpen'
    BY <2>1, <2>2, <2>3, AppendStaysOpen DEF OneAdapter, BusyOpen, Settled, EventsOf, Key
  <2>6. DeliveredOnce'
    <3>1. \A k \in Keys : SentOrDelivered(k) => SentOrDelivered(k)'
      BY <2>1, <2>2, AppendKeepsSent DEF SentOrDelivered, OneAdapter
    <3>. QED  BY <2>2, <3>1 DEF SerialInv, DeliveredOnce
  <2>. QED  BY <2>4, <2>5, <2>6 DEF SerialInv
<1>7. ASSUME NEW a \in Adapters, Crash(a) PROVE SerialInv'
  <2>1. UNCHANGED <<ledger, message, delivered>> /\ pc'[a] = "new"
    BY <1>7 DEF Crash, TypeOK
  <2>2. FinalLast'  BY <2>1 DEF SerialInv, FinalLast
  <2>3. BusyOpen'  BY <2>1 DEF OneAdapter, BusyOpen, Busy
  <2>4. \A k \in Keys :
          lost'[k] = IF pc[a] = "delivered" /\ Key(a) = k THEN lost[k] + 1 ELSE lost[k]
    BY <1>7, KeyType DEF Crash, TypeOK
  <2>5. \A k \in Keys : delivered[k] \in Nat /\ lost[k] \in Nat  BY DEF TypeOK
  <2>6. DeliveredOnce'
    <3>. SUFFICES ASSUME NEW k \in Keys
                  PROVE  /\ delivered'[k] <= lost'[k] + 1
                         /\ delivered'[k] <= lost'[k] \/ SentOrDelivered(k)'
      BY DEF DeliveredOnce
    <3>1. CASE pc[a] = "delivered" /\ Key(a) = k
      BY <3>1, <2>1, <2>4, <2>5 DEF SerialInv, DeliveredOnce
    <3>2. CASE ~(pc[a] = "delivered" /\ Key(a) = k)
      BY <3>2, <2>1, <2>4, <2>5
      DEF OneAdapter, SerialInv, DeliveredOnce, SentOrDelivered, EventsOf
    <3>. QED  BY <3>1, <3>2
  <2>. QED  BY <2>2, <2>3, <2>6 DEF SerialInv
<1>. HIDE DEF GoTo, counts
<1>. QED  BY <1>1, <1>2, <1>3, <1>4, <1>5, <1>6, <1>7 DEF Next, Step

\* A step never adds to a settled notification.
LEMMA SettledStep ==
  ASSUME OneAdapter, TypeOK, SerialInv, [Next]_vars, NEW k \in Keys, Settled(k)
  PROVE  /\ delivered'[k] = delivered[k]
         /\ \A i \in DOMAIN ledger' \ DOMAIN ledger : ledger'[i].key # k
<1>1. CASE ledger' = ledger /\ delivered' = delivered  BY <1>1
<1>2. CASE ~(ledger' = ledger /\ delivered' = delivered)
  <2>1. PICK a \in Adapters :
          \/ DryRun(a) \/ StartAttempt(a) \/ Retry(a) \/ DeadLetter(a) \/ RecordSent(a)
          \/ ClientDelivers(a) \/ ClientAnswerLost(a)
    BY <1>2 DEF Next, Step, vars, Construct, Send, SkipDuplicate, NotSettled, ClientFails,
                Crash
  <2>2. pc[a] \in Busy
    BY <2>1 DEF Busy, DryRun, StartAttempt, Retry, DeadLetter, RecordSent, ClientDelivers,
                ClientAnswerLost
  <2>3. Key(a) # k  BY <2>2 DEF SerialInv, BusyOpen
  <2>4. delivered'[k] = delivered[k]
    BY <2>1, <2>3 DEF DryRun, StartAttempt, Retry, DeadLetter, RecordSent, ClientDelivers,
                      ClientAnswerLost, TypeOK
  <2>5. ledger' = ledger \/ \E s, n : Log(a, s, n)
    BY <2>1 DEF DryRun, StartAttempt, Retry, DeadLetter, RecordSent, ClientDelivers,
                ClientAnswerLost
  <2>6. \A i \in DOMAIN ledger' \ DOMAIN ledger : ledger'[i].key # k
    <3>1. CASE ledger' = ledger  BY <3>1
    <3>2. ASSUME NEW s, NEW n, Log(a, s, n)
          PROVE  \A i \in DOMAIN ledger' \ DOMAIN ledger : ledger'[i].key # k
      <4>1. /\ DOMAIN ledger' = DOMAIN ledger \union {Len(ledger) + 1}
            /\ ledger'[Len(ledger) + 1] = [key |-> Key(a), attempt |-> n, status |-> s]
        BY <3>2, AppendEvents
      <4>2. ledger'[Len(ledger) + 1].key = Key(a)  BY <4>1
      <4>. QED  BY <2>3, <4>1, <4>2
    <3>. QED  BY <2>5, <3>1, <3>2
  <2>. QED  BY <2>4, <2>6
<1>. QED  BY <1>1, <1>2

\* With one adapter at a time, over any crashes, restarts in other modes and
\* failures, a notification is delivered twice only if an answer was lost.
THEOREM OneAdapterDuplicatesExplained ==
  ASSUME OneAdapter PROVE Spec => []DuplicatesExplained
<1>1. TypeOK /\ SerialInv /\ [Next]_vars => SerialInv'  BY SerialStep
<1>2. SerialInv => DuplicatesExplained  BY DEF SerialInv, DeliveredOnce, DuplicatesExplained
<1>. QED  BY <1>1, <1>2, SerialInit, TypeOKCorrect, PTL DEF Spec

\* With one adapter at a time, a sent or dry_run event settles its
\* notification for good.
THEOREM OneAdapterSettledIsFinal ==
  ASSUME OneAdapter PROVE Spec => SettledIsFinal
<1>1. TypeOK /\ SerialInv /\ [Next]_vars => SerialInv'  BY SerialStep
<1>2. TypeOK /\ SerialInv /\ [Next]_vars => [SettledStays]_vars
  BY SettledStep DEF Settled, Final, SettledStays
<1>. QED  BY <1>1, <1>2, SerialInit, TypeOKCorrect, PTL DEF Spec, SettledIsFinal

(***************************************************************************)
(* One adapter at a time: the attempts of a notification                   *)
(***************************************************************************)
\* Attempts under way.
Calling == {"calling", "delivered", "failed"}

\* The latest event of a notification is the retryable failure before attempt n.
RetryOf(k, n) ==
  \E j \in EventsOf(k) :
    /\ \A m \in EventsOf(k) : m <= j
    /\ ledger[j].status = "retryable_failed" /\ ledger[j].attempt + 1 = n

\* The adapter counts within its limit, and what it starts next is the first
\* attempt or follows the failure it has just logged.
AttemptNumbered(a) ==
  /\ pc[a] \in {"attempt"} \union Calling => attempt[a] <= config[a].max_attempts
  /\ pc[a] = "attempt" => attempt[a] = 1 \/ RetryOf(Key(a), attempt[a])

AttemptInv == AttemptsInOrder /\ \A a \in Adapters : AttemptNumbered(a)

\* An attempt_started event that may stand at i.
InOrder(i) ==
  /\ \E c \in Configs : ledger[i].attempt <= c.max_attempts
  /\ ledger[i].attempt # 1 =>
       \E j \in EventsOf(ledger[i].key) :
         /\ j < i /\ \A m \in EventsOf(ledger[i].key) : m <= j \/ i <= m
         /\ ledger[j].status = "retryable_failed"
         /\ ledger[j].attempt + 1 = ledger[i].attempt

LEMMA AttemptInit == Init => AttemptInv
BY DEF Init, AttemptInv, AttemptsInOrder, AttemptNumbered, Calling

\* Events that are there stay in order whatever is appended.
LEMMA AppendKeepsOrder ==
  ASSUME TypeOK, NEW a \in Adapters, NEW s, NEW n, Log(a, s, n),
         NEW i \in DOMAIN ledger, InOrder(i)
  PROVE  InOrder(i)'
<1>1. /\ \A j \in DOMAIN ledger : ledger'[j] = ledger[j]
      /\ DOMAIN ledger' = DOMAIN ledger \union {Len(ledger) + 1}
  BY AppendEvents
<1>2. i <= Len(ledger) + 1
  BY DEF TypeOK
<1>3. \A k : /\ \A m \in EventsOf(k) : m \in EventsOf(k)' /\ ledger'[m] = ledger[m]
             /\ \A m \in EventsOf(k)' : m \in EventsOf(k) \/ m = Len(ledger) + 1
  BY <1>1 DEF EventsOf
<1>4. ledger'[i] = ledger[i]
  BY <1>1
<1>5. PICK k : k = ledger[i].key
  OBVIOUS
<1>6. ASSUME ledger[i].attempt # 1
      PROVE  \E j \in EventsOf(k)' :
               /\ j < i /\ \A m \in EventsOf(k)' : m <= j \/ i <= m
               /\ ledger'[j].status = "retryable_failed"
               /\ ledger'[j].attempt + 1 = ledger[i].attempt
  <2>1. PICK j \in EventsOf(k) :
             /\ j < i /\ \A m \in EventsOf(k) : m <= j \/ i <= m
             /\ ledger[j].status = "retryable_failed"
             /\ ledger[j].attempt + 1 = ledger[i].attempt
    BY <1>5, <1>6 DEF InOrder
  <2>2. \A m \in EventsOf(k)' : m <= j \/ i <= m
    BY <1>2, <1>3, <2>1
  <2>3. j \in EventsOf(k)' /\ ledger'[j] = ledger[j]
    BY <1>3
  <2>. QED
    BY <2>1, <2>2, <2>3
<1>. QED
  BY <1>4, <1>5, <1>6 DEF InOrder

\* The event that is appended is in order if it is no attempt, or the next one.
LEMMA AppendInOrder ==
  ASSUME TypeOK, NEW a \in Adapters, NEW s, NEW n, Log(a, s, n), AttemptsInOrder,
         s = "attempt_started" =>
           /\ \E c \in Configs : n <= c.max_attempts
           /\ n = 1 \/ RetryOf(Key(a), n)
  PROVE  AttemptsInOrder'
<1>0. PICK new \in Nat : new = Len(ledger) + 1
  BY DEF TypeOK
<1>1. /\ \A j \in DOMAIN ledger : ledger'[j] = ledger[j]
      /\ DOMAIN ledger' = DOMAIN ledger \union {new}
      /\ ledger'[new] = [key |-> Key(a), attempt |-> n, status |-> s]
  BY <1>0, AppendEvents
<1>2. \A j \in DOMAIN ledger : j < new
  BY <1>0 DEF TypeOK
<1>3. PICK k : k = Key(a)
  OBVIOUS
<1>4. ASSUME s = "attempt_started", n # 1
      PROVE  \E j \in EventsOf(k)' :
               /\ j < new /\ \A m \in EventsOf(k)' : m <= j \/ new <= m
               /\ ledger'[j].status = "retryable_failed" /\ ledger'[j].attempt + 1 = n
  <2>1. PICK j \in EventsOf(k) :
          /\ \A m \in EventsOf(k) : m <= j
          /\ ledger[j].status = "retryable_failed" /\ ledger[j].attempt + 1 = n
    BY <1>3, <1>4 DEF RetryOf
  <2>2. j < new /\ j \in EventsOf(k)' /\ ledger'[j] = ledger[j]
    BY <1>1, <1>2 DEF EventsOf
  <2>3. \A m \in EventsOf(k)' : m <= j \/ new <= m
    BY <1>1, <2>1 DEF EventsOf
  <2>. QED
    BY <2>1, <2>2, <2>3
<1>5. s = "attempt_started" => InOrder(new)'
  <2>1. ledger'[new].key = k /\ ledger'[new].attempt = n
    BY <1>1, <1>3
  <2>. QED
    BY <1>4, <2>1 DEF InOrder
<1>. QED
  BY <1>1, <1>5, AppendKeepsOrder DEF AttemptsInOrder, InOrder

\* An adapter that appends nothing and reaches no attempt by its step.
LEMMA AttemptMove ==
  ASSUME OneAdapter, AttemptInv, NEW a \in Adapters, ledger' = ledger, AttemptNumbered(a)'
  PROVE  AttemptInv'
BY DEF OneAdapter, AttemptInv, AttemptsInOrder, EventsOf

\* One adapter appends an event and counts its attempts.
LEMMA AttemptAppend ==
  ASSUME OneAdapter, TypeOK, AttemptInv, NEW a \in Adapters, NEW s, NEW n, Log(a, s, n),
         s = "attempt_started" =>
           /\ \E c \in Configs : n <= c.max_attempts
           /\ n = 1 \/ RetryOf(Key(a), n),
         AttemptNumbered(a)'
  PROVE  AttemptInv'
<1>1. AttemptsInOrder'
  BY AppendInOrder DEF AttemptInv
<1>. QED
  BY <1>1 DEF OneAdapter, AttemptInv

LEMMA AttemptStep ==
  ASSUME OneAdapter, TypeOK, AttemptInv, [Next]_vars
  PROVE  AttemptInv'
<1>. USE DEF GoTo, counts, Calling
<1>1. CASE UNCHANGED vars
  <2>1. ASSUME NEW a \in Adapters PROVE AttemptNumbered(a)'
    BY <1>1 DEF vars, adapter, AttemptInv, AttemptNumbered, RetryOf, EventsOf, Key
  <2>. QED
    BY <1>1, <2>1 DEF vars, AttemptInv, AttemptsInOrder, EventsOf
<1>2. ASSUME NEW a \in Adapters, Construct(a) \/ Send(a) \/ SkipDuplicate(a) \/ Crash(a)
      PROVE  AttemptInv'
  <2>1. AttemptNumbered(a)' /\ ledger' = ledger
    BY <1>2 DEF Construct, Send, SkipDuplicate, Crash, AttemptNumbered, TypeOK
  <2>. QED
    BY <2>1, AttemptMove
<1>3. ASSUME NEW a \in Adapters, NotSettled(a) PROVE AttemptInv'
  <2>1. config[a].max_attempts \in Nat \ {0}
    BY SettingsAssumption DEF TypeOK, Config
  <2>2. AttemptNumbered(a)' /\ ledger' = ledger
    BY <1>3, <2>1 DEF NotSettled, AttemptNumbered, TypeOK
  <2>. QED
    BY <2>2, AttemptMove
<1>4. ASSUME NEW a \in Adapters, ClientDelivers(a) \/ ClientFails(a) \/ ClientAnswerLost(a)
      PROVE  AttemptInv'
  <2>1. AttemptNumbered(a)
    BY DEF AttemptInv
  <2>2. AttemptNumbered(a)' /\ ledger' = ledger
    BY <1>4, <2>1 DEF ClientDelivers, ClientFails, ClientAnswerLost, AttemptNumbered, TypeOK
  <2>. QED
    BY <2>2, AttemptMove
<1>5. ASSUME NEW a \in Adapters, DryRun(a) \/ DeadLetter(a) \/ RecordSent(a) PROVE AttemptInv'
  <2>1. AttemptNumbered(a)'
    BY <1>5 DEF DryRun, DeadLetter, RecordSent, AttemptNumbered, TypeOK
  <2>. QED
    BY <1>5, <2>1, AttemptAppend DEF DryRun, DeadLetter, RecordSent
<1>6. ASSUME NEW a \in Adapters, StartAttempt(a) PROVE AttemptInv'
  <2>1. AttemptNumbered(a) /\ config[a] \in Configs
    BY DEF AttemptInv, TypeOK
  <2>2. AttemptNumbered(a)'
    BY <1>6, <2>1 DEF StartAttempt, AttemptNumbered, TypeOK
  <2>3. /\ \E c \in Configs : attempt[a] <= c.max_attempts
        /\ attempt[a] = 1 \/ RetryOf(Key(a), attempt[a])
    BY <1>6, <2>1 DEF StartAttempt, AttemptNumbered
  <2>. QED
    BY <1>6, <2>2, <2>3, AttemptAppend DEF StartAttempt
<1>7. ASSUME NEW a \in Adapters, Retry(a) PROVE AttemptInv'
  <2>1. /\ attempt[a] \in Nat /\ config[a].max_attempts \in Nat /\ attempt'[a] = attempt[a] + 1
        /\ config' = config /\ message' = message /\ pc'[a] = "attempt"
        /\ attempt[a] < config[a].max_attempts
        /\ Log(a, "retryable_failed", attempt[a])
    BY <1>7, SettingsAssumption DEF Retry, TypeOK, Config
  <2>2. PICK j : j = Len(ledger) + 1
    OBVIOUS
  <2>3. PICK k : k = Key(a) /\ k = Key(a)'
    BY <2>1 DEF Key
  <2>4. /\ ledger'[j] = [key |-> k, attempt |-> attempt[a], status |-> "retryable_failed"]
        /\ DOMAIN ledger' = DOMAIN ledger \union {j} /\ \A m \in DOMAIN ledger : m <= j
    <3>1. ledger \in Seq(Event) /\ \A m \in DOMAIN ledger : m <= j
      BY <2>2 DEF TypeOK
    <3>2. /\ ledger'[j] = [key |-> Key(a), attempt |-> attempt[a], status |-> "retryable_failed"]
          /\ DOMAIN ledger' = DOMAIN ledger \union {j}
      BY <2>1, <2>2, AppendEvents
    <3>. QED
      BY <2>3, <3>1, <3>2
  <2>5. j \in EventsOf(k)' /\ \A m \in EventsOf(k)' : m <= j
    BY <2>2, <2>4 DEF EventsOf, TypeOK
  <2>6. PICK n : n = attempt'[a]
    OBVIOUS
  <2>7. RetryOf(k, n)'
    BY <2>1, <2>4, <2>5, <2>6 DEF RetryOf
  <2>8. AttemptNumbered(a)'
    BY <2>1, <2>3, <2>6, <2>7 DEF AttemptNumbered
  <2>. QED
    BY <2>1, <2>8, AttemptAppend
<1>. QED
  BY <1>1, <1>2, <1>3, <1>4, <1>5, <1>6, <1>7 DEF Next, Step

\* With one adapter at a time, attempts are numbered without gaps and within
\* the largest limit, whatever dies and whatever limit it is restarted with.
THEOREM OneAdapterAttemptsInOrder ==
  ASSUME OneAdapter PROVE Spec => []AttemptsInOrder
<1>1. TypeOK /\ AttemptInv /\ [Next]_vars => AttemptInv'
  BY AttemptStep
<1>2. AttemptInv => AttemptsInOrder
  BY DEF AttemptInv
<1>. QED
  BY <1>1, <1>2, AttemptInit, TypeOKCorrect, PTL DEF Spec

(***************************************************************************)
(* Any adapters at once: what the ledger accounts for                      *)
(***************************************************************************)
At(place, k) == {a \in Adapters : pc[a] = place /\ Key(a) = k}

\* A client call under way was logged and is not delivered yet; a delivery
\* under way is not recorded yet.
AccountInv ==
  \A k \in Keys :
    /\ delivered[k] + Cardinality(At("calling", k)) <= Count(k, "attempt_started")
    /\ Count(k, "sent") + Cardinality(At("delivered", k)) <= delivered[k]

LEMMA AtFinite ==
  ASSUME NEW place, NEW k
  PROVE  IsFiniteSet(At(place, k)) /\ Cardinality(At(place, k)) \in Nat
BY SettingsAssumption, FS_Subset, FS_CardinalityType DEF At

LEMMA AtFinitePrimed ==
  ASSUME NEW place, NEW k
  PROVE  IsFiniteSet(At(place, k)') /\ Cardinality(At(place, k)') \in Nat
BY SettingsAssumption, FS_Subset, FS_CardinalityType DEF At

\* An adapter enters a place, leaves it, or neither.
LEMMA Enters ==
  ASSUME TypeOK, NEW a \in Adapters, NEW place, NEW k \in Keys, UNCHANGED message,
         GoTo(a, place), pc[a] # place
  PROVE  Cardinality(At(place, k)') =
           Cardinality(At(place, k)) + (IF Key(a) = k THEN 1 ELSE 0)
<1>1. a \notin At(place, k)  BY DEF At
<1>2. At(place, k)' = IF Key(a) = k THEN At(place, k) \union {a} ELSE At(place, k)
  BY DEF At, GoTo, TypeOK, Key
<1>3. IsFiniteSet(At(place, k)) /\ Cardinality(At(place, k)) \in Nat  BY AtFinite
<1>4. Cardinality(At(place, k) \union {a}) = Cardinality(At(place, k)) + 1
  BY <1>1, <1>3, FS_AddElement
<1>. QED  BY <1>2, <1>3, <1>4

LEMMA Leaves ==
  ASSUME TypeOK, NEW a \in Adapters, NEW place, NEW k \in Keys, UNCHANGED message,
         NEW to, GoTo(a, to), pc[a] = place, to # place
  PROVE  Cardinality(At(place, k)') =
           Cardinality(At(place, k)) - (IF Key(a) = k THEN 1 ELSE 0)
<1>1. Key(a) = k => a \in At(place, k)  BY DEF At
<1>2. At(place, k)' = IF Key(a) = k THEN At(place, k) \ {a} ELSE At(place, k)
  BY DEF At, GoTo, TypeOK, Key
<1>3. IsFiniteSet(At(place, k)) /\ Cardinality(At(place, k)) \in Nat  BY AtFinite
<1>4. Key(a) = k => Cardinality(At(place, k) \ {a}) = Cardinality(At(place, k)) - 1
  BY <1>1, <1>3, FS_RemoveElement
<1>. QED  BY <1>2, <1>3, <1>4

LEMMA Passes ==
  ASSUME TypeOK, NEW a \in Adapters, NEW place, NEW k \in Keys,
         \A b \in Adapters \ {a} : message'[b] = message[b],
         NEW to, GoTo(a, to), pc[a] # place, to # place
  PROVE  At(place, k)' = At(place, k)
BY DEF At, GoTo, TypeOK, Key

LEMMA CountFinite ==
  ASSUME TypeOK, NEW k, NEW status
  PROVE  /\ IsFiniteSet({i \in EventsOf(k) : ledger[i].status = status})
         /\ Count(k, status) \in Nat
<1>1. IsFiniteSet(1 .. Len(ledger))
  BY FS_Interval DEF TypeOK
<1>2. {i \in EventsOf(k) : ledger[i].status = status} \subseteq 1 .. Len(ledger)
  BY DEF EventsOf, TypeOK
<1>. QED  BY <1>1, <1>2, FS_Subset, FS_CardinalityType DEF Count

\* An append counts once, for its own notification and status.
LEMMA CountAppend ==
  ASSUME TypeOK, NEW a \in Adapters, NEW s, NEW n, Log(a, s, n), NEW k \in Keys, NEW status
  PROVE  Count(k, status)' =
           Count(k, status) + (IF Key(a) = k /\ s = status THEN 1 ELSE 0)
<1>. DEFINE S == {i \in EventsOf(k) : ledger[i].status = status}
            last == Len(ledger) + 1
<1>1. /\ \A i \in DOMAIN ledger : ledger'[i] = ledger[i]
      /\ DOMAIN ledger' = DOMAIN ledger \union {last} /\ last \notin DOMAIN ledger
      /\ ledger'[last] = [key |-> Key(a), attempt |-> n, status |-> s]
  BY AppendEvents
<1>2. ledger'[last].key = Key(a) /\ ledger'[last].status = s  BY <1>1
<1>3. S' = IF Key(a) = k /\ s = status THEN S \union {last} ELSE S
  BY <1>1, <1>2 DEF EventsOf
<1>4. last \notin S  BY <1>1 DEF EventsOf
<1>5. IsFiniteSet(S) /\ Cardinality(S) \in Nat  BY CountFinite DEF Count
<1>6. Cardinality(S \union {last}) = Cardinality(S) + 1
  BY <1>4, <1>5, FS_AddElement
<1>7. Count(k, status) = Cardinality(S) /\ Count(k, status)' = Cardinality(S')
  BY DEF Count
<1>. HIDE DEF S, last
<1>. QED  BY <1>3, <1>5, <1>6, <1>7

LEMMA AccountInit == Init => AccountInv
<1>. SUFFICES ASSUME Init, NEW k \in Keys
     PROVE  /\ delivered[k] + Cardinality(At("calling", k)) <= Count(k, "attempt_started")
            /\ Count(k, "sent") + Cardinality(At("delivered", k)) <= delivered[k]
  BY DEF AccountInv
<1>1. At("calling", k) = {} /\ At("delivered", k) = {}  BY DEF Init, At
<1>2. delivered[k] = 0  BY DEF Init
<1>3. EventsOf(k) = {}  BY DEF Init, EventsOf
<1>4. Count(k, "sent") = 0 /\ Count(k, "attempt_started") = 0
  BY <1>3, FS_EmptySet DEF Count
<1>. QED  BY <1>1, <1>2, <1>4, FS_EmptySet

\* A step that neither logs an attempt or a sent event nor touches a client
\* call or a delivery leaves the account as it is.
LEMMA AccountUntouched ==
  ASSUME TypeOK, AccountInv, NEW k \in Keys,
         delivered'[k] = delivered[k],
         Count(k, "attempt_started")' = Count(k, "attempt_started"),
         Count(k, "sent")' = Count(k, "sent"),
         Cardinality(At("calling", k)') <= Cardinality(At("calling", k)),
         Cardinality(At("delivered", k)') <= Cardinality(At("delivered", k))
  PROVE  /\ delivered'[k] + Cardinality(At("calling", k)') <= Count(k, "attempt_started")'
         /\ Count(k, "sent")' + Cardinality(At("delivered", k)') <= delivered'[k]
<1>1. /\ delivered[k] \in Nat
      /\ Count(k, "attempt_started") \in Nat /\ Count(k, "sent") \in Nat
      /\ Cardinality(At("calling", k)) \in Nat /\ Cardinality(At("delivered", k)) \in Nat
  BY CountFinite, AtFinite DEF TypeOK
<1>2. /\ Cardinality(At("calling", k)') \in Nat /\ Cardinality(At("delivered", k)') \in Nat
  BY AtFinitePrimed
<1>3. /\ delivered[k] + Cardinality(At("calling", k)) <= Count(k, "attempt_started")
      /\ Count(k, "sent") + Cardinality(At("delivered", k)) <= delivered[k]
  BY DEF AccountInv
<1>. QED  BY <1>1, <1>2, <1>3

LEMMA AccountStep == TypeOK /\ AccountInv /\ [Next]_vars => AccountInv'
<1>. SUFFICES ASSUME TypeOK, AccountInv, [Next]_vars, NEW k \in Keys
     PROVE  /\ delivered'[k] + Cardinality(At("calling", k)') <= Count(k, "attempt_started")'
            /\ Count(k, "sent")' + Cardinality(At("delivered", k)') <= delivered'[k]
  BY DEF AccountInv
<1>. DEFINE Goal ==
       /\ delivered'[k] + Cardinality(At("calling", k)') <= Count(k, "attempt_started")'
       /\ Count(k, "sent")' + Cardinality(At("delivered", k)') <= delivered'[k]
<1>a. /\ delivered[k] \in Nat
      /\ Count(k, "attempt_started") \in Nat /\ Count(k, "sent") \in Nat
      /\ Cardinality(At("calling", k)) \in Nat /\ Cardinality(At("delivered", k)) \in Nat
  BY CountFinite, AtFinite DEF TypeOK
<1>b. /\ delivered[k] + Cardinality(At("calling", k)) <= Count(k, "attempt_started")
      /\ Count(k, "sent") + Cardinality(At("delivered", k)) <= delivered[k]
  BY DEF AccountInv
<1>1. ASSUME UNCHANGED vars PROVE Goal
  <2>1. /\ delivered'[k] = delivered[k]
        /\ Count(k, "attempt_started")' = Count(k, "attempt_started")
        /\ Count(k, "sent")' = Count(k, "sent")
        /\ At("calling", k)' = At("calling", k) /\ At("delivered", k)' = At("delivered", k)
    BY <1>1 DEF vars, adapter, Count, EventsOf, At, Key
  <2>. QED  BY <2>1, <1>a, <1>b
<1>2. ASSUME NEW a \in Adapters,
             Construct(a) \/ Send(a) \/ SkipDuplicate(a) \/ NotSettled(a)
      PROVE  Goal
  <2>1. PICK to : /\ GoTo(a, to) /\ to \notin {"calling", "delivered"}
    BY <1>2 DEF Construct, Send, SkipDuplicate, NotSettled
  <2>2. /\ UNCHANGED <<ledger, delivered>> /\ pc[a] \notin {"calling", "delivered"}
        /\ \A b \in Adapters \ {a} : message'[b] = message[b]
    BY <1>2 DEF Construct, Send, SkipDuplicate, NotSettled, TypeOK
  <2>3. At("calling", k)' = At("calling", k) /\ At("delivered", k)' = At("delivered", k)
    BY <2>1, <2>2, Passes
  <2>4. /\ Count(k, "attempt_started")' = Count(k, "attempt_started")
        /\ Count(k, "sent")' = Count(k, "sent")
    BY <2>2 DEF Count, EventsOf
  <2>. QED  BY <1>a, <1>b, <2>2, <2>3, <2>4
<1>3. ASSUME NEW a \in Adapters, DryRun(a) \/ Retry(a) \/ DeadLetter(a) PROVE Goal
  <2>1. PICK s, n : Log(a, s, n) /\ s \notin {"attempt_started", "sent"}
    BY <1>3 DEF DryRun, Retry, DeadLetter
  <2>2. PICK to : GoTo(a, to) /\ to \notin {"calling", "delivered"}
    BY <1>3 DEF DryRun, Retry, DeadLetter
  <2>3. /\ UNCHANGED <<message, delivered>> /\ pc[a] \notin {"calling", "delivered"}
    BY <1>3 DEF DryRun, Retry, DeadLetter
  <2>4. At("calling", k)' = At("calling", k) /\ At("delivered", k)' = At("delivered", k)
    BY <2>2, <2>3, Passes
  <2>5. /\ Count(k, "attempt_started")' = Count(k, "attempt_started")
        /\ Count(k, "sent")' = Count(k, "sent")
    BY <2>1, CountAppend, <1>a
  <2>. QED  BY <1>a, <1>b, <2>3, <2>4, <2>5
<1>4. ASSUME NEW a \in Adapters, StartAttempt(a) PROVE Goal
  <2>1. /\ Log(a, "attempt_started", attempt[a]) /\ GoTo(a, "calling")
        /\ UNCHANGED <<message, delivered>> /\ pc[a] = "attempt"
    BY <1>4 DEF StartAttempt
  <2>2. Cardinality(At("calling", k)') =
          Cardinality(At("calling", k)) + (IF Key(a) = k THEN 1 ELSE 0)
    BY <2>1, Enters
  <2>3. At("delivered", k)' = At("delivered", k)  BY <2>1, Passes
  <2>4. Count(k, "attempt_started")' =
          Count(k, "attempt_started") + (IF Key(a) = k THEN 1 ELSE 0)
    BY <2>1, CountAppend
  <2>5. Count(k, "sent")' = Count(k, "sent")  BY <2>1, CountAppend, <1>a
  <2>. QED  BY <1>a, <1>b, <2>1, <2>2, <2>3, <2>4, <2>5
<1>5. ASSUME NEW a \in Adapters, ClientDelivers(a) PROVE Goal
  <2>1. /\ GoTo(a, "delivered") /\ UNCHANGED <<ledger, message>> /\ pc[a] = "calling"
        /\ delivered'[k] = delivered[k] + (IF Key(a) = k THEN 1 ELSE 0)
    BY <1>5 DEF ClientDelivers, TypeOK
  <2>2. Cardinality(At("calling", k)') =
          Cardinality(At("calling", k)) - (IF Key(a) = k THEN 1 ELSE 0)
    BY <2>1, Leaves
  <2>3. Cardinality(At("delivered", k)') =
          Cardinality(At("delivered", k)) + (IF Key(a) = k THEN 1 ELSE 0)
    BY <2>1, Enters
  <2>4. /\ Count(k, "attempt_started")' = Count(k, "attempt_started")
        /\ Count(k, "sent")' = Count(k, "sent")
    BY <2>1 DEF Count, EventsOf
  <2>. QED  BY <1>a, <1>b, <2>1, <2>2, <2>3, <2>4
<1>6. ASSUME NEW a \in Adapters, ClientFails(a) \/ ClientAnswerLost(a) PROVE Goal
  <2>1. /\ GoTo(a, "failed") /\ UNCHANGED <<ledger, message>> /\ pc[a] = "calling"
        /\ \/ delivered'[k] = delivered[k]
           \/ delivered'[k] = delivered[k] + 1 /\ Key(a) = k
    BY <1>6 DEF ClientFails, ClientAnswerLost, TypeOK
  <2>2. Cardinality(At("calling", k)') =
          Cardinality(At("calling", k)) - (IF Key(a) = k THEN 1 ELSE 0)
    BY <2>1, Leaves
  <2>3. At("delivered", k)' = At("delivered", k)  BY <2>1, Passes
  <2>4. /\ Count(k, "attempt_started")' = Count(k, "attempt_started")
        /\ Count(k, "sent")' = Count(k, "sent")
    BY <2>1 DEF Count, EventsOf
  <2>. QED  BY <1>a, <1>b, <2>1, <2>2, <2>3, <2>4
<1>7. ASSUME NEW a \in Adapters, RecordSent(a) PROVE Goal
  <2>1. /\ Log(a, "sent", attempt[a]) /\ GoTo(a, "ready")
        /\ UNCHANGED <<message, delivered>> /\ pc[a] = "delivered"
    BY <1>7 DEF RecordSent
  <2>2. Cardinality(At("delivered", k)') =
          Cardinality(At("delivered", k)) - (IF Key(a) = k THEN 1 ELSE 0)
    BY <2>1, Leaves
  <2>3. At("calling", k)' = At("calling", k)  BY <2>1, Passes
  <2>4. Count(k, "sent")' = Count(k, "sent") + (IF Key(a) = k THEN 1 ELSE 0)
    BY <2>1, CountAppend
  <2>5. Count(k, "attempt_started")' = Count(k, "attempt_started")
    BY <2>1, CountAppend, <1>a
  <2>. QED  BY <1>a, <1>b, <2>1, <2>2, <2>3, <2>4, <2>5
<1>8. ASSUME NEW a \in Adapters, Crash(a) PROVE Goal
  <2>1. GoTo(a, "new") /\ UNCHANGED <<ledger, message, delivered>>
    BY <1>8 DEF Crash
  <2>2. At("calling", k)' \subseteq At("calling", k)
    BY <2>1 DEF At, GoTo, TypeOK, Key
  <2>3. At("delivered", k)' \subseteq At("delivered", k)
    BY <2>1 DEF At, GoTo, TypeOK, Key
  <2>4. /\ Cardinality(At("calling", k)') <= Cardinality(At("calling", k))
        /\ Cardinality(At("delivered", k)') <= Cardinality(At("delivered", k))
    BY <2>2, <2>3, AtFinite, FS_Subset
  <2>5. /\ Count(k, "attempt_started")' = Count(k, "attempt_started")
        /\ Count(k, "sent")' = Count(k, "sent")
    BY <2>1 DEF Count, EventsOf
  <2>. QED  BY <2>1, <2>4, <2>5, AccountUntouched
<1>. HIDE DEF Goal
<1>9. Goal  BY <1>1, <1>2, <1>3, <1>4, <1>5, <1>6, <1>7, <1>8 DEF Next, Step
<1>. QED  BY <1>9 DEF Goal

\* For any number of adapters at once, every delivery has an attempt logged
\* before it and every sent event a delivery.
THEOREM DeliveriesAccountedHolds == Spec => []DeliveriesAccounted
<1>1. TypeOK /\ AccountInv => DeliveriesAccounted
  <2>. SUFFICES ASSUME TypeOK, AccountInv, NEW k \in Keys
       PROVE  Count(k, "sent") <= delivered[k] /\ delivered[k] <= Count(k, "attempt_started")
    BY DEF DeliveriesAccounted
  <2>1. /\ delivered[k] \in Nat
        /\ Count(k, "attempt_started") \in Nat /\ Count(k, "sent") \in Nat
        /\ Cardinality(At("calling", k)) \in Nat /\ Cardinality(At("delivered", k)) \in Nat
    BY CountFinite, AtFinite DEF TypeOK
  <2>. QED  BY <2>1 DEF AccountInv
<1>. QED  BY <1>1, AccountInit, AccountStep, TypeOKCorrect, PTL DEF Spec
=============================================================================
