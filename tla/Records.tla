-------------------------------- MODULE Records --------------------------------
(***************************************************************************)
(* The parts that keep a record on disk and are called again after a death: *)
(* shadow runs, the Telegram adapters, the local and the shadow ingestion.  *)
(* They share nothing, so one specification takes them together: the        *)
(* initial states choose a part, and the steps are its own.  Shadow runs of *)
(* one caller keep their own variables; the other parts, shadow runs of     *)
(* several threads among them, take the first of the slots u1 to u20, and   *)
(* the others stay 0.                                                      *)
(***************************************************************************)
EXTENDS ShadowRuns, TelegramSettings, IngestionJobs, ProviderSeason

CONSTANTS
  SharedRequests, MaxThreadCalls, MaxThreadDeaths,   \* ShadowRuns, with threads
  MaxSends, MaxAdapterDeaths, MaxLost,               \* TelegramAdapter
  MaxIngests, MaxIngestDeaths,                       \* LocalIngestion
  Processes,                                         \* the threads, and ShadowIngest
  MaxTime, MaxRuns, MaxDeaths, MaxChanges, MaxBackups

ASSUME ThreadAssumption ==
  /\ SharedRequests \subseteq Request
  /\ \A q \in SharedRequests : \A i, j \in DOMAIN q.plan :
       q.plan[i].id = q.plan[j].id => i = j

VARIABLES part, u1, u2, u3, u4, u5, u6, u7, u8, u9, u10, u11, u12, u13, u14, u15, u16, u17,
  u18, u19, u20

slots ==
  <<u1, u2, u3, u4, u5, u6, u7, u8, u9, u10, u11, u12, u13, u14, u15, u16, u17, u18, u19, u20>>

recordvars == <<part, slots, vars>>

Threads == INSTANCE ShadowRuns WITH
  Callers <- Processes, Requests <- SharedRequests,
  MaxCalls <- MaxThreadCalls, MaxCrashes <- MaxThreadDeaths,
  ledger <- u1, cuts <- u2, unended <- u3, artifact <- u4, record <- u5, pc <- u6, req <- u7,
  next <- u8, prev <- u9, output <- u10, seen <- u11, answered <- u12, calls <- u13,
  crashes <- u14

Tele == INSTANCE TelegramAdapter WITH
  MaxCrashes <- MaxAdapterDeaths,
  ledger <- u1, pc <- u2, config <- u3, message <- u4, attempt <- u5, retryable <- u6,
  delivered <- u7, lost <- u8, sends <- u9, crashes <- u10, losses <- u11

Ing == INSTANCE LocalIngestion WITH
  MaxCrashes <- MaxIngestDeaths,
  raw <- u1, normalized <- u2, processed <- u3, quarantine <- u4, manifest <- u5, pc <- u6,
  job <- u7, accepted <- u8, finished <- u9, superseded <- u10, forgotten <- u11,
  ingests <- u12, crashes <- u13

Season == INSTANCE ShadowIngest WITH
  provider <- u1, clock <- u2, pc <- u3, script <- u4, cache <- u5, asOf <- u6, batch <- u7,
  fetchedAt <- u8, cited <- u9, left <- u10, inserted <- u11, db <- u12, backup <- u13,
  served <- u14, overlapped <- u15, runs <- u16, deaths <- u17, changes <- u18,
  backups <- u19, restores <- u20

\* Slots that are not used stay 0.
From15 == u15 = 0 /\ u16 = 0 /\ u17 = 0 /\ u18 = 0 /\ u19 = 0 /\ u20 = 0
From14 == u14 = 0 /\ From15
From12 == u12 = 0 /\ u13 = 0 /\ From14
From1 ==
  /\ u1 = 0 /\ u2 = 0 /\ u3 = 0 /\ u4 = 0 /\ u5 = 0 /\ u6 = 0 /\ u7 = 0 /\ u8 = 0 /\ u9 = 0
  /\ u10 = 0 /\ u11 = 0 /\ From12

\* No caller at all
Unused == Init /\ req = CHOOSE q \in [Callers -> Requests] : TRUE

RecordsInit ==
  \/ part = "runs" /\ Init /\ From1
  \/ /\ Unused
     /\ \/ part = "threads" /\ Threads!Init /\ From15
        \/ part = "telegram" /\ Tele!Init /\ From12
        \/ part = "ingestion" /\ Ing!Init /\ From14
        \/ part = "season" /\ Season!Init

RecordsNext ==
  /\ UNCHANGED part
  /\ \/ part = "runs" /\ Next /\ UNCHANGED slots
     \/ /\ UNCHANGED vars
        /\ \/ part = "threads" /\ Threads!Next /\ UNCHANGED <<u15, u16, u17, u18, u19, u20>>
           \/ /\ part = "telegram" /\ Tele!Next
              /\ UNCHANGED <<u12, u13, u14, u15, u16, u17, u18, u19, u20>>
           \/ /\ part = "ingestion" /\ Ing!Next
              /\ UNCHANGED <<u14, u15, u16, u17, u18, u19, u20>>
           \/ part = "season" /\ Season!Next

RecordsSpec == RecordsInit /\ [][RecordsNext]_recordvars

(***************************************************************************)
(* Properties.  ChainIntact, RecordMatchesArtifact, AnswersAgree,          *)
(* ResumedUnlessTorn and ImplementsLog are those of ShadowRuns, of one     *)
(* caller.                                                                 *)
(***************************************************************************)
\* Recorded runs of threads issued what they planned, however they interleave.
PlansCovered == part = "threads" => Threads!RecordCoversPlan

\* What threads and deaths break in the ledger is at its end.
BreaksContained == part = "threads" => Threads!BreakContained

\* A second delivery follows an answer that was lost.
DuplicatesExplained == part = "telegram" => Tele!DuplicatesExplained

\* Attempts to deliver are numbered without gaps, over deaths and new configurations.
AttemptsInOrder == part = "telegram" => Tele!AttemptsInOrder

\* Every delivery is in the ledger, is being written there, or was lost.
DeliveriesAccounted == part = "telegram" => Tele!DeliveriesAccounted

\* A settled notification has no further event and no further delivery.
SettledIsFinal == [][part = "telegram" => Tele!SettledStays]_recordvars

\* A match is in the normalized file of one input.
OneInputPerMatch == part = "ingestion" => Ing!OneInputPerMatch

\* A manifest goes on describing its files until something is ingested again.
ManifestsStayValid == part = "ingestion" => Ing!ManifestsStayValid

\* A job that is repeated ends as it ended before.
RerunsAgree == part = "ingestion" => Ing!RerunsAgree

\* Rows of the shadow store refer to rows that are there.
RowsLinked == part = "season" => Season!RowsLinked

\* Fixtures have the kickoff of the latest response, unless scripts overlapped.
FixtureTimes == part = "season" => Season!FixtureTimes

\* The counters of a run are those of the rows it stored.
CountsAccounted == part = "season" => Season!CountsAccounted

\* An analysis is of a fixture as it was captured before.
AnalysesExplained == part = "season" => Season!AnalysesExplained
================================================================================
