---------------------------------- MODULE Lab ----------------------------------
(***************************************************************************)
(* The parts of the laboratory that share nothing, as one specification:   *)
(* the initial states choose one of them, and the steps are its own.  Its  *)
(* variables take the first of the slots v1 to v12, and the others stay 0. *)
(* The outbox of the companion keeps its own variables.                    *)
(***************************************************************************)
EXTENDS SyncOutbox

CONSTANTS
  OddsRows, OddsFlawed,                                         \* OddsGate
  SeasonRows, Holdout, MinFolds, MinRows,                       \* Experiments
  HoldoutEdits, HoldoutStarts,                                  \* HoldoutPolicy
  FeatureMatches, Kickoffs, NextSeason, Fixtures, RefereeOf, Sparse, EventTimes,
  Windows, FatigueDays, RefereeWindow,                          \* PreMatchFeatures
  ApiThreads, ApiRequests, ApiDeaths,                           \* ApiGateway
  ReadinessRows, ReadinessRuns,                                 \* ExternalReadiness
  LedgerMatches, LedgerProcesses, LedgerRuns,                   \* PredictionLedger
  AccaHistory, AccaAsked, AccaDeaths,                           \* Accumulators
  SourceCallers, SourceInterval, SourceMaxAge, SourceTimeout, SourceTime,  \* DataSources
  WinTasks, WinTries, WinFaults                                 \* WinInference

ASSUME SourcesAssumption ==
  /\ {SourceInterval, SourceMaxAge, SourceTimeout, SourceTime} \subseteq Nat
  /\ \A calls \in SourceCallers : \A t \in UNION {DOMAIN other : other \in SourceCallers} :
       t \in DOMAIN calls /\ calls[t].object \in {1, 2}

ASSUME ExperimentsAssumption == SeasonRows \in Nat /\ Holdout \in Nat

ASSUME FeaturesAssumption ==
  /\ IsFiniteSet(FeatureMatches) /\ FeatureMatches \subseteq Nat /\ Kickoffs \subseteq Nat
  /\ Windows \subseteq Nat /\ \E w \in Windows : \A x \in Windows : x <= w
  /\ FatigueDays \in Nat

ASSUME AccumulatorsAssumption == AccaHistory \in Nat

VARIABLES lab, v1, v2, v3, v4, v5, v6, v7, v8, v9, v10, v11, v12

slots == <<v1, v2, v3, v4, v5, v6, v7, v8, v9, v10, v11, v12>>
labvars == <<lab, slots, vars>>

Gate == INSTANCE OddsGate WITH
  MaxRows <- OddsRows, MaxFlawed <- OddsFlawed,
  reusable <- v1, gate <- v2, read <- v3, flawed <- v4, rejected <- v5, rows <- v6,
  decision <- v7

Exp == INSTANCE Experiments WITH
  seasons <- v1, job <- v2, report <- v3, decision <- v4

Hold == INSTANCE HoldoutPolicy WITH
  MaxEdits <- HoldoutEdits, MaxStarts <- HoldoutStarts,
  outside <- v1, disk <- v2, manifests <- v3, pc <- v4, mem <- v5, disturbed <- v6,
  edits <- v7, starts <- v8

Feat == INSTANCE PreMatchFeatures WITH
  Matches <- FeatureMatches,
  builder <- v1, match <- v2, event <- v3, pending <- v4, history <- v5, dates <- v6,
  league <- v7, standings <- v8, referees <- v9, record <- v10, lacking <- v11, stored <- v12

Api == INSTANCE ApiGateway WITH
  Threads <- ApiThreads, MaxRequests <- ApiRequests, MaxDeaths <- ApiDeaths,
  ledger <- v1, cut <- v2, unended <- v3, audit <- v4, pc <- v5, req <- v6, mem <- v7,
  answer <- v8, sent <- v9, served <- v10, deaths <- v11

Ready == INSTANCE ExternalReadiness WITH
  MaxRows <- ReadinessRows, MaxRuns <- ReadinessRuns,
  source <- v1, cutoff <- v2, rows <- v3, seen <- v4, count <- v5, accepted <- v6,
  policy <- v7, commit <- v8, report <- v9, manifest <- v10, writer <- v11,
  validator <- v12

Led == INSTANCE PredictionLedger WITH
  Matches <- LedgerMatches, Proc <- LedgerProcesses, MaxRuns <- LedgerRuns,
  ledger <- v1, generation <- v2, proc <- v3, runs <- v4, errors <- v5

Acca == INSTANCE Accumulators WITH
  MaxHistory <- AccaHistory, MaxAsked <- AccaAsked, MaxDeaths <- AccaDeaths,
  pool <- v1, pc <- v2, todo <- v3, selected <- v4, pairs <- v5, found <- v6,
  history <- v7, loaded <- v8, answered <- v9, asked <- v10, deaths <- v11

Src == INSTANCE DataSources WITH
  Callers <- SourceCallers, Interval <- SourceInterval, MaxAge <- SourceMaxAge,
  Timeout <- SourceTimeout, MaxTime <- SourceTime,
  source <- v1, clock <- v2, limiter <- v3, task <- v4, cache <- v5, asked <- v6

Win == INSTANCE WinInference WITH
  Tasks <- WinTasks, Tries <- WinTries, MaxFaults <- WinFaults,
  task <- v1, cache <- v2, stored <- v3, faults <- v4

\* Slots that are not used stay 0.
From12 == v12 = 0
From11 == v11 = 0 /\ From12
From9 == v9 = 0 /\ v10 = 0 /\ From11
From8 == v8 = 0 /\ From9
From7 == v7 = 0 /\ From8
From6 == v6 = 0 /\ From7
From5 == v5 = 0 /\ From6
From1 == v1 = 0 /\ v2 = 0 /\ v3 = 0 /\ v4 = 0 /\ From5

LabInit ==
  /\ Init
  /\ \/ lab = "outbox" /\ From1
     \/ lab = "odds" /\ Gate!Init /\ From8
     \/ lab = "experiments" /\ Exp!Init /\ From5
     \/ lab = "holdout" /\ Hold!Init /\ From9
     \/ lab = "features" /\ Feat!Init
     \/ lab = "api" /\ Api!Init /\ From12
     \/ lab = "readiness" /\ Ready!Init
     \/ lab = "predictions" /\ Led!Init /\ From6
     \/ lab = "accumulators" /\ Acca!Init /\ From12
     \/ lab = "inference" /\ Win!Init /\ From5
     \/ lab = "sources" /\ Src!Init /\ From7

LabNext ==
  /\ UNCHANGED lab
  /\ \/ lab = "outbox" /\ Next /\ UNCHANGED slots
     \/ lab = "odds" /\ Gate!Next /\ UNCHANGED <<v8, v9, v10, v11, v12, vars>>
     \/ lab = "experiments" /\ Exp!Next /\ UNCHANGED <<v5, v6, v7, v8, v9, v10, v11, v12, vars>>
     \/ lab = "holdout" /\ Hold!Next /\ UNCHANGED <<v9, v10, v11, v12, vars>>
     \/ lab = "features" /\ Feat!Next /\ UNCHANGED vars
     \/ lab = "api" /\ Api!Next /\ UNCHANGED <<v12, vars>>
     \/ lab = "readiness" /\ Ready!Next /\ UNCHANGED vars
     \/ lab = "predictions" /\ Led!Next /\ UNCHANGED <<v6, v7, v8, v9, v10, v11, v12, vars>>
     \/ lab = "accumulators" /\ Acca!Next /\ UNCHANGED <<v12, vars>>
     \/ lab = "inference" /\ Win!Next /\ UNCHANGED <<v5, v6, v7, v8, v9, v10, v11, v12, vars>>
     \/ lab = "sources" /\ Src!Next /\ UNCHANGED <<v7, v8, v9, v10, v11, v12, vars>>

LabSpec == LabInit /\ [][LabNext]_labvars /\ Fairness

(***************************************************************************)
(* Properties.  NothingLost and EverythingSettles are those of SyncOutbox. *)
(***************************************************************************)
\* The odds gate compares a prediction with the latest usable pair of its time.
ComparisonSound == lab = "odds" => Gate!ComparisonSound

\* An evaluation script never learns from what it tests on, or from later matches.
NoLookahead == lab = "experiments" => Exp!NoLookahead

\* Reports cover their folds, and gates compare what was measured on the same ones.
ReportsSound == lab = "experiments" => Exp!ReportsSound

\* Manifests of the holdout policy that verify describe what was really used.
PublishedAgree == lab = "holdout" => Hold!PublishedAgree

\* Features are computed from what was known before the match.
PointInTime == lab = "features" => Feat!PointInTime

\* Answers of the local API are audited, and agree with the prediction ledger.
AnswersAccountable == lab = "api" => Api!AnswersAccountable

\* A readiness audit accounts for its records, and validates with its own manifest.
ReadinessSound == lab = "readiness" => Ready!ReadinessSound

\* In a ledger that verifies, outcomes follow their predictions and come once.
LedgerHonest == lab = "predictions" => Led!LedgerHonest

\* Legs of an accumulator are apart, and the history has what was found.
AccumulatorsSound == lab = "accumulators" => Acca!AccumulatorsSound

\* An estimate comes from the cache, the primary or the backup model, in this order.
EstimatesExplained == lab = "inference" => Win!EstimatesExplained

\* Data sources are asked no more often than they allow, and answer no staler.
FetchesSound == lab = "sources" => Src!FetchesSound
================================================================================
