------------------------------ MODULE Experiments ------------------------------
(***************************************************************************)
(* The evaluation scripts: the folds each one builds from the seasons of    *)
(* the data set, the predictions of one fold after another, the report, and *)
(* the gates that read a report later.  Seasons are numbered in the order   *)
(* of their names and their rows in the order of kickoff.                   *)
(*                                                                         *)
(* A candidate is compared with the constant train rate.  Its mean loss is  *)
(* measured in units of the constant's loss on a fold; a second metric      *)
(* (log loss, calibration error, bootstrap bound) only agrees or not.       *)
(***************************************************************************)
EXTENDS Integers, FiniteSets

CONSTANTS
  SeasonRows,       \* rows of a season
  Holdout,          \* the season 2425; the next one, 2526, is protected
  MinFolds, MinRows \* what a retraining decision asks for

VARIABLES
  seasons,    \* seasons in the processed data set
  job,        \* the running script
  report,     \* the report that is followed to its decision
  decision

vars == <<seasons, job, report, decision>>

None == [script |-> "none"]
Undecided == [gate |-> "none"]

(***************************************************************************)
(* Folds                                                                   *)
(***************************************************************************)
Rows(first, last) == ((first - 1) * SeasonRows + 1)..(last * SeasonRows)

\* fit: what the model is first fitted on; held: what selects or calibrates it;
\* final: what the model of the test predictions is fitted on
Fold(fit, held, final, test) == [fit |-> fit, held |-> held, final |-> final, test |-> test]

\* Mutant: the slice of the training seasons is one too long.
ExpandingInclusive(k) == Fold(Rows(1, k), {}, Rows(1, k), Rows(k, k))

Expanding(k) == Fold(Rows(1, k - 1), {}, Rows(1, k - 1), Rows(k, k))

\* Selected on the season before the test, refitted on all seasons before it
Nested(k) == Fold(Rows(1, k - 2), Rows(k - 1, k - 1), Rows(1, k - 1), Rows(k, k))

\* Calibrated on the c seasons before the test, not refitted
Calibrated(k, c) == Fold(Rows(1, k - 1 - c), Rows(k - c, k - 1), Rows(1, k - 1 - c), Rows(k, k))

TrainEnd(n) == (7 * n * SeasonRows) \div 10
ValidationEnd(n) == TrainEnd(n) + (15 * n * SeasonRows) \div 100

TemporalSplit(n) ==
  IF TrainEnd(n) < 1 \/ ValidationEnd(n) <= TrainEnd(n) \/ ValidationEnd(n) >= n * SeasonRows
    THEN {}
    ELSE {[train |-> 1..TrainEnd(n),
           validation |-> (TrainEnd(n) + 1)..ValidationEnd(n),
           test |-> (ValidationEnd(n) + 1)..(n * SeasonRows)]}

Unprotected(n) == IF n > Holdout THEN Holdout ELSE n

\* src/football_prediction_lab/evaluation
SeasonFolds(n) == {Calibrated(k, 1) : k \in 3..n}
NestedFolds(n) == IF n < 3 THEN {} ELSE {Nested(k) : k \in 3..n}

\* scripts/evaluation
Cycle33(n) == SeasonFolds(Unprotected(n))
Cycle34(n) == NestedFolds(Unprotected(n))
Cycle36(n) == IF n = Holdout THEN NestedFolds(n) ELSE {}     \* exactly the development seasons
Baseline(n) == {Fold(s.train, {}, s.train, s.validation \union s.test) : s \in TemporalSplit(n)}
Variants(n) == {Fold(s.train, {}, s.train, s.test) : s \in TemporalSplit(n)}
Ablation(n) == {Fold(s.train, s.validation, s.train \union s.validation, s.test) : s \in TemporalSplit(n)}

AblationCards(n) == Ablation(n)
Hybrid(n) == Ablation(n)
BaselineCards(n) == Baseline(n)

\* "Historical" is every season that is not 2425, the later ones as well.
Multiseason(n) ==
  Ablation(n) \union
  {Fold(Rows(1, n) \ Rows(k, k), {}, Rows(1, n) \ Rows(k, k), Rows(k, k)) : k \in {Holdout} \intersect 2..n}

MultiseasonCards(n) == Multiseason(n)

Future(n) == {Calibrated(k, 1) : k \in {Holdout + 1} \intersect 3..n}
FutureBootstrap(n) == Future(n)
FutureErrors(n) == Future(n)

\* The rate of the rows before each row; the data set must not hold 2526.
PointInTime(n) ==
  IF n > Holdout THEN {} ELSE {Fold(1..(r - 1), {}, 1..(r - 1), {r}) : r \in 2..(n * SeasonRows)}

\* scripts/walk_forward
WalkForward(n) == {Expanding(k) : k \in 2..n}
Selected(n) == {Expanding(k) : k \in 2..n}
Tuned(n) == {Nested(k) : k \in 3..n}
WindowSelected(n) == {Nested(k) : k \in 3..n}
TunedOnValidation(n) == Ablation(n)
PlattBtts(n, c) == {Calibrated(k, c) : k \in (c + 2)..n}
PlattCards(n) == {Calibrated(k, 1) : k \in 3..n}
Isotonic(n) == {Calibrated(k, 1) : k \in 3..n}
IsotonicHoldout(n) == {Fold(s.train, s.validation, s.train, s.test) : s \in TemporalSplit(n)}
TrainingWindows(n) ==
  {Fold(Rows(k - w, k - 1), {}, Rows(k - w, k - 1), Rows(k, k)) :
     k \in {Holdout} \intersect 2..n, w \in {3, 5, Holdout - 1} \intersect 1..(Holdout - 1)}
Bootstrap(n) == {Calibrated(k, 1) : k \in 3..n}
BootstrapCards(n) == {Calibrated(k, 1) : k \in 3..n}

Protocol(n) ==
  [cycle33 |-> Cycle33(n), cycle34 |-> Cycle34(n), cycle36 |-> Cycle36(n),
   baseline |-> Baseline(n), baseline_cards |-> BaselineCards(n), variants |-> Variants(n),
   ablation |-> Ablation(n), ablation_cards |-> AblationCards(n), hybrid |-> Hybrid(n),
   multiseason |-> Multiseason(n), multiseason_cards |-> MultiseasonCards(n),
   future |-> Future(n), future_bootstrap |-> FutureBootstrap(n),
   future_errors |-> FutureErrors(n), point_in_time |-> PointInTime(n),
   walk_forward |-> WalkForward(n), selected |-> Selected(n), tuned |-> Tuned(n),
   window_selected |-> WindowSelected(n), tuned_on_validation |-> TunedOnValidation(n),
   platt_btts |-> PlattBtts(n, 1), platt_btts_two |-> PlattBtts(n, 2),
   platt_cards |-> PlattCards(n), isotonic |-> Isotonic(n),
   isotonic_holdout |-> IsotonicHoldout(n), training_windows |-> TrainingWindows(n),
   bootstrap |-> Bootstrap(n), bootstrap_cards |-> BootstrapCards(n)]

Scripts == DOMAIN Protocol(1)
Protecting == {"cycle33", "cycle34", "cycle36", "point_in_time"}
Selecting == {"cycle34", "cycle36"}

Forgetful == {"multiseason", "multiseason_cards"}    \* their history is not what was before

Tests(folds) == {f.test : f \in folds}

\* The next fold, in the order of the tests
Upcoming(todo) == {f \in todo : \A g \in todo : \E r \in f.test : \A t \in g.test : r <= t}

(***************************************************************************)
(* One script                                                              *)
(***************************************************************************)
Init == seasons = 2 /\ job = None /\ report = None /\ decision = Undecided

AddSeason ==
  /\ seasons <= Holdout
  /\ seasons' = seasons + 1
  /\ UNCHANGED <<job, report, decision>>

\* The data set is read once.  Too few seasons, or a protected one, raise.
Begin(script) ==
  /\ job = None /\ report = None
  /\ Protocol(seasons)[script] # {}
  /\ job' = [script |-> script, seasons |-> seasons, todo |-> Protocol(seasons)[script],
             ok |-> {}, marked |-> {}, loss |-> 0, constants |-> 0]
  /\ UNCHANGED <<seasons, report, decision>>

Score(f, loss, constants) ==
  job' = [job EXCEPT !.todo = @ \ {f}, !.ok = @ \union {f},
                     !.loss = @ + loss, !.constants = @ + constants]

ScoreCandidate(f) ==
  /\ job.script \notin Selecting
  /\ \E loss \in 0..2 : Score(f, loss, 0)

\* Any of the available candidates has the least loss on the inner validation, ties
\* going to the simplest; the constant is always available.  It is refitted for the
\* outer test, where the constant then ties with itself.
ScoreSelected(f) == Score(f, 1, 1) \/ \E loss \in 0..2 : Score(f, loss, 0)

ScoreNested(f) == job.script = "cycle34" /\ ScoreSelected(f)

ScoreCycle36(f) == job.script = "cycle36" /\ ScoreSelected(f)

\* Cycle 33 marks a variant that cannot be fitted as inconclusive on the fold;
\* scripts_walk_forward.py records the error of a boosted model.
Mark(f) ==
  /\ job.script \in {"cycle33", "walk_forward"}
  /\ job' = [job EXCEPT !.todo = @ \ {f}, !.marked = @ \union {f}]

Predict ==
  /\ job # None
  /\ \E f \in Upcoming(job.todo) :
       ScoreCandidate(f) \/ ScoreNested(f) \/ ScoreCycle36(f) \/ Mark(f)
  /\ UNCHANGED <<seasons, report, decision>>

\* An exception, among them: the candidate that was selected cannot be fitted.
Abort ==
  /\ job # None /\ job.todo # {}
  /\ job' = None
  /\ UNCHANGED <<seasons, report, decision>>

\* Mutant: the mean is taken over the folds that have a result.
AveragesSomehow == TRUE

\* average_metrics looks up the metrics of every fold, and a recorded error has none.
Averages == job.script = "walk_forward" => job.marked = {}

\* Mutant: failed folds are forgotten.
Cycle33ReleaseForgetting(ok, marked, loss) ==
  Cardinality(ok) >= MinFolds /\ loss <= Cardinality(ok)

Cycle33Release(ok, marked, loss) ==
  Cardinality(ok) >= MinFolds /\ marked = {} /\ loss <= Cardinality(ok)

Decide(gate, accepted, candidate, baseline) ==
  decision' = [gate |-> gate, accepted |-> accepted, candidate |-> Tests(candidate),
               baseline |-> baseline, seasons |-> seasons]

\* Cycle 33 decides in the report itself, against the constant of every fold.
Write ==
  /\ job # None /\ job.todo = {} /\ Averages
  /\ report' = [script |-> job.script, seasons |-> job.seasons,
                ok |-> job.ok, marked |-> job.marked, loss |-> job.loss, constants |-> job.constants]
  /\ \/ job.script # "cycle33" /\ decision' = decision
     \/ /\ job.script = "cycle33"
        /\ \E agrees \in BOOLEAN :
             Decide("cycle33", agrees /\ Cycle33Release(job.ok, job.marked, job.loss),
                    job.ok, Tests(job.ok \union job.marked))
  /\ job' = None
  /\ UNCHANGED seasons

Lose ==
  /\ job # None /\ job.todo = {} /\ ~Averages
  /\ job' = None
  /\ UNCHANGED <<seasons, report, decision>>

(***************************************************************************)
(* The gates                                                               *)
(***************************************************************************)
Enough == Cardinality(report.ok) >= MinFolds /\ Cardinality(report.ok) * SeasonRows >= MinRows

\* The verdicts the metrics may give: both losses are lower; accuracy and
\* calibration error, where asked for, are no worse.
Improves == {accepted \in BOOLEAN : accepted => Enough /\ report.loss < Cardinality(report.ok)}

\* The upper bound of each paired interval is negative.
Favors == {accepted \in BOOLEAN : accepted => Enough}

\* The Platt gates fit the constant again, on the seasons of the data set now.
ConstantNow == {Rows(k, k) : k \in 3..seasons}
ConstantOfReport == {Rows(k, k) : k \in 3..report.seasons}

Assess(gate, scripts, verdicts, baseline) ==
  /\ job = None /\ report # None /\ report.script \in scripts /\ decision = Undecided
  /\ \E accepted \in verdicts : Decide(gate, accepted, report.ok, baseline)
  /\ UNCHANGED <<seasons, job, report>>

ModelRelease == Assess("model_release", {"walk_forward"}, Improves, Tests(report.ok))
PlattRelease == Assess("platt_vs_constant", {"platt_btts", "platt_btts_two"}, Improves, ConstantNow)
WindowRelease == Assess("window_release", {"window_selected"}, Improves, ConstantOfReport)
UncertaintyRelease == Assess("uncertainty", {"bootstrap", "bootstrap_cards"}, Favors, Tests(report.ok))
CalibrationRelease ==
  Assess("calibration", {"isotonic", "platt_btts", "platt_cards"}, Improves, Tests(report.ok))

\* Compares with the constant and decides nothing
Decline == {FALSE}
PlattCardsComparison == Assess("platt_cards_vs_constant", {"platt_cards"}, Decline, ConstantNow)

\* Bound: one report is followed at a time.
Close ==
  /\ report # None
  /\ report' = None /\ decision' = Undecided
  /\ UNCHANGED <<seasons, job>>

Next ==
  \/ AddSeason \/ Predict \/ Abort \/ Write \/ Lose \/ Close
  \/ \E script \in Scripts : Begin(script)
  \/ ModelRelease \/ PlattRelease \/ WindowRelease \/ UncertaintyRelease \/ CalibrationRelease
  \/ PlattCardsComparison

Spec == Init /\ [][Next]_vars

(***************************************************************************)
(* Properties                                                              *)
(***************************************************************************)
ReadFor(f) == f.fit \union f.held \union f.final

\* What a prediction is made from is played before what it is tested on, in every
\* script but one fold of two: run on a data set that goes on after 2425, the multiseason
\* comparisons test that season on what they learn from all the others.  The scripts
\* that protect 2526 read none of its rows.
NoLookahead ==
  job # None =>
    \A f \in job.ok \union job.marked :
      /\ \/ \A r \in ReadFor(f), t \in f.test : r < t
         \/ /\ job.script \in Forgetful /\ job.seasons > Holdout
            /\ f.test = Rows(Holdout, Holdout) /\ ReadFor(f) = Rows(1, job.seasons) \ f.test
      /\ job.script \in Protecting =>
           \A r \in ReadFor(f) \union f.test : r <= Holdout * SeasonRows

\* Claimed by scripts_compare_cards_multiseason.py: "on future-only splits".
FutureOnly ==
  job # None /\ job.script = "multiseason_cards" =>
    \A f \in job.ok : \A r \in ReadFor(f), t \in f.test : r < t

\* A report has a result of the candidate for every fold of its seasons; only cycle
\* 33 reports a fold without one, and marks it.  A report of selected candidates
\* differs from the constant only by the folds on which it was not selected.
ReportsWhole ==
  report # None =>
    /\ report.ok \union report.marked = Protocol(report.seasons)[report.script]
    /\ report.marked # {} => report.script = "cycle33"
    /\ report.script \in Selecting =>
         LET folds == Cardinality(report.ok)
         IN  report.loss \in report.constants..(2 * folds - report.constants)

\* A candidate is accepted on tests its constant was measured on as well, and on all of
\* them but by the Platt gate: that measures the constant anew, on more seasons than the
\* report has if the data set has grown since or the calibration takes two seasons.
AcceptedOnEqualTerms ==
  decision.gate # "none" /\ decision.accepted =>
    /\ decision.candidate \subseteq decision.baseline
    /\ \/ decision.candidate = decision.baseline
       \/ /\ decision.gate = "platt_vs_constant"
          /\ decision.seasons # report.seasons \/ report.script = "platt_btts_two"

\* Claimed by scripts_assess_platt_vs_constant.py: "on identical test folds".
IdenticalFolds ==
  decision.gate = "platt_vs_constant" => decision.candidate = decision.baseline

\* What a gate compares is comparable, from the folds of a report to the candidate
\* that is accepted on them.
ReportsSound == ReportsWhole /\ AcceptedOnEqualTerms

(***************************************************************************)
(* An invariant from which they follow                                     *)
(***************************************************************************)
\* A running script has a fold to do, done or marked for each of its protocol.
JobSound ==
  job # None =>
    /\ job = [script |-> job.script, seasons |-> job.seasons, todo |-> job.todo, ok |-> job.ok,
              marked |-> job.marked, loss |-> job.loss, constants |-> job.constants]
    /\ job.script \in Scripts /\ job.seasons \in Nat /\ job.seasons <= seasons /\ report = None
    /\ job.todo \union job.ok \union job.marked = Protocol(job.seasons)[job.script]
    /\ job.todo \intersect job.ok = {} /\ IsFiniteSet(job.ok)
    /\ job.marked # {} => job.script \in {"cycle33", "walk_forward"}
    /\ job.script \in Selecting =>
         /\ job.constants \in Nat
         /\ job.loss \in job.constants..(2 * Cardinality(job.ok) - job.constants)

ReportSound ==
  /\ seasons \in Nat
  /\ report = None => decision = Undecided
  /\ report # None => report.seasons \in Nat /\ report.seasons <= seasons

ScriptsInv == JobSound /\ ReportSound /\ ReportsWhole /\ AcceptedOnEqualTerms
=============================================================================
