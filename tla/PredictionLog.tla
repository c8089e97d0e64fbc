--------------------------- MODULE PredictionLog ---------------------------
(***************************************************************************)
(* What a shadow ledger promises: a log of predictions to which a          *)
(* prediction is added at the end, once per prediction id, and of which    *)
(* nothing is ever changed or removed.  Runs are recorded complete only    *)
(* when everything they issue is in the log.                               *)
(***************************************************************************)
EXTENDS Sequences

CONSTANTS
  Predictions,  \* records with a field id
  Plans         \* the sequences of predictions that runs issue

VARIABLES
  log,       \* the predictions in the order they were issued
  complete   \* plans of runs recorded as completed

vars == <<log, complete>>

Logged == {log[i] : i \in DOMAIN log}

Init == log = <<>> /\ complete = {}

Issue(p) ==
  /\ \A q \in Logged : q.id # p.id
  /\ log' = Append(log, p)
  /\ UNCHANGED complete

CompleteRun(plan) ==
  /\ \A i \in DOMAIN plan : plan[i] \in Logged
  /\ complete' = complete \union {plan}
  /\ UNCHANGED log

Next ==
  \/ \E p \in Predictions : Issue(p)
  \/ \E plan \in Plans : CompleteRun(plan)

Spec == Init /\ [][Next]_vars
=============================================================================
