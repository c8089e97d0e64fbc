---------------------------- MODULE IngestionJobs ----------------------------
(***************************************************************************)
(* What the local ingestion is called with: inputs and jobs                 *)
(* (ingestion/local_csv.py).  A job is an input, a run id and a source      *)
(* name; every other argument is the same in all calls.  An input is its    *)
(* hash.  Its rows have a match id and at most one flaw, whatever validate  *)
(* finds wrong with a row taken by itself; kickoffs are in the order of the *)
(* ids.                                                                    *)
(***************************************************************************)
EXTENDS Naturals, Sequences

CONSTANTS
  Inputs,           \* contents of CSV files
  MatchIds,         \* match ids, numbered by kickoff
  Rows,             \* Rows[x]: the rows of input x
  IngestRunIds,     \* run ids and source names an operator gives
  Sources,
  Jobs,             \* calls in use
  MaxRejection      \* max_rejection_rate in percent

Row == [id : MatchIds, flawed : BOOLEAN]
Job == [input : Inputs, run : IngestRunIds, source : Sources]

ASSUME InputAssumption ==
  /\ MatchIds \subseteq Nat
  /\ Rows \in [Inputs -> Seq(Row)]
  /\ Jobs \subseteq Job
  /\ MaxRejection \in 0..100
=============================================================================
