------------------------------- MODULE RecordsMC -------------------------------
(* An instance of Records for TLC.                                           *)
EXTENDS Records, ShadowRunsMC, IngestionExtracts

CONSTANTS k1, k2, k3

Signal(k, market) == [key |-> k, market |-> market, pre_match |-> TRUE, renders |-> TRUE]

\* One notification per market, and one that is issued after kickoff.
Signals ==
  {Signal(k1, "btts"), Signal(k2, "cards"), [Signal(k3, "btts") EXCEPT !.pre_match = FALSE]}

Adapter(mode, attempts) ==
  [mode |-> mode, client |-> TRUE, max_attempts |-> attempts, enabled |-> TRUE,
   production_enabled |-> FALSE, allowed_markets |-> {"btts", "cards"},
   require_pre_match |-> TRUE]

\* Production, a client injected in dry_run mode, and two limits on attempts;
\* the last one takes btts only, before or after kickoff.
SerialConfigs ==
  {Adapter("production", 1), Adapter("dry_run", 1), Adapter("test", 3),
   [Adapter("test", 2) EXCEPT !.allowed_markets = {"btts"}, !.require_pre_match = FALSE]}

\* A first fixture list, and one in which a match is postponed and another is
\* not listed any more (or not yet, as the provider may begin with either).
Listed  == 1 :> 1 @@ 2 :> 2
Changed == 1 :> 3

Lists == {Listed, Changed}

ProcessSymmetry == Permutations(Processes)
================================================================================
