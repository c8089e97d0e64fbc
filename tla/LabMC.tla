--------------------------------- MODULE LabMC ---------------------------------
(* An instance of Lab for TLC.                                               *)
EXTENDS Lab, TLC

\* Two events of one operation, and one of another
K == 1 :> "a" @@ 2 :> "b" @@ 3 :> "a"

\* A call of a data source
Fetching(object, key) == [object |-> object, key |-> key]

Calls ==
  {<<Fetching(1, "a"), Fetching(1, "a"), Fetching(1, "b")>>,
   <<Fetching(1, "a"), Fetching(1, "b"), Fetching(2, "a")>>}

Pairings == {<<"a", "b">>, <<"c", "d">>, <<"c", "a">>}

Referees == <<"unknown", "unknown", "r", "unknown">>

\* Inputs with every statistic, and with some missing
Sides == {"home", "away"}
Complete == [m \in FeatureMatches |-> {}]
Gaps == {Complete, [Complete EXCEPT ![2] = Sides], [Complete EXCEPT ![1] = {"home"}, ![2] = Sides]}

TwoMatches == <<1, 2>>
================================================================================
