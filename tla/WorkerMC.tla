------------------------------ MODULE WorkerMC ------------------------------
(* Instances of Worker for TLC: two events, e1 early and e2 late.            *)
EXTENDS Worker, TLC

CONSTANTS e1, e2

Kickoff2 == e1 :> 2 @@ e2 :> 3

Fresh(k) == [key |-> k, stale |-> FALSE]
Old(k)   == [key |-> k, stale |-> TRUE]

\* no data; a stale copy first; two events; a source that repeats itself
Batches2 ==
  {<<>>, <<Old(e1), Fresh(e2)>>, <<Fresh(e1), Fresh(e2)>>, <<Fresh(e2), Fresh(e2)>>}

\* one event per cycle, for the runs about processes
Batches1 == {<<>>, <<Fresh(e2)>>}

Kickoff1 == e2 :> 3
=============================================================================
